-------------------------- MODULE HubRegistryProofs --------------------------
(***************************************************************************)
(* The hub for any number of clients, commits and chunks.  An acknowledged *)
(* push is never lost, in every environment; HEAD names a stored blob when *)
(* one is retained; blobs are whole unless two clients publish one commit; *)
(* without restarts and idle exits the accepted pushes form one line; and  *)
(* the queue depth is exact while the worker stays and nothing expires.    *)
(***************************************************************************)
EXTENDS HubRegistry, FiniteSetTheorems, SequenceTheorems, TLAPS

\* The job file is only removed once HEAD has named its commit: this is what
\* AckedKept needs to be inductive.
UnlinksCommitted ==
  /\ worker = [pc |-> worker.pc, todo |-> worker.todo]
  /\ worker.pc = "unlink" => Current[2] \in committed

Inv == UnlinksCommitted /\ AckedKept

\* The job a worker is at depends on what its scan has left only.
LEMMA SameTodoSameJob ==
  ASSUME worker'.todo = worker.todo
  PROVE  Current' = Current
BY Zenon DEF Current

\* A step that leaves the jobs, the worker and the two histories alone.
LEMMA Untouched ==
  ASSUME Inv, UNCHANGED <<jobs, worker, acked, committed>>
  PROVE  Inv'
BY SameTodoSameJob, Zenon DEF Inv, UnlinksCommitted, AckedKept

\* A step that at most replaces the worker by one about to scan.
LEMMA FreshWorker ==
  ASSUME Inv, UNCHANGED <<jobs, acked, committed>>,
         worker' = [pc |-> "scan", todo |-> {}]
  PROVE  Inv'
BY Zenon DEF Inv, UnlinksCommitted, AckedKept

\* Request threads and clients: only Rename touches the jobs.
LEMMA ClientAndThreadSteps ==
  ASSUME NEW p \in Pushers, Inv, ClientStep(p) \/ ThreadStep(p) \/ Lose(p)
  PROVE  Inv'
<1>1. CASE Query(p) \/ Receive(p) \/ Lose(p)
  BY <1>1, Untouched, Zenon DEF Query, Receive, Lose, memory, disk, history
<1>2. CASE Begin(p)
  BY <1>2, Untouched, FreshWorker, Zenon
     DEF Begin, RepoState, Spawn, memory, disk, history
<1>3. CASE Check(p) \/ Reserve(p) \/ Spool(p) \/ Abandon(p)
  BY <1>3, Untouched, Zenon DEF Check, Reserve, Spool, Abandon, memory, disk, history
<1>4. CASE Take(p)
  BY <1>4, Untouched, FreshWorker, Zenon DEF Take, Spawn, disk, history
<1>5. CASE Enqueue(p)
  BY <1>5, Untouched, Zenon DEF Enqueue, disk
<1>6. CASE Rename(p)
  <2>1. CASE tmp[Target(p)] = <<>>
    BY <1>6, <2>1, Untouched, Zenon DEF Rename
  <2>2. CASE tmp[Target(p)] # <<>>
    <3>1. UnlinksCommitted'
      BY <1>6, SameTodoSameJob, Zenon DEF Rename, Inv, UnlinksCommitted
    <3>2. AckedKept'
      <4>. DEFINE new == [seq |-> push[p].seq, sha |-> Target(p),
                          chunks |-> tmp[Target(p)]]
      <4>1. /\ jobs' = {j \in jobs : <<j.seq, j.sha>> # <<push[p].seq, Target(p)>>}
                       \cup {new}
            /\ acked' = acked \cup {Target(p)}
            /\ committed' = committed
        BY <1>6, <2>2, Zenon DEF Rename
      <4>2. new \in jobs' /\ new.sha = Target(p)
        BY <4>1, Zenon
      <4>3. \A s \in acked : s # Target(p) =>
              s \in committed' \/ \E j \in jobs' : j.sha = s
        <5>. SUFFICES ASSUME NEW s \in acked, s # Target(p), s \notin committed
                      PROVE  \E j \in jobs' : j.sha = s
          BY <4>1, Zenon
        <5>1. PICK j \in jobs : j.sha = s
          BY Zenon DEF Inv, AckedKept
        <5>2. <<j.seq, j.sha>>[2] # <<push[p].seq, Target(p)>>[2]
          BY <5>1, Zenon
        <5>. QED  BY <4>1, <5>1, <5>2, Zenon
      <4>. HIDE DEF new
      <4>. QED  BY <4>1, <4>2, <4>3, Zenon DEF AckedKept
    <3>. QED  BY <3>1, <3>2, Zenon DEF Inv
  <2>. QED  BY <2>1, <2>2, Zenon
<1>. QED  BY <1>1, <1>2, <1>3, <1>4, <1>5, <1>6, Zenon DEF ClientStep, ThreadStep

\* The worker: a job file is removed by Unlink only, after PublishHead.
LEMMA WorkerSteps ==
  ASSUME Inv, WorkerStep \/ IdleTimeout
  PROVE  Inv'
<1>1. CASE Scan \/ Nudged \/ IdleTimeout \/ Exit
  BY <1>1 DEF Scan, Nudged, IdleTimeout, Exit, disk, history, Inv,
              UnlinksCommitted, AckedKept
<1>2. CASE CommitBlob
  BY <1>2, Zenon DEF CommitBlob, history, Inv, UnlinksCommitted, AckedKept
<1>3. CASE PublishHead
  <2>1. worker'.todo = worker.todo
    BY <1>3, Zenon DEF PublishHead, Inv, UnlinksCommitted
  <2>. QED
    BY <1>3, <2>1, SameTodoSameJob, Zenon
       DEF PublishHead, Inv, UnlinksCommitted, AckedKept
<1>4. CASE Unlink
  <2>1. Current[2] \in committed
    BY <1>4, Zenon DEF Unlink, Inv, UnlinksCommitted
  <2>2. AckedKept'
    <3>. SUFFICES ASSUME NEW s \in acked, s \notin committed
                  PROVE  \E j \in jobs' : j.sha = s
      BY <1>4, Zenon DEF Unlink, history, AckedKept
    <3>1. PICK j \in jobs : j.sha = s
      BY Zenon DEF Inv, AckedKept
    <3>2. <<j.seq, j.sha>>[2] # Current[2]
      BY <2>1, <3>1, Zenon
    <3>. QED  BY <1>4, <3>1, <3>2, Zenon DEF Unlink
  <2>3. UnlinksCommitted'
    BY <1>4, Zenon DEF Unlink, Inv, UnlinksCommitted
  <2>. QED  BY <2>2, <2>3, Zenon DEF Inv
<1>5. CASE Settle
  BY <1>5, Zenon DEF Settle, disk, history, Inv, UnlinksCommitted, AckedKept
<1>. QED  BY <1>1, <1>2, <1>3, <1>4, <1>5, Zenon DEF WorkerStep

\* A push answered 202 stays in the spool until HEAD has named it, whatever
\* crashes, idle exits, retries and competing uploads there are: commit_job,
\* then fs::remove_file (worker_loop).
THEOREM AckedSurvives == Spec => []AckedKept
<1>1. Init => Inv
  BY DEF Init, Inv, UnlinksCommitted, AckedKept
<1>2. Inv /\ [Next]_vars => Inv'
  <2>. SUFFICES ASSUME Inv, [Next]_vars PROVE Inv'
    BY Zenon
  <2>1. CASE UNCHANGED vars
    BY <2>1, Untouched, Zenon DEF vars, memory, disk, history
  <2>2. CASE \E p \in Pushers : ClientStep(p) \/ ThreadStep(p) \/ Lose(p)
    BY <2>2, ClientAndThreadSteps, Zenon
  <2>3. CASE WorkerStep \/ IdleTimeout
    BY <2>3, WorkerSteps, Zenon
  <2>4. CASE Crash
    BY <2>4, FreshWorker, Zenon DEF Crash, Spawn, disk, history
  <2>. QED  BY <2>1, <2>2, <2>3, <2>4, Zenon DEF Next
<1>3. Inv => AckedKept
  BY Zenon DEF Inv
<1>. QED  BY <1>1, <1>2, <1>3, PTL DEF Spec

-----------------------------------------------------------------------------
(* Types, and what the threads and the worker rely on. *)

PushPcs == {"query", "begin", "check", "reserve", "spool", "reply", "abandon",
            "take", "enqueue", "rename", "accepted", "limited", "conflict",
            "failed"}
Answers == {202, 409, 429, 500}
MaybeSha == Shas \cup {None}
PushRec ==
  [pc : PushPcs, base : MaybeSha, offset : Nat, tries : Nat, attempts : Nat,
   state : Nat, reserved : BOOLEAN, seq : Nat, reply : Answers \cup {None}]
MemRec == [head : MaybeSha, pending : Nat, uploads : SUBSET Shas, nextSeq : Nat]
JobRec == [seq : Nat, sha : Shas, chunks : Seq(Nat)]
BlobRec == [sha : Shas, chunks : Seq(Nat)]
WorkerPcs == {"none", "scan", "wait", "exit", "commit", "publish", "unlink",
              "settle"}

TypeOK ==
  /\ push \in [Pushers -> PushRec]
  /\ mem \in Seq(MemRec) /\ live \in BOOLEAN /\ wake \in BOOLEAN
  /\ worker \in [pc : WorkerPcs, todo : SUBSET (Nat \X Shas)]
  /\ tmp \in [Shas -> Seq(Nat)]
  /\ jobs \in SUBSET JobRec /\ IsFiniteSet(jobs)
  /\ blobs \in Seq(BlobRec) /\ HEAD \in MaybeSha
  /\ accepted \in Seq([sha : Shas, base : MaybeSha])

\* A thread holds a state and has an answer where it uses them, and there is
\* a worker just when the repository is in the table.
Held ==
  /\ \A p \in Pushers :
       /\ push[p].pc \in {"reply", "abandon"} => push[p].reply \in Answers
       /\ push[p].pc \in {"check", "reserve", "enqueue", "rename"} =>
            push[p].state \in 1..Len(mem)
  /\ live => mem # <<>>
  /\ live <=> worker.pc # "none"

\* The job files a worker still has to commit are there.
Keys == {<<j.seq, j.sha>> : j \in jobs}
ScanHolds ==
  /\ worker.pc \in {"commit", "publish", "unlink"} =>
       worker.todo # {} /\ worker.todo \subseteq Keys
  /\ worker.pc = "settle" =>
       worker.todo # {} /\ worker.todo \ {Current} \subseteq Keys

Sound == TypeOK /\ Held /\ ScanHolds

\* A set of numbers has a smallest one, and a finite one a largest one.
LEMMA SmallestNat ==
  ASSUME NEW S \in SUBSET Nat, S # {} PROVE \E n \in S : \A m \in S : n <= m
<1>1. PICK n \in S : \A m \in S : ~(<<m, n>> \in OpToRel(<, Nat))
  BY NatLessThanWellFounded, WFMin, Zenon
<1>2. \A m \in S : ~(m < n) /\ m \in Nat /\ n \in Nat
  BY <1>1, Zenon DEF OpToRel
<1>. QED  BY <1>2

\* A finite set of numbers has a largest one.
LEMMA LargestNat ==
  ASSUME NEW S \in SUBSET Nat, IsFiniteSet(S), S # {}
  PROVE  \E n \in S : \A m \in S : m <= n
<1>. SUFFICES ASSUME \A n \in S : \E m \in S : m > n PROVE FALSE
  OBVIOUS
<1>. DEFINE B == {T \in FiniteSubsetsOf(S) :
                    T # {} /\ \A n \in T : \E m \in T : m > n}
<1>1. B \subseteq FiniteSubsetsOf(S) /\ S \in B
  BY Zenon DEF FiniteSubsetsOf
<1>2. PICK T \in B : \A U \in B : ~(<<U, T>> \in StrictSubsetOrdering(S))
  BY <1>1, FS_StrictSubsetOrderingWellFounded, WFMin, Zenon
<1>3. T \in SUBSET S /\ IsFiniteSet(T) /\ T # {}
  BY Zenon DEF FiniteSubsetsOf
<1>4. PICK n \in T : TRUE
  BY <1>3, Zenon
<1>. DEFINE U == T \ {n}
<1>5. IsFiniteSet(U) /\ U \in FiniteSubsetsOf(S)
  BY <1>3, FS_RemoveElement, Zenon DEF FiniteSubsetsOf
<1>6. PICK m \in T : m > n
  BY <1>4, Zenon
<1>7. \A k \in U : \E l \in U : l > k
  BY <1>3, <1>4, <1>6
<1>8. U \in B
  BY <1>5, <1>6, <1>7, <1>3, SMTT(60)
<1>9. <<U, T>> \in StrictSubsetOrdering(S)
  BY <1>3, <1>4, Zenon DEF StrictSubsetOrdering
<1>. QED  BY <1>2, <1>8, <1>9, Zenon

\* The worker's job is one of its scan, and its file is there.
LEMMA CurrentIsDue ==
  ASSUME worker.todo \in SUBSET (Nat \X Shas), worker.todo # {}
  PROVE  Current \in worker.todo
<1>. DEFINE S == {k[1] : k \in worker.todo}
<1>0. S \in SUBSET Nat /\ S # {}
  BY Zenon
<1>. HIDE DEF S
<1>1. PICK n \in S : \A m \in S : n <= m
  BY <1>0, SmallestNat, Zenon
<1>. USE DEF S
<1>2. \E k \in worker.todo : \A l \in worker.todo : k[1] <= l[1]
  BY <1>1, Zenon
<1>. QED  BY <1>2, Zenon DEF Current

\* What repo_state recovers is a state.
LEMMA RecoveredType == ASSUME TypeOK PROVE Recovered \in MemRec
<1>1. Cardinality(jobs) \in Nat
  BY FS_CardinalityType, Zenon DEF TypeOK
<1>2. Recovered.nextSeq \in Nat
  <2>. DEFINE S == {j.seq : j \in jobs}
  <2>1. CASE jobs = {}
    BY <2>1, Zenon DEF Recovered
  <2>2. CASE jobs # {}
    <3>1. IsFiniteSet(S)
      <4>1. [j \in jobs |-> j.seq] \in Surjection(jobs, S)
        BY Zenon DEF Surjection
      <4>. QED  BY <4>1, FS_Surjection, Zenon DEF TypeOK
    <3>2. S \in SUBSET Nat /\ S # {}
      BY <2>2 DEF TypeOK, JobRec
    <3>3. \E n \in S : \A j \in jobs : j.seq <= n
      BY <3>1, <3>2, LargestNat, Zenon
    <3>. QED  BY <2>2, <3>2, <3>3, SMTT(60) DEF Recovered
  <2>. QED  BY <2>1, <2>2, Zenon
<1>. QED  BY <1>1, <1>2, Zenon DEF Recovered, MemRec, TypeOK, MaybeSha

\* A new in-memory state is the recovered one, at the end of the list.
LEMMA SpawnType ==
  ASSUME TypeOK, Spawn
  PROVE  /\ mem' \in Seq(MemRec) /\ Len(mem') = Len(mem) + 1
         /\ mem'[Len(mem')] = Recovered /\ mem' # <<>>
         /\ live' \in BOOLEAN /\ wake' \in BOOLEAN
         /\ worker' \in [pc : WorkerPcs, todo : SUBSET (Nat \X Shas)]
<1>1. Recovered \in MemRec /\ mem \in Seq(MemRec)
  BY RecoveredType, Zenon DEF TypeOK
<1>2. mem' = Append(mem, Recovered)
  BY Zenon DEF Spawn
<1>3. mem' \in Seq(MemRec) /\ Len(mem') = Len(mem) + 1 /\ mem'[Len(mem')] = Recovered
  BY <1>1, <1>2
<1>4. mem' # <<>>
  BY <1>1, <1>3
<1>5. /\ live' \in BOOLEAN /\ wake' \in BOOLEAN
      /\ worker' \in [pc : WorkerPcs, todo : SUBSET (Nat \X Shas)]
  BY Zenon DEF Spawn, WorkerPcs
<1>. QED  BY <1>3, <1>4, <1>5, Zenon

\* The state after an accepted push.
LEMMA AdvancedType ==
  ASSUME NEW m \in MemRec, NEW s \in Shas
  PROVE  /\ Advanced(m, s) \in MemRec
         /\ Advanced(m, s).head = s
         /\ Advanced(m, s).pending = m.pending + 1
         /\ Advanced(m, s).uploads = m.uploads
         /\ Advanced(m, s).nextSeq = m.nextSeq + 1
<1>1. m.nextSeq + 1 \in Nat /\ m.pending + 1 \in Nat
  BY DEF MemRec
<1>2. Advanced(m, s) \in MemRec
  BY <1>1, Zenon DEF Advanced, MemRec, MaybeSha
<1>. QED  BY <1>2, Zenon DEF Advanced, MemRec

\* The state after the worker has subtracted a job.
LEMMA SettledType ==
  ASSUME NEW m \in MemRec
  PROVE  LET n == [m EXCEPT !.pending = IF @ = 0 THEN UsizeMax ELSE @ - 1]
         IN  /\ n \in MemRec /\ n.head = m.head /\ n.nextSeq = m.nextSeq
             /\ n.pending = IF m.pending = 0 THEN UsizeMax ELSE m.pending - 1
<1>. DEFINE v == IF m.pending = 0 THEN UsizeMax ELSE m.pending - 1
<1>1. v \in Nat
  BY HubAssumption DEF MemRec
<1>. HIDE DEF v
<1>2. LET n == [m EXCEPT !.pending = v]
      IN  n \in MemRec /\ n.head = m.head /\ n.nextSeq = m.nextSeq /\ n.pending = v
  BY <1>1, Zenon DEF MemRec
<1>. QED  BY <1>2, Zenon DEF v

\* finish_upload refuses and leaves the state alone, or accepts.
LEMMA EnqueueCases ==
  ASSUME NEW p \in Pushers, Enqueue(p)
  PROVE  \/ Refuse(p, 409) \/ Refuse(p, 429)
         \/ /\ ~(mem[push[p].state].pending >= MaxDepth)
            /\ ~Conflicts(mem[push[p].state].head, push[p].base)
            /\ mem' = [mem EXCEPT ![push[p].state] =
                         Advanced(mem[push[p].state], Target(p))]
            /\ accepted' = Append(accepted, [sha |-> Target(p), base |-> push[p].base])
            /\ push' = [push EXCEPT ![p].pc = "rename",
                                    ![p].seq = mem[push[p].state].nextSeq]
<1>. DEFINE m == mem[push[p].state]
<1>1. CASE Refuse(p, 429) \/ Refuse(p, 409)
  BY <1>1, Zenon
<1>2. CASE ~(Refuse(p, 429) \/ Refuse(p, 409))
  <2>1. /\ ~(m.pending >= MaxDepth) /\ ~Conflicts(m.head, push[p].base)
        /\ mem' = [mem EXCEPT ![push[p].state] =
                     Advanced(m, Target(p))]
        /\ accepted' = Append(accepted, [sha |-> Target(p), base |-> push[p].base])
        /\ push' = [push EXCEPT ![p].pc = "rename", ![p].seq = m.nextSeq]
    BY <1>2, ZenonT(60) DEF Enqueue
  <2>. QED  BY <2>1, Zenon
<1>. QED  BY <1>1, <1>2, Zenon

\* The states a step may change are numbered as before.
LEMMA MemType ==
  ASSUME Sound, Next
  PROVE  /\ mem' \in Seq(MemRec)
         /\ \/ Len(mem') = Len(mem) /\ (mem # <<>> => mem' # <<>>)
            \/ Spawn /\ (~live \/ Crash)
<1>. DEFINE Kept == mem' \in Seq(MemRec) /\ Len(mem') = Len(mem)
<1>0. mem \in Seq(MemRec) /\ Len(mem) \in Nat
  BY DEF Sound, TypeOK
<1>e. \A i \in 1..Len(mem) : mem[i] \in MemRec
  BY <1>0, ElementOfSeq, Zenon
<1>1. ASSUME NEW i \in 1..Len(mem), NEW m \in MemRec, mem' = [mem EXCEPT ![i] = m]
      PROVE  Kept
  BY <1>0, <1>1, ExceptSeq
<1>2. ASSUME UNCHANGED mem PROVE Kept
  BY <1>0, <1>2, Zenon
<1>3. ASSUME NEW p \in Pushers, ClientStep(p) \/ ThreadStep(p) \/ Lose(p)
      PROVE  Kept \/ (Spawn /\ ~live)
  <2>0. Target(p) \in Shas /\ push[p].state \in Nat
    BY HubAssumption, Zenon DEF Target, Sound, TypeOK, PushRec
  <2>1. CASE Query(p) \/ Receive(p) \/ Lose(p) \/ Spool(p) \/ Rename(p)
    BY <2>1, <1>2, Zenon DEF Query, Receive, Lose, Spool, Rename, memory
  <2>2. CASE Begin(p)
    BY <2>2, <1>2, Zenon DEF Begin, RepoState, memory
  <2>3. CASE Check(p)
    <3>. DEFINE i == push[p].state
    <3>1. i \in 1..Len(mem)
      BY <2>3, Zenon DEF Check, Sound, Held
    <3>2. PICK left \in SUBSET mem[i].uploads : mem' = [mem EXCEPT ![i].uploads = left]
      BY <2>3, Zenon DEF Check
    <3>3. [mem[i] EXCEPT !.uploads = left] \in MemRec
      BY <3>1, <1>e, Zenon DEF MemRec
    <3>4. mem' = [mem EXCEPT ![i] = [mem[i] EXCEPT !.uploads = left]]
      BY <3>2, Zenon
    <3>. QED  BY <1>1, <3>1, <3>3, <3>4, Zenon
  <2>4. CASE Reserve(p)
    <3>. DEFINE i == push[p].state
    <3>1. i \in 1..Len(mem)
      BY <2>4, Zenon DEF Reserve, Sound, Held
    <3>2. CASE UNCHANGED mem
      BY <3>2, <1>2, Zenon
    <3>3. CASE mem' = [mem EXCEPT ![i].uploads = @ \cup {Target(p)}]
      <4>1. [mem[i] EXCEPT !.uploads = @ \cup {Target(p)}] \in MemRec
        BY <3>1, <1>e, <2>0, Zenon DEF MemRec
      <4>2. mem' = [mem EXCEPT ![i] = [mem[i] EXCEPT !.uploads = @ \cup {Target(p)}]]
        BY <3>3, Zenon
      <4>. QED  BY <1>1, <3>1, <4>1, <4>2, Zenon
    <3>. QED  BY <2>4, <3>2, <3>3, Zenon DEF Reserve
  <2>5. CASE (Abandon(p) \/ Take(p)) /\ live
    <3>1. Cur \in 1..Len(mem)
      BY <2>5, <1>0, EmptySeq DEF Cur, Sound, Held
    <3>2. [mem[Cur] EXCEPT !.uploads = @ \ {Target(p)}] \in MemRec
      BY <3>1, <1>e, Zenon DEF MemRec
    <3>3. mem' = [mem EXCEPT ![Cur] = [mem[Cur] EXCEPT !.uploads = @ \ {Target(p)}]]
      BY <2>5, Zenon DEF Abandon, Take
    <3>. QED  BY <1>1, <3>1, <3>2, <3>3, Zenon
  <2>6. CASE (Abandon(p) \/ Take(p)) /\ ~live
    BY <2>6, <1>2, Zenon DEF Abandon, Take
  <2>7. CASE Enqueue(p)
    <3>. DEFINE i == push[p].state
                m == Advanced(mem[i], Target(p))
    <3>1. i \in 1..Len(mem)
      BY <2>7, Zenon DEF Enqueue, Sound, Held
    <3>2. m \in MemRec
      BY <3>1, <1>e, <2>0, AdvancedType, Zenon
    <3>3. mem' = mem \/ mem' = [mem EXCEPT ![i] = m]
      BY <2>7, EnqueueCases, Zenon DEF Refuse
    <3>. QED  BY <1>1, <1>2, <3>1, <3>2, <3>3, Zenon
  <2>. QED
    BY <1>3, <2>1, <2>2, <2>3, <2>4, <2>5, <2>6, <2>7, Zenon DEF ClientStep, ThreadStep
<1>4. ASSUME Settle PROVE Kept
  <2>1. Cur \in 1..Len(mem)
    BY <1>4, <1>0, EmptySeq DEF Cur, Sound, Held, Settle
  <2>2. [mem[Cur] EXCEPT !.pending = IF @ = 0 THEN UsizeMax ELSE @ - 1] \in MemRec
    BY <2>1, <1>e, HubAssumption, SMTT(60) DEF MemRec
  <2>3. mem' = [mem EXCEPT ![Cur] = [mem[Cur] EXCEPT !.pending = IF @ = 0 THEN UsizeMax ELSE @ - 1]]
    BY <1>4, Zenon DEF Settle
  <2>. QED  BY <1>1, <2>1, <2>2, <2>3, Zenon
<1>5. ASSUME (WorkerStep /\ ~Settle) \/ IdleTimeout PROVE Kept
  BY <1>5, <1>2, Zenon DEF WorkerStep, IdleTimeout, Scan, Nudged, Exit, CommitBlob,
                    PublishHead, Unlink
<1>6. ASSUME Crash PROVE Spawn
  BY <1>6, Zenon DEF Crash
<1>7. Kept \/ (Spawn /\ (~live \/ Crash))
  BY <1>3, <1>4, <1>5, <1>6, Zenon DEF Next
<1>8. Kept /\ mem # <<>> => mem' # <<>>
  BY <1>0, EmptySeq, Zenon
<1>9. Spawn => mem' \in Seq(MemRec)
  BY SpawnType, Zenon DEF Sound
<1>. QED  BY <1>7, <1>8, <1>9, Zenon

\* What a client becomes when it retries, backs off, republishes or breaks off.
LEMMA ClientType ==
  ASSUME NEW c \in PushRec
  PROVE  /\ Alone(c) \in PushRec /\ Backoff(Alone(c)) \in PushRec
         /\ Republish(Alone(c)) \in PushRec /\ Broken(c) \in PushRec
<1>0. 0 \in Nat /\ None \in MaybeSha /\ None \in Answers \cup {None}
  BY Zenon DEF MaybeSha
<1>. DEFINE a == Alone(c)
<1>1. a \in PushRec
  BY <1>0, Zenon DEF Alone, PushRec
<1>. HIDE DEF a
<1>2. a.attempts + 1 \in Nat /\ a.tries + 1 \in Nat
  BY <1>1 DEF PushRec
<1>3. Again(a) \in PushRec
  BY <1>0, <1>1, Zenon DEF Again, PushRec, PushPcs
<1>4. Again(a).attempts + 1 \in Nat
  BY <1>3 DEF PushRec
<1>5. Backoff(a) \in PushRec
  BY <1>1, <1>3, <1>4, Zenon DEF Backoff, PushRec, PushPcs
<1>6. Republish(a) \in PushRec
  BY <1>0, <1>1, <1>3, Zenon DEF Republish, PushRec, PushPcs
<1>7. Broken(c) \in PushRec
  BY <1>1, <1>2, Zenon DEF Broken, PushRec, PushPcs, a
<1>. QED  BY <1>1, <1>5, <1>6, <1>7, Zenon DEF a

\* The names of program points and the answers, as the steps use them.
LEMMA Points ==
  /\ "query" \in PushPcs /\ "begin" \in PushPcs /\ "check" \in PushPcs
  /\ "reserve" \in PushPcs /\ "spool" \in PushPcs /\ "reply" \in PushPcs
  /\ "abandon" \in PushPcs /\ "take" \in PushPcs /\ "enqueue" \in PushPcs
  /\ "rename" \in PushPcs /\ "accepted" \in PushPcs /\ "failed" \in PushPcs
  /\ 202 \in Answers /\ 409 \in Answers /\ 429 \in Answers /\ 500 \in Answers
BY DEF PushPcs, Answers

\* Changes of single fields of a client keep its type.
LEMMA PushUpdates ==
  ASSUME push \in [Pushers -> PushRec], NEW p \in Pushers, NEW pc \in PushPcs,
         NEW n \in Nat
  PROVE  /\ [push EXCEPT ![p].offset = n, ![p].pc = pc] \in [Pushers -> PushRec]
         /\ [push EXCEPT ![p].pc = pc, ![p].state = n] \in [Pushers -> PushRec]
         /\ \A b \in BOOLEAN :
              [push EXCEPT ![p].pc = pc, ![p].reserved = b, ![p].state = n]
                \in [Pushers -> PushRec]
         /\ [push EXCEPT ![p].pc = pc, ![p].seq = n] \in [Pushers -> PushRec]
<1>1. [push EXCEPT ![p].offset = n, ![p].pc = pc] \in [Pushers -> PushRec]
  BY ZenonT(60) DEF PushRec
<1>2. [push EXCEPT ![p].pc = pc, ![p].state = n] \in [Pushers -> PushRec]
  BY ZenonT(60) DEF PushRec
<1>3. ASSUME NEW b \in BOOLEAN
      PROVE  [push EXCEPT ![p].pc = pc, ![p].reserved = b, ![p].state = n]
               \in [Pushers -> PushRec]
  BY ZenonT(60) DEF PushRec
<1>4. [push EXCEPT ![p].pc = pc, ![p].seq = n] \in [Pushers -> PushRec]
  BY ZenonT(60) DEF PushRec
<1>. QED  BY <1>1, <1>2, <1>3, <1>4, Zenon

\* The points a client is at once its request was answered or broke.
LEMMA ClientPoints ==
  ASSUME NEW c \in PushRec
  PROVE  /\ Backoff(Alone(c)).pc \in {"limited", "query"}
         /\ Republish(Alone(c)).pc \in {"conflict", "query"}
         /\ Broken(c).pc \in {"failed", "query"}
         /\ [Alone(c) EXCEPT !.pc = "failed"].pc = "failed"
<1>. DEFINE a == Alone(c)
<1>1. a \in PushRec
  BY ClientType, Zenon
<1>. HIDE DEF a
<1>2. Again(a) \in PushRec /\ Again(a).pc = "query"
  BY <1>1, Points, ZenonT(60) DEF Again, PushRec
<1>3. Backoff(a).pc \in {"limited", "query"} /\ Republish(a).pc \in {"conflict", "query"}
  BY <1>1, <1>2, Zenon DEF Backoff, Republish, PushRec
<1>4. Broken(c).pc \in {"failed", "query"} /\ [a EXCEPT !.pc = "failed"].pc = "failed"
  BY <1>1, Zenon DEF Broken, PushRec, a
<1>. QED  BY <1>3, <1>4, Zenon DEF a

\* Each step keeps the type of the clients.
LEMMA PushType ==
  ASSUME Sound, Next
  PROVE  push' \in [Pushers -> PushRec]
<1>0. push \in [Pushers -> PushRec] /\ \A p \in Pushers : push[p] \in PushRec
  BY Zenon DEF Sound, TypeOK
<1>1. ASSUME NEW p \in Pushers, NEW c \in PushRec, push' = [push EXCEPT ![p] = c]
      PROVE  push' \in [Pushers -> PushRec]
  BY <1>0, <1>1, Zenon
<1>2. ASSUME NEW p \in Pushers, NEW pc \in PushPcs, Goto(p, pc)
      PROVE  push' \in [Pushers -> PushRec]
  BY <1>0, <1>2, Zenon DEF Goto, PushRec
<1>3. ASSUME NEW p \in Pushers, NEW pc \in PushPcs, NEW status \in Answers,
             push' = [push EXCEPT ![p].pc = pc, ![p].reply = status]
      PROVE  push' \in [Pushers -> PushRec]
  BY <1>0, <1>3, ZenonT(60) DEF PushRec
<1>4. ASSUME NEW p \in Pushers, ClientStep(p) \/ ThreadStep(p) \/ Lose(p)
      PROVE  push' \in [Pushers -> PushRec]
  <2>0. Target(p) \in Shas /\ tmp[Target(p)] \in Seq(Nat)
    BY HubAssumption, Zenon DEF Target, Sound, TypeOK
  <2>1. CASE Query(p)
    <3>1. PICK offset \in Nat, pc \in PushPcs :
            push' = [push EXCEPT ![p].offset = offset, ![p].pc = pc]
      <4>1. push[p].offset \in Nat /\ Len(tmp[Target(p)]) \in Nat
        BY <1>0, <2>0 DEF PushRec
      <4>. QED  BY <2>1, <4>1, Points, ZenonT(60) DEF Query
    <3>. QED  BY <1>0, <3>1, PushUpdates, Zenon
  <2>2. CASE Receive(p)
    <3>. DEFINE c == Alone(push[p])
    <3>1. c \in PushRec /\ Backoff(c) \in PushRec /\ Republish(c) \in PushRec
      BY <1>0, ClientType, Zenon
    <3>. HIDE DEF c
    <3>2. [c EXCEPT !.offset = @ + 1, !.tries = 0,
                    !.pc = IF c.offset + 1 >= NChunks THEN "accepted" ELSE "spool"]
            \in PushRec
      <4>1. c.offset + 1 \in Nat
        BY <3>1 DEF PushRec
      <4>. QED  BY <3>1, <4>1, Points, ZenonT(60) DEF PushRec
    <3>3. [c EXCEPT !.pc = "failed"] \in PushRec
      BY <3>1, Zenon DEF PushRec, PushPcs
    <3>4. push[p].reply \in Answers
      BY <2>2, Zenon DEF Receive, Sound, Held
    <3>5. \E d \in PushRec : push' = [push EXCEPT ![p] = d]
      BY <2>2, <3>1, <3>2, <3>3, <3>4, ZenonT(60) DEF Receive, Answers, c
    <3>. QED  BY <1>1, <3>5, Zenon
  <2>3. CASE Lose(p)
    BY <2>3, <1>0, <1>1, ClientType, Zenon DEF Lose
  <2>4. CASE Begin(p)
    <3>1. Len(mem') \in Nat
      BY MemType, LenProperties, Zenon
    <3>. QED  BY <2>4, <1>0, <3>1, Points, PushUpdates, ZenonT(60) DEF Begin
  <2>5. CASE Check(p) \/ Reserve(p)
    BY <2>5, <1>2, <1>3, Points, ZenonT(60) DEF Check, Reserve, Reply
  <2>6. CASE Spool(p)
    BY <2>6, <1>2, <1>3, Points DEF Spool, Reply
  <2>7. CASE Abandon(p)
    BY <2>7, <1>2, Zenon DEF Abandon, PushPcs
  <2>8. CASE Take(p)
    <3>1. Len(mem') \in Nat /\ (live /\ Target(p) \in Uploads) \in BOOLEAN
      BY MemType, LenProperties, Zenon
    <3>. QED  BY <2>8, <1>0, <3>1, Points, PushUpdates, ZenonT(60) DEF Take
  <2>9. CASE Enqueue(p)
    <3>1. push[p].state \in 1..Len(mem)
      BY <2>9, Zenon DEF Enqueue, Sound, Held
    <3>2. mem[push[p].state] \in MemRec
      BY <3>1, ElementOfSeq, Zenon DEF Sound, TypeOK
    <3>3. mem[push[p].state].nextSeq \in Nat
      BY <3>2, Zenon DEF MemRec
    <3>4. CASE Refuse(p, 409) \/ Refuse(p, 429)
      <4>1. CASE Refuse(p, 409)
        BY <4>1, <1>3, Points, ZenonT(60) DEF Refuse
      <4>2. CASE Refuse(p, 429)
        BY <4>2, <1>3, Points, ZenonT(60) DEF Refuse
      <4>. QED  BY <3>4, <4>1, <4>2, Zenon
    <3>5. CASE push' = [push EXCEPT ![p].pc = "rename",
                                    ![p].seq = mem[push[p].state].nextSeq]
      BY <1>0, <3>3, <3>5, Points, PushUpdates, ZenonT(60)
    <3>. QED  BY <2>9, <3>4, <3>5, EnqueueCases, Zenon
  <2>10. CASE Rename(p)
    BY <2>10, <1>3, Points DEF Rename, Reply
  <2>. QED
    BY <1>4, <2>1, <2>2, <2>3, <2>4, <2>5, <2>6, <2>7, <2>8, <2>9, <2>10, Zenon
       DEF ClientStep, ThreadStep
<1>5. ASSUME WorkerStep \/ IdleTimeout PROVE UNCHANGED push
  BY <1>5, Zenon DEF WorkerStep, IdleTimeout, Scan, Nudged, Exit, CommitBlob,
              PublishHead, Unlink, Settle
<1>6. CASE Crash
  BY <1>6, <1>0, ClientType, Zenon DEF Crash
<1>. QED  BY <1>0, <1>4, <1>5, <1>6, Zenon DEF Next

Elements(bs) == {bs[i] : i \in 1..Len(bs)}

\* Writing a blob replaces the one of its commit and keeps all others.
LEMMA WithoutKeeps ==
  ASSUME NEW bs \in Seq(BlobRec), NEW s
  PROVE  /\ Without(bs, s) \in Seq(BlobRec)
         /\ Elements(Without(bs, s)) \subseteq Elements(bs)
         /\ \A b \in Elements(bs) : b.sha # s => b \in Elements(Without(bs, s))
<1>1. CASE ~\E i \in 1..Len(bs) : bs[i].sha = s
  BY <1>1, Zenon DEF Without
<1>2. CASE \E i \in 1..Len(bs) : bs[i].sha = s
  <2>. DEFINE i == CHOOSE k \in 1..Len(bs) : bs[k].sha = s
              lo == SubSeq(bs, 1, i - 1)
              hi == SubSeq(bs, i + 1, Len(bs))
  <2>1. i \in 1..Len(bs) /\ bs[i].sha = s
    BY <1>2, Zenon
  <2>2. Without(bs, s) = lo \o hi
    BY <1>2, Zenon DEF Without
  <2>. HIDE DEF i
  <2>3. Len(bs) \in Nat /\ i \in Nat /\ \A k \in 1..Len(bs) : bs[k] \in BlobRec
    BY <2>1, ElementOfSeq, LenProperties
  <2>4. /\ lo \in Seq(BlobRec) /\ Len(lo) = i - 1
        /\ \A k \in 1..i - 1 : lo[k] = bs[k]
    <3>1. \A k \in 1..i - 1 : bs[k] \in BlobRec
      BY <2>1, <2>3
    <3>. QED  BY <2>1, <2>3, <3>1, SubSeqProperties
  <2>5. /\ hi \in Seq(BlobRec) /\ Len(hi) = Len(bs) - i
        /\ \A k \in 1..Len(bs) - i : hi[k] = bs[i + k]
    <3>1. \A k \in i + 1..Len(bs) : bs[k] \in BlobRec
      BY <2>1, <2>3
    <3>2. i + 1 \in Int /\ Len(bs) \in Int
      BY <2>3
    <3>3. /\ hi \in Seq(BlobRec)
          /\ Len(hi) = IF i + 1 <= Len(bs) THEN Len(bs) - (i + 1) + 1 ELSE 0
          /\ \A k \in 1..Len(bs) - (i + 1) + 1 : hi[k] = bs[i + 1 + k - 1]
      BY <3>1, <3>2, SubSeqProperties
    <3>4. Len(hi) = Len(bs) - i
      BY <2>1, <2>3, <3>3
    <3>5. ASSUME NEW k \in 1..Len(bs) - i PROVE hi[k] = bs[i + k]
      <4>1. k \in 1..Len(bs) - (i + 1) + 1 /\ i + 1 + k - 1 = i + k
        BY <2>3
      <4>. QED  BY <3>3, <4>1, Zenon
    <3>. QED  BY <3>3, <3>4, <3>5, Zenon
  <2>. DEFINE w == lo \o hi
  <2>. HIDE DEF lo, hi
  <2>6. /\ w \in Seq(BlobRec) /\ Len(w) = Len(bs) - 1
        /\ \A k \in 1..Len(bs) - 1 : w[k] = IF k <= i - 1 THEN bs[k] ELSE bs[k + 1]
    <3>1. /\ w \in Seq(BlobRec) /\ Len(w) = Len(lo) + Len(hi)
          /\ \A k \in 1..Len(lo) + Len(hi) :
               w[k] = IF k <= Len(lo) THEN lo[k] ELSE hi[k - Len(lo)]
      BY <2>4, <2>5, ConcatProperties, Zenon
    <3>2. Len(lo) + Len(hi) = Len(bs) - 1
      BY <2>3, <2>4, <2>5
    <3>3. ASSUME NEW k \in 1..Len(bs) - 1
          PROVE  w[k] = IF k <= i - 1 THEN bs[k] ELSE bs[k + 1]
      <4>1. w[k] = IF k <= i - 1 THEN lo[k] ELSE hi[k - (i - 1)]
        BY <3>1, <3>2, <2>4, Zenon
      <4>2. CASE k <= i - 1
        BY <4>1, <4>2, <2>3, <2>4
      <4>3. CASE ~(k <= i - 1)
        <5>1. k - (i - 1) \in 1..Len(bs) - i /\ i + (k - (i - 1)) = k + 1
          BY <4>3, <2>3
        <5>2. hi[k - (i - 1)] = bs[k + 1]
          BY <5>1, <2>5, Zenon
        <5>. QED  BY <4>1, <4>3, <5>2, Zenon
      <4>. QED  BY <4>2, <4>3, Zenon
    <3>. QED  BY <3>1, <3>2, <3>3, Zenon
  <2>. HIDE DEF w
  <2>7. Elements(w) \subseteq Elements(bs)
    BY <2>1, <2>3, <2>6 DEF Elements
  <2>8. ASSUME NEW k \in 1..Len(bs), bs[k].sha # s PROVE bs[k] \in Elements(w)
    <3>1. CASE k < i
      <4>1. k \in 1..Len(bs) - 1 /\ k <= i - 1
        BY <2>1, <2>3, <3>1
      <4>. QED  BY <4>1, <2>6, Zenon DEF Elements
    <3>2. CASE k > i
      <4>1. k - 1 \in 1..Len(bs) - 1 /\ ~(k - 1 <= i - 1) /\ (k - 1) + 1 = k
        BY <2>1, <2>3, <3>2
      <4>. QED  BY <4>1, <2>6, Zenon DEF Elements
    <3>. QED  BY <2>1, <2>3, <2>8, <3>1, <3>2
  <2>9. \A b \in Elements(bs) : b.sha # s => b \in Elements(w)
    BY <2>8, Zenon DEF Elements
  <2>. QED  BY <2>2, <2>6, <2>7, <2>9, Zenon DEF w
<1>. QED  BY <1>1, <1>2, Zenon

\* Pruning keeps blobs, and the newest one unless none is to be kept.
LEMMA PruneKeeps ==
  ASSUME NEW bs \in Seq(BlobRec)
  PROVE  /\ PruneRetention(bs) \in Seq(BlobRec)
         /\ Elements(PruneRetention(bs)) \subseteq Elements(bs)
         /\ Retention # 0 /\ Len(bs) # 0 => bs[Len(bs)] \in Elements(PruneRetention(bs))
<1>0. Len(bs) \in Nat /\ Retention \in Nat /\ \A k \in 1..Len(bs) : bs[k] \in BlobRec
  BY HubAssumption, ElementOfSeq, LenProperties, Zenon
<1>1. CASE ~(Len(bs) > Retention)
  BY <1>0, <1>1 DEF PruneRetention, Elements
<1>2. CASE Len(bs) > Retention
  <2>. DEFINE from == Len(bs) - Retention + 1
              w == SubSeq(bs, from, Len(bs))
  <2>1. from \in Int /\ Len(bs) \in Int /\ \A k \in from..Len(bs) : bs[k] \in BlobRec
    BY <1>0, <1>2
  <2>2. /\ w \in Seq(BlobRec)
        /\ Len(w) = IF from <= Len(bs) THEN Len(bs) - from + 1 ELSE 0
        /\ \A k \in 1..Len(bs) - from + 1 : w[k] = bs[from + k - 1]
    BY <2>1, SubSeqProperties
  <2>. HIDE DEF w
  <2>3. Len(w) = Retention
    BY <1>0, <1>2, <2>2
  <2>4. ASSUME NEW k \in 1..Retention PROVE w[k] = bs[from + k - 1] /\ from + k - 1 \in 1..Len(bs)
    <3>1. k \in 1..Len(bs) - from + 1
      BY <1>0
    <3>2. w[k] = bs[from + k - 1]
      BY <2>2, <3>1, Zenon
    <3>3. from + k - 1 \in 1..Len(bs)
      BY <1>0, <1>2
    <3>. QED  BY <3>2, <3>3, Zenon
  <2>5. Elements(w) \subseteq Elements(bs)
    BY <2>3, <2>4 DEF Elements
  <2>6. ASSUME Retention # 0 PROVE bs[Len(bs)] \in Elements(w)
    <3>1. Retention \in 1..Retention /\ from + Retention - 1 = Len(bs)
      BY <1>0, <2>6
    <3>2. w[Retention] = bs[Len(bs)]
      BY <2>4, <3>1, Zenon
    <3>. QED  BY <2>3, <3>1, <3>2, Zenon DEF Elements
  <2>7. PruneRetention(bs) = w
    BY <1>2, Zenon DEF PruneRetention, w
  <2>. QED  BY <2>2, <2>5, <2>6, <2>7, Zenon
<1>. QED  BY <1>1, <1>2, Zenon

\* The job at hand and its file.
LEMMA CurrentJobType ==
  ASSUME Sound, worker.pc \in {"commit", "publish", "unlink", "settle"}
  PROVE  /\ Current \in worker.todo /\ Current[1] \in Nat /\ Current[2] \in Shas
         /\ worker.pc # "settle" =>
              CurrentJob \in jobs /\ <<CurrentJob.seq, CurrentJob.sha>> = Current
<1>1. worker.todo \in SUBSET (Nat \X Shas) /\ worker.todo # {}
  BY Zenon DEF Sound, TypeOK, ScanHolds
<1>2. Current \in worker.todo
  BY <1>1, CurrentIsDue, Zenon
<1>3. Current[1] \in Nat /\ Current[2] \in Shas
  BY <1>1, <1>2, Zenon
<1>4. ASSUME worker.pc # "settle"
      PROVE  CurrentJob \in jobs /\ <<CurrentJob.seq, CurrentJob.sha>> = Current
  <2>1. Current \in Keys
    BY <1>2, <1>4, Zenon DEF Sound, ScanHolds
  <2>2. \E j \in jobs : <<j.seq, j.sha>> = Current
    BY <2>1, Zenon DEF Keys
  <2>. QED  BY <2>2, Zenon DEF CurrentJob
<1>. QED  BY <1>2, <1>3, <1>4, Zenon

\* Of the worker.
LEMMA WorkerType ==
  ASSUME Sound, Next
  PROVE  /\ live' \in BOOLEAN /\ wake' \in BOOLEAN
         /\ worker' \in [pc : WorkerPcs, todo : SUBSET (Nat \X Shas)]
<1>. DEFINE Ok == /\ live' \in BOOLEAN /\ wake' \in BOOLEAN
                  /\ worker' \in [pc : WorkerPcs, todo : SUBSET (Nat \X Shas)]
<1>0. /\ live \in BOOLEAN /\ wake \in BOOLEAN
      /\ worker \in [pc : WorkerPcs, todo : SUBSET (Nat \X Shas)]
  BY Zenon DEF Sound, TypeOK
<1>1. Spawn => Ok
  BY SpawnType, Zenon DEF Sound
<1>2. ASSUME NEW p \in Pushers, ClientStep(p) \/ ThreadStep(p) \/ Lose(p) PROVE Ok
  <2>1. UNCHANGED <<live, wake, worker>> \/ Spawn \/ Rename(p)
    BY <1>2, Zenon DEF ClientStep, ThreadStep, Query, Receive, Lose, Begin, RepoState,
       Check, Reserve, Spool, Abandon, Take, Enqueue, memory
  <2>2. CASE Rename(p)
    BY <2>2, <1>0, Zenon DEF Rename
  <2>. QED  BY <1>0, <1>1, <2>1, <2>2, Zenon
<1>3. ASSUME WorkerStep \/ IdleTimeout PROVE Ok
  <2>1. CASE Scan
    <3>1. {<<j.seq, j.sha>> : j \in jobs} \in SUBSET (Nat \X Shas)
      BY DEF Sound, TypeOK, JobRec
    <3>. QED  BY <2>1, <3>1, <1>0, Zenon DEF Scan, WorkerPcs
  <2>2. CASE Nudged \/ IdleTimeout \/ CommitBlob \/ PublishHead \/ Unlink
    BY <2>2, <1>0, Zenon DEF Nudged, IdleTimeout, CommitBlob, PublishHead, Unlink, WorkerPcs
  <2>3. CASE Exit
    BY <2>3, Zenon DEF Exit, WorkerPcs
  <2>4. CASE Settle
    BY <2>4, <1>0, Zenon DEF Settle, WorkerPcs
  <2>. QED  BY <1>3, <2>1, <2>2, <2>3, <2>4, Zenon DEF WorkerStep
<1>4. ASSUME Crash PROVE Ok
  BY <1>1, <1>4, Zenon DEF Crash
<1>. QED  BY <1>2, <1>3, <1>4, Zenon DEF Next

\* And of the files.
LEMMA DiskType ==
  ASSUME Sound, Next
  PROVE  /\ tmp' \in [Shas -> Seq(Nat)]
         /\ jobs' \in SUBSET JobRec /\ IsFiniteSet(jobs')
         /\ blobs' \in Seq(BlobRec) /\ HEAD' \in MaybeSha
         /\ accepted' \in Seq([sha : Shas, base : MaybeSha])
<1>. DEFINE Ok == /\ tmp' \in [Shas -> Seq(Nat)]
                  /\ jobs' \in SUBSET JobRec /\ IsFiniteSet(jobs')
                  /\ blobs' \in Seq(BlobRec) /\ HEAD' \in MaybeSha
                  /\ accepted' \in Seq([sha : Shas, base : MaybeSha])
<1>0. /\ tmp \in [Shas -> Seq(Nat)]
      /\ jobs \in SUBSET JobRec /\ IsFiniteSet(jobs)
      /\ blobs \in Seq(BlobRec) /\ HEAD \in MaybeSha
      /\ accepted \in Seq([sha : Shas, base : MaybeSha])
  BY Zenon DEF Sound, TypeOK
<1>e. <<>> \in Seq(Nat)
  OBVIOUS
<1>1. ASSUME NEW p \in Pushers, ClientStep(p) \/ ThreadStep(p) \/ Lose(p) PROVE Ok
  <2>0. Target(p) \in Shas /\ push[p] \in PushRec
    BY HubAssumption, Zenon DEF Target, Sound, TypeOK
  <2>1. CASE Query(p) \/ Receive(p) \/ Lose(p) \/ Begin(p) \/ Reserve(p) \/ Take(p)
    BY <2>1, <1>0, Zenon DEF Query, Receive, Lose, Begin, Reserve, Take, disk, history
  <2>2. CASE Check(p)
    BY <2>2, <1>0, <1>e, Zenon DEF Check, history
  <2>3. CASE Spool(p)
    <3>1. tmp' \in [Shas -> Seq(Nat)]
      <4>1. push[p].offset + 1 \in Nat
        BY <2>0 DEF PushRec
      <4>2. Append(IF push[p].offset = 0 THEN <<>> ELSE tmp[Target(p)],
                   push[p].offset + 1) \in Seq(Nat)
        BY <1>0, <1>e, <2>0, <4>1
      <4>. QED  BY <2>3, <1>0, <4>2, Zenon DEF Spool
    <3>. QED  BY <2>3, <1>0, <3>1, Zenon DEF Spool, history
  <2>4. CASE Abandon(p)
    BY <2>4, <1>0, <1>e, <2>0, Zenon DEF Abandon, history
  <2>5. CASE Enqueue(p)
    <3>1. [sha |-> Target(p), base |-> push[p].base] \in [sha : Shas, base : MaybeSha]
      BY <2>0, Zenon DEF PushRec
    <3>2. accepted' = accepted \/ accepted' = Append(accepted, [sha |-> Target(p), base |-> push[p].base])
      BY <2>5, EnqueueCases, Zenon DEF Refuse
    <3>3. accepted' \in Seq([sha : Shas, base : MaybeSha])
      <4>. DEFINE S == [sha : Shas, base : MaybeSha]
                  e == [sha |-> Target(p), base |-> push[p].base]
      <4>1. accepted \in Seq(S) /\ e \in S /\ accepted' \in {accepted, Append(accepted, e)}
        BY <1>0, <3>1, <3>2, Zenon
      <4>. HIDE DEF S, e
      <4>2. accepted' \in Seq(S)
        BY <4>1
      <4>. QED  BY <4>2, Zenon DEF S
    <3>. QED  BY <2>5, <1>0, <3>3, Zenon DEF Enqueue, disk
  <2>6. CASE Rename(p)
    <3>1. CASE tmp[Target(p)] = <<>>
      BY <2>6, <3>1, <1>0, Zenon DEF Rename
    <3>2. CASE tmp[Target(p)] # <<>>
      <4>. DEFINE kept == {j \in jobs : <<j.seq, j.sha>> # <<push[p].seq, Target(p)>>}
                  new == [seq |-> push[p].seq, sha |-> Target(p), chunks |-> tmp[Target(p)]]
      <4>1. jobs' = kept \cup {new} /\ tmp' = [tmp EXCEPT ![Target(p)] = <<>>]
        BY <2>6, <3>2, Zenon DEF Rename
      <4>2. new \in JobRec
        BY <1>0, <2>0, Zenon DEF JobRec, PushRec
      <4>3. kept \subseteq jobs
        BY Zenon
      <4>. HIDE DEF new, kept
      <4>4. IsFiniteSet(kept \cup {new})
        BY <4>3, <1>0, FS_Subset, FS_AddElement, Zenon
      <4>5. tmp' \in [Shas -> Seq(Nat)]
        BY <4>1, <1>0, <1>e, Zenon
      <4>. QED  BY <2>6, <1>0, <4>1, <4>2, <4>3, <4>4, <4>5, Zenon DEF Rename
    <3>. QED  BY <3>1, <3>2, Zenon
  <2>. QED
    BY <1>1, <2>1, <2>2, <2>3, <2>4, <2>5, <2>6, Zenon DEF ClientStep, ThreadStep
<1>2. ASSUME WorkerStep \/ IdleTimeout PROVE Ok
  <2>1. CASE Scan \/ Nudged \/ IdleTimeout \/ Exit \/ Settle
    BY <2>1, <1>0, Zenon DEF Scan, Nudged, IdleTimeout, Exit, Settle, disk, history
  <2>2. CASE CommitBlob
    <3>1. Current[2] \in Shas /\ CurrentJob \in jobs
      BY <2>2, CurrentJobType, Zenon DEF CommitBlob
    <3>2. [sha |-> Current[2], chunks |-> CurrentJob.chunks] \in BlobRec
      BY <1>0, <3>1, Zenon DEF BlobRec, JobRec
    <3>3. Without(blobs, Current[2]) \in Seq(BlobRec)
      BY <1>0, WithoutKeeps, Zenon
    <3>4. blobs' = Append(Without(blobs, Current[2]), [sha |-> Current[2], chunks |-> CurrentJob.chunks])
      BY <2>2, Zenon DEF CommitBlob
    <3>5. blobs' \in Seq(BlobRec)
      BY <3>2, <3>3, <3>4
    <3>. QED  BY <2>2, <1>0, <3>5, Zenon DEF CommitBlob, history
  <2>3. CASE PublishHead
    <3>1. Current[2] \in Shas
      BY <2>3, CurrentJobType, Zenon DEF PublishHead
    <3>2. PruneRetention(blobs) \in Seq(BlobRec)
      BY <1>0, PruneKeeps, Zenon
    <3>. QED  BY <2>3, <1>0, <3>1, <3>2, Zenon DEF PublishHead, MaybeSha
  <2>4. CASE Unlink
    <3>1. jobs' \subseteq jobs
      BY <2>4, Zenon DEF Unlink
    <3>2. IsFiniteSet(jobs')
      BY <1>0, <3>1, FS_Subset, Zenon
    <3>. QED  BY <2>4, <1>0, <3>1, <3>2, Zenon DEF Unlink, history
  <2>. QED  BY <1>2, <2>1, <2>2, <2>3, <2>4, Zenon DEF WorkerStep
<1>3. ASSUME Crash PROVE Ok
  BY <1>0, <1>3, Zenon DEF Crash, disk, history
<1>. QED  BY <1>1, <1>2, <1>3, Zenon DEF Next

\* The first and the second look at the head.
LEMMA CheckMoves ==
  ASSUME NEW p \in Pushers, Check(p) \/ Reserve(p)
  PROVE  \/ Goto(p, "spool") \/ Reply(p, 429) \/ Reply(p, 409)
         \/ push[p].pc = "check" /\ Goto(p, "reserve")
BY Zenon DEF Check, Reserve

\* What a request leaves alone.
LEMMA RequestFrame ==
  ASSUME NEW p \in Pushers, ClientStep(p) \/ ThreadStep(p) \/ Lose(p)
  PROVE  /\ UNCHANGED <<blobs, HEAD, committed>>
         /\ Rename(p) \/ UNCHANGED <<jobs, acked>>
         /\ Enqueue(p) \/ UNCHANGED accepted
         /\ UNCHANGED <<live, worker>> \/ (Spawn /\ ~live)
<1>1. CASE Query(p) \/ Receive(p) \/ Lose(p)
  BY <1>1, Zenon DEF Query, Receive, Lose, memory, disk, history
<1>2. CASE Begin(p) \/ Take(p)
  BY <1>2, Zenon DEF Begin, RepoState, Take, memory, disk, history
<1>3. CASE Check(p) \/ Abandon(p) \/ Spool(p)
  <2>1. UNCHANGED <<live, worker, jobs, blobs, HEAD, history>>
    BY <1>3, Zenon DEF Check, Abandon, Spool, memory
  <2>. QED  BY <2>1, Zenon DEF history
<1>4. CASE Reserve(p)
  <2>1. UNCHANGED <<live, worker, disk, history>>
    BY <1>4, Zenon DEF Reserve
  <2>. QED  BY <2>1, Zenon DEF disk, history
<1>5. CASE Enqueue(p)
  <2>1. UNCHANGED <<live, worker, disk, acked, committed>>
    BY <1>5, Zenon DEF Enqueue
  <2>. QED  BY <1>5, <2>1, Zenon DEF disk
<1>6. CASE Rename(p)
  BY <1>6, Zenon DEF Rename
<1>. QED  BY <1>1, <1>2, <1>3, <1>4, <1>5, <1>6, Zenon DEF ClientStep, ThreadStep

\* A request moves its own client only; the worker moves none.
LEMMA OthersKeep ==
  ASSUME Sound, NEW p \in Pushers, ClientStep(p) \/ ThreadStep(p) \/ Lose(p),
         NEW q \in Pushers, q # p
  PROVE  push'[q] = push[q]
<1>0. push \in [Pushers -> PushRec]
  BY Zenon DEF Sound, TypeOK
<1>1. CASE Query(p) \/ Receive(p) \/ Lose(p) \/ Begin(p) \/ Take(p) \/ Abandon(p)
  BY <1>0, <1>1 DEF Query, Receive, Lose, Begin, Take, Abandon, Goto
<1>2. CASE Check(p) \/ Reserve(p)
  BY <1>0, <1>2, CheckMoves, ZenonT(60) DEF Goto, Reply
<1>4. CASE Spool(p) \/ Rename(p)
  BY <1>0, <1>4 DEF Spool, Rename, Goto, Reply
<1>3. CASE Enqueue(p)
  <2>1. CASE Refuse(p, 409) \/ Refuse(p, 429)
    BY <1>0, <2>1 DEF Refuse
  <2>2. CASE push' = [push EXCEPT ![p].pc = "rename",
                                  ![p].seq = mem[push[p].state].nextSeq]
    BY <1>0, <2>2, Zenon
  <2>. QED  BY <1>3, <2>1, <2>2, EnqueueCases, Zenon
<1>. QED  BY <1>1, <1>2, <1>3, <1>4, Zenon DEF ClientStep, ThreadStep

\* Where a request leaves its client.
LeftAt(p) ==
  /\ push'[p].pc \in {"reply", "abandon"} => push'[p].reply \in Answers
  /\ push'[p].pc = "check" => push'[p].state = Len(mem') /\ Begin(p)
  /\ push'[p].pc = "enqueue" => push'[p].state = Len(mem') /\ Take(p)
  /\ push'[p].pc = "take" => Spool(p)
  /\ push'[p].pc = "reserve" => push'[p].state = push[p].state /\ push[p].pc = "check"
  /\ push'[p].pc = "rename" =>
       push'[p].state = push[p].state /\ push[p].pc = "enqueue" /\ Enqueue(p)

\* A client and its thread move nobody else.
LEMMA OwnMove ==
  ASSUME Sound, NEW p \in Pushers, ClientStep(p) \/ ThreadStep(p) \/ Lose(p)
  PROVE  LeftAt(p)
<1>0. push \in [Pushers -> PushRec] /\ push[p] \in PushRec
  BY Zenon DEF Sound, TypeOK
<1>1. CASE Query(p)
  BY <1>0, <1>1, Zenon DEF Query, PushRec, LeftAt
<1>2. CASE Receive(p)
  <2>. DEFINE c == Alone(push[p])
  <2>1. c \in PushRec
    BY <1>0, ClientType, Zenon
  <2>2. push[p].reply \in Answers
    BY <1>2, Zenon DEF Receive, Sound, Held
  <2>4. /\ Backoff(c).pc \in {"limited", "query"} /\ Republish(c).pc \in {"conflict", "query"}
        /\ [c EXCEPT !.pc = "failed"].pc = "failed"
    BY <1>0, ClientPoints, Zenon
  <2>. HIDE DEF c
  <2>5. [c EXCEPT !.offset = @ + 1, !.tries = 0,
                  !.pc = IF c.offset + 1 >= NChunks THEN "accepted" ELSE "spool"].pc
          \in {"accepted", "spool"}
    BY <2>1, Zenon DEF PushRec
  <2>7. push'[p].pc \in {"limited", "query", "conflict", "accepted", "spool", "failed"}
    BY <1>0, <1>2, <2>2, <2>4, <2>5 DEF Receive, Answers, c
  <2>. QED  BY <2>7, Zenon DEF LeftAt
<1>3. CASE Lose(p)
  <2>2. Broken(push[p]).pc \in {"failed", "query"}
    BY <1>0, ClientPoints, Zenon
  <2>. QED  BY <1>0, <1>3, <2>2, Zenon DEF Lose, LeftAt
<1>4. CASE Begin(p) \/ Take(p)
  BY <1>0, <1>4 DEF Begin, Take, PushRec, LeftAt
<1>5. CASE Check(p) \/ Reserve(p)
  <2>1. ASSUME Goto(p, "spool") PROVE LeftAt(p)
    BY <1>0, <2>1, Zenon DEF Goto, PushRec, LeftAt
  <2>2. ASSUME push[p].pc = "check", Goto(p, "reserve") PROVE LeftAt(p)
    BY <1>0, <2>2, Zenon DEF Goto, PushRec, LeftAt
  <2>4. ASSUME Reply(p, 429) PROVE LeftAt(p)
    BY <1>0, <2>4, Points DEF Reply, PushRec, LeftAt
  <2>5. ASSUME Reply(p, 409) PROVE LeftAt(p)
    BY <1>0, <2>5, Points DEF Reply, PushRec, LeftAt
  <2>3. \/ Goto(p, "spool") \/ Reply(p, 429) \/ Reply(p, 409)
        \/ push[p].pc = "check" /\ Goto(p, "reserve")
    BY <1>5, CheckMoves, Zenon
  <2>. QED  BY <2>1, <2>2, <2>3, <2>4, <2>5, Zenon
<1>6. CASE Spool(p)
  BY <1>0, <1>6, Points DEF Spool, Goto, Reply, PushRec, LeftAt
<1>7. CASE Abandon(p)
  BY <1>0, <1>7, Zenon DEF Abandon, Goto, PushRec, Sound, Held, LeftAt
<1>8. CASE Enqueue(p)
  <2>1. CASE Refuse(p, 409) \/ Refuse(p, 429)
    BY <1>0, <2>1, Points DEF Refuse, PushRec, LeftAt
  <2>2. CASE push' = [push EXCEPT ![p].pc = "rename",
                                  ![p].seq = mem[push[p].state].nextSeq]
    BY <1>0, <1>8, <2>2, Zenon DEF PushRec, Enqueue, LeftAt
  <2>. QED  BY <1>8, <2>1, <2>2, EnqueueCases, Zenon
<1>9. CASE Rename(p)
  BY <1>0, <1>9, Points DEF Rename, Reply, PushRec, LeftAt
<1>. QED
  BY <1>1, <1>2, <1>3, <1>4, <1>5, <1>6, <1>7, <1>8, <1>9, Zenon DEF ClientStep, ThreadStep

\* A thread works on a state that exists.
LEMMA NextHeld == ASSUME Sound, Next PROVE Held'
<1>0. /\ mem' \in Seq(MemRec) /\ Len(mem) \in Nat /\ Len(mem') \in Nat
      /\ Len(mem) <= Len(mem') /\ (mem # <<>> => mem' # <<>>)
      /\ (Spawn => mem' # <<>>)
  BY MemType, SpawnType, LenProperties DEF Sound, TypeOK
<1>1. ASSUME NEW q \in Pushers
      PROVE  /\ push'[q].pc \in {"reply", "abandon"} => push'[q].reply \in Answers
             /\ push'[q].pc \in {"check", "reserve", "enqueue", "rename"} =>
                  push'[q].state \in 1..Len(mem')
  <2>0. /\ push[q].pc \in {"reply", "abandon"} => push[q].reply \in Answers
        /\ push[q].pc \in {"check", "reserve", "enqueue", "rename"} =>
             push[q].state \in 1..Len(mem)
    BY Zenon DEF Sound, Held
  <2>1. CASE push'[q] = push[q]
    BY <1>0, <2>0, <2>1
  <2>2. CASE ClientStep(q) \/ ThreadStep(q) \/ Lose(q)
    <3>1. push'[q].pc \in {"check", "enqueue"} => Len(mem') # 0
      <4>1. ASSUME Begin(q) \/ Take(q) PROVE Len(mem') # 0
        <5>1. live \/ Spawn
          BY <4>1, Zenon DEF Begin, RepoState, Take
        <5>2. mem' # <<>>
          BY <1>0, <5>1, Zenon DEF Sound, Held
        <5>. QED  BY <1>0, <5>2, EmptySeq, Zenon
      <4>2. push'[q].pc \in {"check", "enqueue"} => Begin(q) \/ Take(q)
        BY <2>2, OwnMove, Zenon DEF LeftAt
      <4>. QED  BY <4>1, <4>2, Zenon
    <3>. QED  BY <1>0, <2>0, <2>2, <3>1, OwnMove DEF LeftAt
  <2>3. CASE Crash
    <3>2. Broken(push[q]).pc \in {"failed", "query"}
      BY ClientPoints, Zenon DEF Sound, TypeOK
    <3>3. push'[q].pc \in {"query", "accepted", "limited", "conflict", "failed"}
      BY <2>3, <3>2, Zenon DEF Crash
    <3>. QED  BY <3>3, Zenon
  <2>4. ASSUME WorkerStep \/ IdleTimeout PROVE UNCHANGED push
    BY <2>4, Zenon DEF WorkerStep, IdleTimeout, Scan, Nudged, Exit, CommitBlob,
                PublishHead, Unlink, Settle
  <2>. QED  BY <2>1, <2>2, <2>3, <2>4, OthersKeep, Zenon DEF Next
<1>2. /\ live' => mem' # <<>>
      /\ live' <=> worker'.pc # "none"
  <2>0. /\ live => mem # <<>>
        /\ live <=> worker.pc # "none"
        /\ worker \in [pc : WorkerPcs, todo : SUBSET (Nat \X Shas)]
    BY Zenon DEF Sound, TypeOK, Held
  <2>1. CASE Spawn
    BY <1>0, <2>1, Zenon DEF Spawn
  <2>2. CASE UNCHANGED <<live, worker>>
    BY <1>0, <2>0, <2>2, Zenon
  <2>3. CASE WorkerStep \/ IdleTimeout
    BY <1>0, <2>0, <2>3
       DEF WorkerStep, IdleTimeout, Scan, Nudged, Exit, CommitBlob, PublishHead,
           Unlink, Settle
  <2>4. ASSUME NEW p \in Pushers, ClientStep(p) \/ ThreadStep(p) \/ Lose(p)
        PROVE  UNCHANGED <<live, worker>> \/ Spawn
    BY <2>4, Zenon DEF ClientStep, ThreadStep, Query, Receive, Lose, Begin, RepoState,
       Check, Reserve, Spool, Abandon, Take, Enqueue, Rename, memory
  <2>. QED  BY <2>1, <2>2, <2>3, <2>4, Zenon DEF Next, Crash
<1>. QED  BY <1>1, <1>2, Zenon DEF Held

\* The jobs the worker has listed are in the spool.
LEMMA NextScanHolds == ASSUME Sound, Next PROVE ScanHolds'
<1>0. /\ worker \in [pc : WorkerPcs, todo : SUBSET (Nat \X Shas)] /\ ScanHolds
      /\ jobs \in SUBSET JobRec
  BY Zenon DEF Sound, TypeOK
<1>1. ASSUME UNCHANGED worker, Keys \subseteq Keys' PROVE ScanHolds'
  BY <1>0, <1>1, SameTodoSameJob, Zenon DEF ScanHolds
<1>2. ASSUME worker'.pc \notin {"commit", "publish", "unlink", "settle"} PROVE ScanHolds'
  BY <1>2, Zenon DEF ScanHolds
<1>3. ASSUME NEW p \in Pushers, ClientStep(p) \/ ThreadStep(p) \/ Lose(p) PROVE ScanHolds'
  <2>1. CASE Rename(p)
    <3>1. Keys \subseteq Keys'
      <4>. DEFINE key == <<push[p].seq, Target(p)>>
      <4>1. \/ jobs' = jobs
            \/ jobs' = {j \in jobs : <<j.seq, j.sha>> # key}
                 \cup {[seq |-> push[p].seq, sha |-> Target(p), chunks |-> tmp[Target(p)]]}
        BY <2>1, Zenon DEF Rename
      <4>2. ASSUME NEW j \in jobs PROVE <<j.seq, j.sha>> \in Keys'
        <5>1. CASE j \in jobs'
          BY <5>1, Zenon DEF Keys
        <5>2. CASE j \notin jobs'
          <6>. DEFINE new == [seq |-> push[p].seq, sha |-> Target(p),
                              chunks |-> tmp[Target(p)]]
          <6>1. new \in jobs' /\ <<j.seq, j.sha>> = key
            BY <4>1, <5>2, Zenon
          <6>2. <<new.seq, new.sha>> = key
            BY Zenon
          <6>. HIDE DEF new, key
          <6>. QED  BY <6>1, <6>2, Zenon DEF Keys
        <5>. QED  BY <5>1, <5>2, Zenon
      <4>. QED  BY <4>2, Zenon DEF Keys
    <3>. QED  BY <2>1, <3>1, <1>1, Zenon DEF Rename
  <2>2. UNCHANGED <<worker, jobs>> \/ Spawn \/ Rename(p)
    BY <1>3, Zenon DEF ClientStep, ThreadStep, Query, Receive, Lose, Begin, RepoState,
       Check, Reserve, Spool, Abandon, Take, Enqueue, memory, disk
  <2>3. CASE UNCHANGED <<worker, jobs>>
    BY <2>3, <1>1, Zenon DEF Keys
  <2>4. CASE Spawn
    BY <2>4, <1>2, Zenon DEF Spawn
  <2>. QED  BY <2>1, <2>2, <2>3, <2>4, Zenon
<1>4. ASSUME WorkerStep \/ IdleTimeout PROVE ScanHolds'
  <2>1. CASE Scan
    <3>1. CASE jobs = {}
      BY <2>1, <3>1, <1>0, <1>2, Zenon DEF Scan
    <3>2. CASE jobs # {}
      <4>1. worker' = [pc |-> "commit", todo |-> Keys] /\ jobs' = jobs
        BY <2>1, <3>2, Zenon DEF Scan, Keys, disk
      <4>2. Keys # {} /\ Keys' = Keys
        BY <3>2, <4>1, Zenon DEF Keys
      <4>. QED  BY <4>1, <4>2, Zenon DEF ScanHolds
    <3>. QED  BY <3>1, <3>2, Zenon
  <2>2. CASE Nudged \/ IdleTimeout \/ Exit
    BY <2>2, <1>0, <1>2 DEF Nudged, IdleTimeout, Exit
  <2>3. CASE CommitBlob \/ PublishHead
    BY <2>3, <1>0, Zenon DEF CommitBlob, PublishHead, ScanHolds, Keys
  <2>4. CASE Unlink
    <3>1. worker'.todo = worker.todo /\ worker'.pc = "settle" /\ worker.pc = "unlink"
      BY <2>4, <1>0, Zenon DEF Unlink
    <3>2. worker.todo \ {Current} \subseteq Keys'
      BY <2>4, <1>0, <3>1, Zenon DEF Unlink, ScanHolds, Keys
    <3>. QED  BY <1>0, <3>1, <3>2, SameTodoSameJob, Zenon DEF ScanHolds
  <2>5. CASE Settle
    BY <2>5, <1>0, Zenon DEF Settle, ScanHolds, Keys, disk
  <2>. QED  BY <1>4, <2>1, <2>2, <2>3, <2>4, <2>5, Zenon DEF WorkerStep
<1>5. ASSUME Crash PROVE ScanHolds'
  BY <1>5, <1>2, Zenon DEF Crash, Spawn
<1>. QED  BY <1>3, <1>4, <1>5, Zenon DEF Next

\* The type invariant with both of these is inductive.
LEMMA NextSound == ASSUME Sound, [Next]_vars PROVE Sound'
<1>1. CASE UNCHANGED vars
  BY <1>1, SameTodoSameJob, Zenon
     DEF Sound, TypeOK, Held, ScanHolds, Keys, vars, memory, disk, history
<1>2. CASE Next
  <2>1. TypeOK'
    BY <1>2, MemType, PushType, WorkerType, DiskType, Zenon DEF TypeOK
  <2>. QED  BY <1>2, <2>1, NextHeld, NextScanHolds, Zenon DEF Sound
<1>. QED  BY <1>1, <1>2, Zenon

\* And holds at first.
LEMMA InitSound == ASSUME Init PROVE Sound
<1>1. IsFiniteSet(jobs) /\ jobs \in SUBSET JobRec
  BY FS_EmptySet, Zenon DEF Init
<1>2. push \in [Pushers -> PushRec]
  BY HubAssumption, Points, Zenon DEF Init, PushRec, MaybeSha
<1>3. TypeOK
  <2>1. mem \in Seq(MemRec) /\ blobs \in Seq(BlobRec)
        /\ accepted \in Seq([sha : Shas, base : MaybeSha])
    BY EmptySeq, Zenon DEF Init
  <2>2. tmp \in [Shas -> Seq(Nat)]
    BY EmptySeq, Zenon DEF Init
  <2>. QED  BY <1>1, <1>2, <2>1, <2>2, Zenon DEF Init, TypeOK, MaybeSha, WorkerPcs
<1>4. Held /\ ScanHolds
  BY Zenon DEF Init, Held, ScanHolds
<1>. QED  BY <1>3, <1>4, Zenon DEF Sound

-----------------------------------------------------------------------------
\* HEAD's blob is there, and the one just written is the newest.
HeadInv ==
  /\ HeadServed
  /\ worker.pc = "publish" =>
       /\ Len(blobs) # 0
       /\ blobs[Len(blobs)].sha = Current[2]

\* One blob more.
LEMMA AppendElements ==
  ASSUME NEW bs \in Seq(BlobRec), NEW b \in BlobRec
  PROVE  /\ Append(bs, b) \in Seq(BlobRec)
         /\ Len(Append(bs, b)) # 0 /\ Append(bs, b)[Len(Append(bs, b))] = b
         /\ Elements(Append(bs, b)) = Elements(bs) \cup {b}
<1>1. /\ Append(bs, b) \in Seq(BlobRec) /\ Len(Append(bs, b)) = Len(bs) + 1
      /\ Len(bs) \in Nat /\ Append(bs, b)[Len(bs) + 1] = b
      /\ \A i \in 1..Len(bs) : Append(bs, b)[i] = bs[i]
  OBVIOUS
<1>. DEFINE a == Append(bs, b)
<1>. HIDE DEF a
<1>2. Elements(a) = Elements(bs) \cup {b}
  <2>1. ASSUME NEW i \in 1..Len(a) PROVE a[i] \in Elements(bs) \cup {b}
    BY <1>1, i \in 1..Len(bs) \/ i = Len(bs) + 1, Zenon DEF Elements, a
  <2>2. ASSUME NEW i \in 1..Len(bs) PROVE bs[i] \in Elements(a)
    BY <1>1, i \in 1..Len(a), bs[i] = a[i], Zenon DEF Elements, a
  <2>3. b \in Elements(a)
    BY <1>1, Len(a) \in 1..Len(a), b = a[Len(a)], Zenon DEF Elements, a
  <2>. QED  BY <2>1, <2>2, <2>3, Zenon DEF Elements
<1>. QED  BY <1>1, <1>2 DEF a

\* HeadServed, said of the set of blobs.
LEMMA HeadServedIs ==
  HeadServed <=> (HEAD # None => \E b \in Elements(blobs) : b.sha = HEAD)
BY Zenon DEF HeadServed, Elements

\* The blob commit_job wrote.
LEMMA CommitWrites ==
  ASSUME Sound, CommitBlob
  PROVE  \E b \in BlobRec :
           /\ b.sha = Current[2] /\ b.chunks = CurrentJob.chunks /\ CurrentJob \in jobs
           /\ Elements(blobs') \subseteq Elements(blobs) \cup {b}
           /\ \A c \in Elements(blobs) : c.sha # b.sha => c \in Elements(blobs')
           /\ b \in Elements(blobs') /\ Len(blobs') # 0 /\ blobs'[Len(blobs')] = b
<1>. DEFINE b == [sha |-> Current[2], chunks |-> CurrentJob.chunks]
            w == Without(blobs, Current[2])
<1>1. Current[2] \in Shas /\ CurrentJob \in jobs
  BY CurrentJobType, Zenon DEF CommitBlob
<1>2. b \in BlobRec
  BY <1>1, Zenon DEF BlobRec, JobRec, Sound, TypeOK
<1>3. /\ w \in Seq(BlobRec) /\ Elements(w) \subseteq Elements(blobs)
      /\ \A c \in Elements(blobs) : c.sha # Current[2] => c \in Elements(w)
  BY WithoutKeeps, Zenon DEF Sound, TypeOK
<1>4. blobs' = Append(w, b)
  BY Zenon DEF CommitBlob
<1>5. b.sha = Current[2] /\ b.chunks = CurrentJob.chunks
  BY Zenon
<1>. HIDE DEF b, w
<1>6. /\ Len(blobs') # 0 /\ blobs'[Len(blobs')] = b
      /\ Elements(blobs') = Elements(w) \cup {b}
  <2>1. /\ Len(Append(w, b)) # 0 /\ Append(w, b)[Len(Append(w, b))] = b
        /\ Elements(Append(w, b)) = Elements(w) \cup {b}
    BY <1>2, <1>3, AppendElements, Zenon
  <2>. QED  BY <2>1, <1>4, Zenon DEF Elements
<1>. QED  BY <1>1, <1>2, <1>3, <1>5, <1>6, Zenon

\* The blob is written before HEAD names it, and pruning spares the newest.
LEMMA NextHead ==
  ASSUME Sound, HeadInv, Retention # 0, [Next]_vars
  PROVE  HeadInv'
<1>0. worker \in [pc : WorkerPcs, todo : SUBSET (Nat \X Shas)] /\ blobs \in Seq(BlobRec)
  BY Zenon DEF Sound, TypeOK
<1>1. ASSUME UNCHANGED <<blobs, HEAD, worker>> PROVE HeadInv'
  BY <1>1, SameTodoSameJob, Zenon DEF HeadInv, HeadServed
<1>2. ASSUME UNCHANGED <<blobs, HEAD>>, worker'.pc # "publish" PROVE HeadInv'
  BY <1>2, Zenon DEF HeadInv, HeadServed
<1>3. ASSUME NEW p \in Pushers, ClientStep(p) \/ ThreadStep(p) \/ Lose(p) PROVE HeadInv'
  <2>1. UNCHANGED <<blobs, HEAD>> /\ (UNCHANGED worker \/ Spawn)
    BY <1>3, Zenon DEF ClientStep, ThreadStep, Query, Receive, Lose, Begin, RepoState,
       Check, Reserve, Spool, Abandon, Take, Enqueue, Rename, memory, disk
  <2>. QED  BY <1>1, <1>2, <2>1 DEF Spawn
<1>4. CASE Scan \/ Nudged \/ IdleTimeout \/ Exit \/ Unlink \/ Settle
  BY <1>0, <1>2, <1>4 DEF Scan, Nudged, IdleTimeout, Exit, Unlink, Settle, disk
<1>5. CASE CommitBlob
  <2>1. worker'.todo = worker.todo /\ HEAD' = HEAD
    BY <1>0, <1>5, Zenon DEF CommitBlob
  <2>2. Current' = Current
    BY <2>1, SameTodoSameJob, Zenon
  <2>3. PICK b \in BlobRec :
           /\ b.sha = Current[2]
           /\ \A c \in Elements(blobs) : c.sha # b.sha => c \in Elements(blobs')
           /\ b \in Elements(blobs') /\ Len(blobs') # 0 /\ blobs'[Len(blobs')] = b
    BY <1>5, CommitWrites, Zenon
  <2>4. HEAD # None => \E c \in Elements(blobs') : c.sha = HEAD
    BY <2>3, HeadServedIs, Zenon DEF HeadInv
  <2>5. HeadServed'
    BY <2>1, <2>4, Zenon DEF HeadServed, Elements
  <2>. QED  BY <2>2, <2>3, <2>5, Zenon DEF HeadInv
<1>6. CASE PublishHead
  <2>1. /\ HEAD' = Current[2] /\ blobs' = PruneRetention(blobs) /\ worker'.pc = "unlink"
        /\ Len(blobs) # 0 /\ blobs[Len(blobs)].sha = Current[2]
    BY <1>0, <1>6, Zenon DEF PublishHead, HeadInv
  <2>2. blobs[Len(blobs)] \in Elements(PruneRetention(blobs))
    BY <1>0, <2>1, PruneKeeps, Zenon
  <2>3. HeadServed'
    BY <2>1, <2>2, Zenon DEF HeadServed, Elements
  <2>. QED  BY <2>1, <2>3, Zenon DEF HeadInv
<1>7. CASE Crash
  BY <1>2, <1>7, Zenon DEF Crash, Spawn, disk
<1>8. CASE UNCHANGED vars
  BY <1>1, <1>8, Zenon DEF vars, memory, disk
<1>. QED  BY <1>3, <1>4, <1>5, <1>6, <1>7, <1>8, Zenon DEF Next, WorkerStep

\* HEAD names a blob that is there, after crashes and idle exits too, when at
\* least one blob is retained: commit_job writes the blob before HEAD, and
\* prune_retention spares the newest.
THEOREM HeadAlwaysServed == ASSUME Retention # 0 PROVE Spec => []HeadServed
<1>1. Init => Sound /\ HeadInv
  <2>1. Init => HeadInv
    BY DEF Init, HeadInv, HeadServed
  <2>. QED  BY <2>1, InitSound, Zenon
<1>2. Sound /\ HeadInv /\ [Next]_vars => (Sound /\ HeadInv)'
  BY NextSound, NextHead, Zenon
<1>3. HeadInv => HeadServed
  BY Zenon DEF HeadInv
<1>. QED  BY <1>1, <1>2, <1>3, PTL DEF Spec

-----------------------------------------------------------------------------

\* No two clients publish the same commit.
DistinctTargets == \A p, q \in Pushers : Target(p) = Target(q) => p = q

\* Every spool file is a beginning of its snapshot; an upload that is not over
\* has a chunk left to send, and one that is over left all of them, unless
\* something removed the file.
Straight(chunks) == \A i \in 1..Len(chunks) : chunks[i] = i
InStep(p) ==
  /\ push[p].pc \in {"begin", "check", "reserve", "spool"} => push[p].offset < NChunks
  /\ push[p].pc \in {"take", "enqueue", "rename"} => Len(tmp[Target(p)]) \in {0, NChunks}
SpoolInv ==
  /\ \A s \in Shas : Straight(tmp[s])
  /\ \A p \in Pushers : InStep(p)
  /\ BlobsWhole

\* Chunks that are in order and all there are the snapshot.
LEMMA WholeIs ==
  ASSUME NEW c \in Seq(Nat), Straight(c), Len(c) = NChunks
  PROVE  c = Whole
<1>1. Len(c) \in Nat /\ c \in [1..Len(c) -> Nat]
  BY LenProperties, Zenon
<1>. QED  BY <1>1, Zenon DEF Straight, Whole

\* What a step makes of the spool files: chunks appended by the client that
\* publishes the commit, files removed by anyone.
LEMMA SpoolFiles ==
  ASSUME Sound, SpoolInv, Next, NEW s \in Shas
  PROVE  \/ tmp'[s] = tmp[s] \/ tmp'[s] = <<>>
         \/ \E p \in Pushers :
              /\ Spool(p) /\ s = Target(p)
              /\ Straight(tmp'[s]) /\ Len(tmp'[s]) = push[p].offset + 1
              /\ \A q \in Pushers : q # p => push'[q] = push[q]
<1>0. tmp \in [Shas -> Seq(Nat)]
  BY Zenon DEF Sound, TypeOK
<1>1. ASSUME NEW p \in Pushers, ClientStep(p) \/ ThreadStep(p) \/ Lose(p), ~Spool(p)
      PROVE  tmp'[s] = tmp[s] \/ tmp'[s] = <<>>
  <2>1. CASE Query(p) \/ Receive(p) \/ Lose(p) \/ Begin(p) \/ Reserve(p) \/ Take(p) \/ Enqueue(p)
    <3>1. UNCHANGED disk
      BY <2>1, Zenon DEF Query, Receive, Lose, Begin, Reserve, Take, Enqueue
    <3>. QED  BY <3>1, Zenon DEF disk
  <2>2. CASE Check(p)
    BY <2>2, Zenon DEF Check
  <2>3. CASE Abandon(p) \/ Rename(p)
    BY <2>3, <1>0, Zenon DEF Abandon, Rename
  <2>. QED  BY <1>1, <2>1, <2>2, <2>3, Zenon DEF ClientStep, ThreadStep
<1>2. ASSUME NEW p \in Pushers, Spool(p)
      PROVE  \/ tmp'[s] = tmp[s]
             \/ /\ s = Target(p) /\ Straight(tmp'[s])
                /\ Len(tmp'[s]) = push[p].offset + 1
  <2>. DEFINE i == push[p].offset
              old == IF i = 0 THEN <<>> ELSE tmp[s]
  <2>1. CASE UNCHANGED tmp \/ s # Target(p)
    BY <1>0, <1>2, <2>1, Zenon DEF Spool
  <2>2. CASE ~UNCHANGED tmp /\ s = Target(p)
    <3>1. tmp'[s] = Append(old, i + 1) /\ (i = 0 \/ Len(tmp[s]) = i)
      BY <1>0, <1>2, <2>2, Zenon DEF Spool
    <3>2. i \in Nat
      BY Zenon DEF Sound, TypeOK, PushRec
    <3>3. old \in Seq(Nat) /\ Len(old) = i /\ Straight(old)
      <4>1. Straight(<<>>)
        BY DEF Straight
      <4>. QED  BY <1>0, <3>1, <3>2, <4>1 DEF SpoolInv
    <3>. HIDE DEF old
    <3>4. /\ Len(Append(old, i + 1)) = i + 1
          /\ Append(old, i + 1)[i + 1] = i + 1
          /\ \A k \in 1..i : Append(old, i + 1)[k] = old[k]
      BY <3>2, <3>3
    <3>5. Straight(Append(old, i + 1))
      BY <3>2, <3>3, <3>4 DEF Straight
    <3>. QED  BY <2>2, <3>1, <3>4, <3>5, Zenon
  <2>. QED  BY <2>1, <2>2, Zenon
<1>3. ASSUME WorkerStep \/ IdleTimeout \/ Crash PROVE UNCHANGED tmp
  BY <1>3, Zenon DEF WorkerStep, IdleTimeout, Scan, Nudged, Exit, CommitBlob, PublishHead,
              Unlink, Settle, Crash, disk
<1>4. \A p, q \in Pushers : Spool(p) /\ q # p => push'[q] = push[q]
  BY OthersKeep, Zenon DEF ThreadStep
<1>. QED  BY <1>1, <1>2, <1>3, <1>4, Zenon DEF Next

\* The client that moves: what it still has to send, and what it left.
LEMMA OwnSpool ==
  ASSUME Sound, SpoolInv, NEW p \in Pushers, ClientStep(p) \/ ThreadStep(p) \/ Lose(p)
  PROVE  InStep(p)'
<1>0. /\ push \in [Pushers -> PushRec] /\ push[p] \in PushRec /\ push[p].offset \in Nat
      /\ NChunks \in Nat /\ Target(p) \in Shas
      /\ tmp \in [Shas -> Seq(Nat)] /\ Len(tmp[Target(p)]) \in Nat
  BY HubAssumption DEF Sound, TypeOK, PushRec, Target
<1>i. InStep(p)
  BY Zenon DEF SpoolInv
<1>t. Target(p)' = Target(p)
  BY Zenon DEF Target
<1>g. ASSUME NEW pc, Goto(p, pc) PROVE push'[p].pc = pc /\ push'[p].offset = push[p].offset
  BY <1>0, <1>g, Zenon DEF Goto, PushRec
<1>r. ASSUME NEW status, Reply(p, status) PROVE push'[p].pc = "reply"
  BY <1>0, <1>r, Zenon DEF Reply, PushRec
<1>1. ASSUME Query(p) PROVE InStep(p)'
  BY <1>0, <1>1, <1>t DEF Query, PushRec, InStep
<1>2. ASSUME Receive(p) PROVE InStep(p)'
  <2>. DEFINE c == Alone(push[p])
              n == [c EXCEPT !.offset = @ + 1, !.tries = 0,
                     !.pc = IF c.offset + 1 >= NChunks THEN "accepted" ELSE "spool"]
  <2>1. c \in PushRec
    BY <1>0, ClientType, Zenon
  <2>2. push[p].reply \in Answers
    BY <1>2, Zenon DEF Receive, Sound, Held
  <2>4. /\ Backoff(c).pc \in {"limited", "query"} /\ Republish(c).pc \in {"conflict", "query"}
        /\ [c EXCEPT !.pc = "failed"].pc = "failed"
    BY <1>0, ClientPoints, Zenon
  <2>. HIDE DEF c
  <2>5. n.pc \in {"accepted", "spool"} /\ (n.pc = "spool" => n.offset < NChunks)
    BY <2>1, <1>0 DEF PushRec
  <2>. HIDE DEF n
  <2>7. \/ push'[p] = n
        \/ push'[p].pc \in {"limited", "query", "conflict", "failed"}
    BY <1>0, <1>2, <2>2, <2>4 DEF Receive, Answers, c, n
  <2>. QED  BY <2>5, <2>7, Zenon DEF InStep
<1>3. ASSUME Lose(p) PROVE InStep(p)'
  <2>2. Broken(push[p]).pc \in {"failed", "query"}
    BY <1>0, ClientPoints, Zenon
  <2>. QED  BY <1>0, <1>3, <2>2, <1>t, Zenon DEF Lose, InStep
<1>4. ASSUME Begin(p) PROVE InStep(p)'
  BY <1>0, <1>i, <1>4, <1>t, Zenon DEF Begin, PushRec, InStep
<1>5. ASSUME Check(p) \/ Reserve(p) PROVE InStep(p)'
  <2>1. \/ Goto(p, "spool") \/ Reply(p, 429) \/ Reply(p, 409) \/ Goto(p, "reserve")
    BY <1>5, CheckMoves, Zenon
  <2>2. push[p].pc \in {"check", "reserve"}
    BY <1>5, Zenon DEF Check, Reserve
  <2>3. push'[p].pc \in {"spool", "reserve", "reply"}
        /\ (push'[p].pc # "reply" => push'[p].offset = push[p].offset)
    BY <1>g, <1>r, <2>1, Zenon
  <2>. QED  BY <1>i, <2>2, <2>3, Zenon DEF InStep
<1>6. ASSUME Spool(p) PROVE InStep(p)'
  <2>. DEFINE i == push[p].offset
              old == IF i = 0 THEN <<>> ELSE tmp[Target(p)]
  <2>1. ASSUME Goto(p, "take"), i + 1 >= NChunks,
               tmp' = [tmp EXCEPT ![Target(p)] = Append(old, i + 1)], Len(old) = i
        PROVE  InStep(p)'
    <3>1. i + 1 = NChunks
      BY <1>0, <1>i, <1>6, <2>1 DEF Spool, InStep
    <3>2. old \in Seq(Nat)
      BY <1>0
    <3>. HIDE DEF old
    <3>3. Len(tmp'[Target(p)]) = i + 1
      BY <1>0, <2>1, <3>2
    <3>. QED  BY <1>g, <1>t, <2>1, <3>1, <3>3 DEF InStep
  <2>2. ASSUME push' = [push EXCEPT ![p].pc = "abandon", ![p].reply = 500]
        PROVE  InStep(p)'
    BY <1>0, <2>2 DEF PushRec, InStep
  <2>3. ASSUME Reply(p, 202) PROVE InStep(p)'
    BY <1>r, <2>3, Zenon DEF InStep
  <2>4. CASE i # 0 /\ Len(tmp[Target(p)]) # i
    BY <1>6, <2>2, <2>4, Zenon DEF Spool
  <2>5. CASE ~(i # 0 /\ Len(tmp[Target(p)]) # i)
    <3>1. /\ tmp' = [tmp EXCEPT ![Target(p)] = Append(old, i + 1)]
          /\ IF i + 1 >= NChunks THEN Goto(p, "take") ELSE Reply(p, 202)
      BY <1>6, <2>5, Zenon DEF Spool
    <3>2. Len(old) = i
      BY <2>5, Zenon
    <3>. QED  BY <2>1, <2>3, <3>1, <3>2, Zenon
  <2>. QED  BY <2>4, <2>5, Zenon
<1>7. ASSUME Abandon(p) PROVE InStep(p)'
  BY <1>g, <1>7, <1>t DEF Abandon, InStep
<1>8. ASSUME Take(p) PROVE InStep(p)'
  BY <1>0, <1>i, <1>8, <1>t, Zenon DEF Take, PushRec, disk, InStep
<1>9. ASSUME Enqueue(p) PROVE InStep(p)'
  <2>1. CASE Refuse(p, 409) \/ Refuse(p, 429)
    BY <1>0, <2>1, <1>t DEF Refuse, PushRec, InStep
  <2>2. CASE push' = [push EXCEPT ![p].pc = "rename",
                                  ![p].seq = mem[push[p].state].nextSeq]
    BY <1>0, <1>i, <1>9, <2>2, <1>t, Zenon DEF PushRec, Enqueue, disk, InStep
  <2>. QED  BY <1>9, <2>1, <2>2, EnqueueCases, Zenon
<1>10. ASSUME Rename(p) PROVE InStep(p)'
  BY <1>0, <1>10, <1>t DEF Rename, Reply, PushRec, InStep
<1>. QED
  BY <1>1, <1>2, <1>3, <1>4, <1>5, <1>6, <1>7, <1>8, <1>9, <1>10, Zenon DEF ClientStep, ThreadStep

\* No step leaves a gap in a spool file or renames one that is not complete.
LEMMA NextSpool ==
  ASSUME Sound, SpoolInv, DistinctTargets, [Next]_vars
  PROVE  SpoolInv'
<1>0. /\ push \in [Pushers -> PushRec] /\ tmp \in [Shas -> Seq(Nat)]
      /\ jobs \subseteq JobRec /\ blobs \in Seq(BlobRec)
      /\ \A p \in Pushers : Target(p) \in Shas /\ Target(p)' = Target(p)
  BY HubAssumption, Zenon DEF Sound, TypeOK, Target
<1>u. CASE UNCHANGED vars
  BY <1>u, Zenon DEF vars, memory, disk, SpoolInv, InStep, Straight, BlobsWhole, Whole, Target
<1>n. CASE Next
  <2>1. ASSUME NEW s \in Shas PROVE Straight(tmp'[s])
    <3>1. Straight(<<>>) /\ Straight(tmp[s])
      BY DEF Straight, SpoolInv
    <3>. QED  BY <1>n, <3>1, SpoolFiles, Zenon
  <2>2. ASSUME NEW q \in Pushers PROVE InStep(q)'
    <3>0. InStep(q) /\ Len(<<>>) = 0
      BY Zenon DEF SpoolInv
    <3>1. CASE ClientStep(q) \/ ThreadStep(q) \/ Lose(q)
      BY <3>1, OwnSpool, Zenon
    <3>2. CASE push'[q] = push[q] /\ ~(ClientStep(q) \/ ThreadStep(q) \/ Lose(q))
      <4>1. ~\E p \in Pushers : Spool(p) /\ Target(q) = Target(p)
        BY <3>2, Zenon DEF DistinctTargets, ThreadStep
      <4>2. tmp'[Target(q)] = tmp[Target(q)] \/ tmp'[Target(q)] = <<>>
        BY <1>0, <1>n, <4>1, SpoolFiles, Zenon
      <4>3. Len(tmp'[Target(q)]) = Len(tmp[Target(q)]) \/ Len(tmp'[Target(q)]) = 0
        BY <3>0, <4>2, Zenon
      <4>. QED  BY <1>0, <3>0, <3>2, <4>3, Zenon DEF InStep
    <3>3. CASE Crash
      <4>1. Broken(push[q]).pc \in {"failed", "query"}
        BY <1>0, ClientPoints, Zenon
      <4>2. push'[q].pc \in {"query", "accepted", "limited", "conflict", "failed"}
        BY <3>3, <4>1, Zenon DEF Crash
      <4>. QED  BY <4>2, Zenon DEF InStep
    <3>4. ASSUME WorkerStep \/ IdleTimeout PROVE UNCHANGED push
      BY <3>4, Zenon DEF WorkerStep, IdleTimeout, Scan, Nudged, Exit, CommitBlob,
                  PublishHead, Unlink, Settle
    <3>. QED  BY <1>n, <3>1, <3>2, <3>3, <3>4, OthersKeep, Zenon DEF Next
  <2>3. \A j \in jobs' : j.chunks = Whole
    <3>0. \A j \in jobs : j.chunks = Whole
      BY Zenon DEF SpoolInv, BlobsWhole
    <3>1. ASSUME NEW p \in Pushers, Rename(p), ~(jobs' \subseteq jobs)
          PROVE  \A j \in jobs' : j.chunks = Whole
      <4>1. /\ tmp[Target(p)] # <<>>
            /\ jobs' = {j \in jobs : <<j.seq, j.sha>> # <<push[p].seq, Target(p)>>}
                 \cup {[seq |-> push[p].seq, sha |-> Target(p), chunks |-> tmp[Target(p)]]}
            /\ push[p].pc = "rename"
        BY <3>1, Zenon DEF Rename
      <4>2. tmp[Target(p)] \in Seq(Nat) /\ Len(tmp[Target(p)]) \in {0, NChunks} /\ Straight(tmp[Target(p)])
        BY <1>0, <4>1, Zenon DEF SpoolInv, InStep
      <4>3. Len(tmp[Target(p)]) = NChunks
        BY <4>1, <4>2, EmptySeq, Zenon
      <4>4. tmp[Target(p)] = Whole
        BY <4>2, <4>3, WholeIs, Zenon
      <4>. QED  BY <3>0, <4>1, <4>4
    <3>2. jobs' \subseteq jobs \/ \E p \in Pushers : Rename(p)
      <4>1. ASSUME NEW p \in Pushers, ClientStep(p) \/ ThreadStep(p) \/ Lose(p), ~Rename(p)
            PROVE  UNCHANGED jobs
        BY <4>1, RequestFrame, Zenon
      <4>2. ASSUME WorkerStep \/ IdleTimeout \/ Crash PROVE jobs' \subseteq jobs
        BY <4>2, Zenon DEF WorkerStep, IdleTimeout, Scan, Nudged, Exit, CommitBlob,
           PublishHead, Unlink, Settle, Crash, disk
      <4>. QED  BY <1>n, <4>1, <4>2, Zenon DEF Next
    <3>. QED  BY <3>0, <3>1, <3>2, Zenon
  <2>4. \A b \in Elements(blobs') : b.chunks = Whole
    <3>0. \A b \in Elements(blobs) : b.chunks = Whole
      BY Zenon DEF SpoolInv, BlobsWhole, Elements
    <3>1. ASSUME CommitBlob PROVE \A b \in Elements(blobs') : b.chunks = Whole
      <4>1. PICK b \in BlobRec : /\ b.chunks = CurrentJob.chunks /\ CurrentJob \in jobs
                                 /\ Elements(blobs') \subseteq Elements(blobs) \cup {b}
        BY <3>1, CommitWrites, Zenon
      <4>2. b.chunks = Whole
        BY <4>1, Zenon DEF SpoolInv, BlobsWhole
      <4>. QED  BY <3>0, <4>1, <4>2, Zenon
    <3>2. ASSUME PublishHead PROVE Elements(blobs') \subseteq Elements(blobs)
      BY <1>0, <3>2, PruneKeeps, Zenon DEF PublishHead
    <3>3. UNCHANGED blobs \/ CommitBlob \/ PublishHead
      <4>1. ASSUME NEW p \in Pushers, ClientStep(p) \/ ThreadStep(p) \/ Lose(p)
            PROVE  UNCHANGED blobs
        BY <4>1, RequestFrame, Zenon
      <4>2. ASSUME WorkerStep \/ IdleTimeout \/ Crash, ~CommitBlob, ~PublishHead
            PROVE  UNCHANGED blobs
        BY <4>2, Zenon DEF WorkerStep, IdleTimeout, Scan, Nudged, Exit, Unlink, Settle, Crash, disk
      <4>. QED  BY <1>n, <4>1, <4>2, Zenon DEF Next
    <3>4. UNCHANGED blobs => Elements(blobs') = Elements(blobs)
      BY Zenon DEF Elements
    <3>. QED  BY <3>0, <3>1, <3>2, <3>3, <3>4, Zenon
  <2>5. BlobsWhole'
    BY <2>3, <2>4, Zenon DEF BlobsWhole, Elements, Whole
  <2>. QED  BY <2>1, <2>2, <2>5, Zenon DEF SpoolInv, Straight
<1>. QED  BY <1>u, <1>n, Zenon

\* Nothing is spooled at first.
LEMMA InitSpool == Init => SpoolInv
<1>. SUFFICES ASSUME Init PROVE SpoolInv
  BY Zenon
<1>1. \A s \in Shas : tmp[s] = <<>>
  BY Zenon DEF Init
<1>2. \A p \in Pushers : push[p].pc = "query"
  BY Zenon DEF Init
<1>3. blobs = <<>> /\ jobs = {}
  BY Zenon DEF Init
<1>. QED  BY <1>1, <1>2, <1>3 DEF SpoolInv, InStep, Straight, BlobsWhole

\* Every job file and every blob is a whole snapshot, whatever breaks, expires,
\* is retried or resumed, as long as no two clients publish the same commit at
\* once: spool_chunk's offset check, and the rename of complete files only.
\* (Two clients that do can leave a torn one: the run of twins shows it.)
THEOREM BlobsAlwaysWhole == ASSUME DistinctTargets PROVE Spec => []BlobsWhole
<1>1. Init => Sound /\ SpoolInv
  BY InitSpool, InitSound, Zenon
<1>2. Sound /\ SpoolInv /\ [Next]_vars => (Sound /\ SpoolInv)'
  BY NextSound, NextSpool, Zenon
<1>3. SpoolInv => BlobsWhole
  BY Zenon DEF SpoolInv
<1>. QED  BY <1>1, <1>2, <1>3, PTL DEF Spec

-----------------------------------------------------------------------------

\* Without crashes and idle exits there is one state of the repository, and its
\* head is the last accepted commit; whatever waits to be published was accepted.
Uninterrupted == Env \cap {"crash", "idle"} = {}
WasAccepted(s) == \E i \in 1..Len(accepted) : accepted[i].sha = s
LastAccepted == IF accepted = <<>> THEN None ELSE accepted[Len(accepted)].sha
LineInv ==
  /\ Len(mem) <= 1 /\ (live <=> mem # <<>>)
  /\ worker.pc # "exit"
  /\ live => mem[1].head = LastAccepted
  /\ ~live => accepted = <<>> /\ HEAD = None /\ jobs = {}
  /\ \A j \in jobs : WasAccepted(j.sha)
  /\ \A k \in worker.todo : WasAccepted(k[2])
  /\ \A p \in Pushers : push[p].pc = "rename" => WasAccepted(Target(p))

\* The head, the numbers and the depth of a state change in finish_upload only,
\* and the depth when the worker settles a job.
SameQueue(m, n) == m.head = n.head /\ m.nextSeq = n.nextSeq /\ m.pending = n.pending

\* A push that was not accepted has been refused.
LEMMA AcceptGrows ==
  ASSUME Sound, NEW p \in Pushers, Enqueue(p), UNCHANGED accepted
  PROVE  Refuse(p, 409) \/ Refuse(p, 429)
<1>. DEFINE e == [sha |-> Target(p), base |-> push[p].base]
<1>1. accepted \in Seq([sha : Shas, base : MaybeSha]) /\ Len(accepted) \in Nat
  BY DEF Sound, TypeOK
<1>. HIDE DEF e
<1>2. Len(Append(accepted, e)) = Len(accepted) + 1
  BY <1>1
<1>3. accepted' # Append(accepted, e)
  BY <1>1, <1>2
<1>. QED  BY <1>3, EnqueueCases, Zenon DEF e

\* Only acceptance and Settle change the head, the depth or the number of a
\* state.
LEMMA StateFrame ==
  ASSUME Sound, Next, UNCHANGED accepted, ~Settle, NEW i \in 1..Len(mem)
  PROVE  i \in 1..Len(mem') /\ SameQueue(mem'[i], mem[i])
<1>0. /\ mem \in Seq(MemRec) /\ Len(mem) \in Nat
      /\ \A k \in 1..Len(mem) : mem[k] \in MemRec
  BY ElementOfSeq DEF Sound, TypeOK
<1>1. ASSUME NEW k \in 1..Len(mem), NEW m \in MemRec, mem' = [mem EXCEPT ![k] = m],
             SameQueue(m, mem[k])
      PROVE  i \in 1..Len(mem') /\ SameQueue(mem'[i], mem[i])
  <2>1. Len(mem') = Len(mem)
    BY <1>0, <1>1, ExceptSeq
  <2>2. mem'[i] = IF i = k THEN m ELSE mem[i]
    BY <1>0, <1>1, LenProperties, Zenon
  <2>. QED  BY <1>1, <2>1, <2>2, Zenon DEF SameQueue
<1>2. CASE UNCHANGED mem
  BY <1>2, Zenon DEF SameQueue
<1>3. CASE Spawn
  BY <1>0, <1>3, RecoveredType DEF Spawn, Sound, SameQueue
<1>4. ASSUME NEW p \in Pushers, ClientStep(p) \/ ThreadStep(p) \/ Lose(p)
      PROVE  i \in 1..Len(mem') /\ SameQueue(mem'[i], mem[i])
  <2>0. Target(p) \in Shas
    BY HubAssumption, Zenon DEF Target
  <2>1. CASE Query(p) \/ Receive(p) \/ Lose(p) \/ Spool(p) \/ Rename(p)
    BY <2>1, <1>2, Zenon DEF Query, Receive, Lose, Spool, Rename, memory
  <2>2. CASE Begin(p)
    BY <2>2, <1>2, <1>3, Zenon DEF Begin, RepoState, memory
  <2>3. CASE Check(p)
    <3>. DEFINE k == push[p].state
    <3>1. k \in 1..Len(mem)
      BY <2>3, Zenon DEF Check, Sound, Held
    <3>2. PICK left \in SUBSET mem[k].uploads : mem' = [mem EXCEPT ![k].uploads = left]
      BY <2>3, Zenon DEF Check
    <3>3. /\ [mem[k] EXCEPT !.uploads = left] \in MemRec
          /\ SameQueue([mem[k] EXCEPT !.uploads = left], mem[k])
      BY <3>1, <1>0, Zenon DEF MemRec, SameQueue
    <3>4. mem' = [mem EXCEPT ![k] = [mem[k] EXCEPT !.uploads = left]]
      BY <3>2, Zenon
    <3>. QED  BY <1>1, <3>1, <3>3, <3>4, Zenon
  <2>4. CASE Reserve(p)
    <3>. DEFINE k == push[p].state
                m == [mem[k] EXCEPT !.uploads = @ \cup {Target(p)}]
    <3>1. k \in 1..Len(mem)
      BY <2>4, Zenon DEF Reserve, Sound, Held
    <3>2. m \in MemRec /\ SameQueue(m, mem[k])
      BY <3>1, <1>0, <2>0, Zenon DEF MemRec, SameQueue
    <3>3. mem' = mem \/ mem' = [mem EXCEPT ![k] = m]
      BY <2>4, Zenon DEF Reserve
    <3>. QED  BY <1>1, <1>2, <3>1, <3>2, <3>3, Zenon
  <2>5. CASE (Abandon(p) \/ Take(p)) /\ live
    <3>. DEFINE m == [mem[Cur] EXCEPT !.uploads = @ \ {Target(p)}]
    <3>1. Cur \in 1..Len(mem)
      BY <2>5, <1>0, EmptySeq DEF Cur, Sound, Held
    <3>2. m \in MemRec /\ SameQueue(m, mem[Cur])
      BY <3>1, <1>0, Zenon DEF MemRec, SameQueue
    <3>3. mem' = [mem EXCEPT ![Cur] = m]
      BY <2>5, Zenon DEF Abandon, Take
    <3>. QED  BY <1>1, <3>1, <3>2, <3>3, Zenon
  <2>6. CASE (Abandon(p) \/ Take(p)) /\ ~live
    BY <2>6, <1>2, <1>3, Zenon DEF Abandon, Take
  <2>7. CASE Enqueue(p)
    <3>4. UNCHANGED mem
      BY <2>7, AcceptGrows, Zenon DEF Refuse
    <3>. QED  BY <1>2, <3>4, Zenon
  <2>. QED
    BY <1>4, <2>1, <2>2, <2>3, <2>4, <2>5, <2>6, <2>7, Zenon DEF ClientStep, ThreadStep
<1>6. CASE WorkerStep \/ IdleTimeout
  BY <1>6, <1>2, Zenon DEF WorkerStep, IdleTimeout, Scan, Nudged, Exit, CommitBlob,
                    PublishHead, Unlink
<1>7. CASE Crash
  BY <1>3, <1>7, Zenon DEF Crash
<1>. QED  BY <1>4, <1>6, <1>7, Zenon DEF Next

\* Settle lowers the depth of the current state.
LEMMA SettleFrame ==
  ASSUME Sound, Settle
  PROVE  /\ Len(mem') = Len(mem) /\ Cur \in 1..Len(mem) /\ Cur' = Cur
         /\ \A i \in 1..Len(mem) : i # Cur => mem'[i] = mem[i]
         /\ mem'[Cur].head = mem[Cur].head /\ mem'[Cur].nextSeq = mem[Cur].nextSeq
         /\ mem'[Cur].pending = IF mem[Cur].pending = 0 THEN UsizeMax
                                ELSE mem[Cur].pending - 1
<1>. DEFINE m == [mem[Cur] EXCEPT !.pending = IF @ = 0 THEN UsizeMax ELSE @ - 1]
<1>0. mem \in Seq(MemRec) /\ Len(mem) \in Nat
  BY DEF Sound, TypeOK
<1>1. Cur \in 1..Len(mem)
  BY <1>0, EmptySeq DEF Cur, Sound, Held, Settle
<1>2. mem[Cur] \in MemRec
  BY <1>0, <1>1, ElementOfSeq, Zenon
<1>3. /\ m \in MemRec /\ m.head = mem[Cur].head /\ m.nextSeq = mem[Cur].nextSeq
      /\ m.pending = IF mem[Cur].pending = 0 THEN UsizeMax ELSE mem[Cur].pending - 1
  BY <1>2, SettledType, Zenon
<1>4. mem' = [mem EXCEPT ![Cur] = m]
  BY Zenon DEF Settle
<1>. HIDE DEF m
<1>5. Len(mem') = Len(mem)
  BY <1>0, <1>1, <1>3, <1>4, ExceptSeq
<1>6. \A i \in 1..Len(mem) : mem'[i] = IF i = Cur THEN m ELSE mem[i]
  BY <1>0, <1>1, <1>4, LenProperties, Zenon
<1>. QED  BY <1>1, <1>3, <1>5, <1>6, Zenon DEF Cur

\* Only acceptance changes the head of a state.
LEMMA HeadFrame ==
  ASSUME Sound, Next, UNCHANGED accepted, NEW i \in 1..Len(mem)
  PROVE  i \in 1..Len(mem') /\ mem'[i].head = mem[i].head
<1>1. CASE Settle
  BY <1>1, SettleFrame, Zenon
<1>2. CASE ~Settle
  BY <1>2, StateFrame, Zenon DEF SameQueue
<1>. QED  BY <1>1, <1>2, Zenon

\* The in-memory head is the last accepted push.
LEMMA NextLine ==
  ASSUME Sound, LineInv, Uninterrupted, [Next]_vars
  PROVE  LineInv'
<1>0. /\ push \in [Pushers -> PushRec] /\ mem \in Seq(MemRec) /\ Len(mem) \in Nat
      /\ live \in BOOLEAN /\ live' \in BOOLEAN
      /\ worker \in [pc : WorkerPcs, todo : SUBSET (Nat \X Shas)]
      /\ accepted \in Seq([sha : Shas, base : MaybeSha])
      /\ live => 1 \in 1..Len(mem)
  <2>1. Sound'
    BY NextSound, Zenon
  <2>. QED  BY <2>1, EmptySeq DEF Sound, TypeOK, Held
<1>t. \A p \in Pushers : Target(p) \in Shas /\ Target(p)' = Target(p)
  BY HubAssumption, Zenon DEF Target
<1>m. \A k \in 1..Len(mem) : mem[k] \in MemRec
  BY <1>0, ElementOfSeq, Zenon
<1>u. CASE UNCHANGED vars
  BY <1>u, Zenon DEF vars, memory, disk, history, LineInv, LastAccepted, WasAccepted, Target
<1>4. ~Crash
  BY Zenon DEF Crash, Uninterrupted
<1>1. ASSUME NEW p \in Pushers, ClientStep(p) \/ ThreadStep(p) \/ Lose(p), ~Enqueue(p)
      PROVE  LineInv'
  <2>n. Next
    BY <1>1, Zenon DEF Next
  <2>1. UNCHANGED <<HEAD, accepted>>
    BY <1>1, RequestFrame, Zenon
  <2>2. \A s : WasAccepted(s)' <=> WasAccepted(s)
    BY <2>1, Zenon DEF WasAccepted
  <2>3. ASSUME NEW q \in Pushers, push'[q].pc = "rename" PROVE WasAccepted(Target(q))
    <3>1. push'[q] = push[q]
      BY <1>1, <2>3, OthersKeep, OwnMove, Zenon DEF LeftAt
    <3>. QED  BY <2>3, <3>1, Zenon DEF LineInv
  <2>4. ASSUME NEW j \in jobs' PROVE WasAccepted(j.sha)
    <3>1. CASE j \in jobs
      BY <3>1, Zenon DEF LineInv
    <3>2. CASE j \notin jobs
      <4>1. Rename(p)
        BY <1>1, <3>2, RequestFrame, Zenon
      <4>2. j.sha = Target(p) /\ push[p].pc = "rename"
        BY <3>2, <4>1 DEF Rename
      <4>. QED  BY <4>2, Zenon DEF LineInv
    <3>. QED  BY <3>1, <3>2, Zenon
  <2>5. CASE Len(mem') = Len(mem)
    <3>0. mem' \in Seq(MemRec)
      BY <2>n, MemType, Zenon
    <3>1. UNCHANGED <<live, worker>> /\ Len(mem') = Len(mem) /\ mem' \in Seq(MemRec)
      BY <1>0, <1>1, <2>5, <3>0, RequestFrame, SpawnType DEF Sound
    <3>2. mem # <<>> <=> mem' # <<>>
      BY <1>0, <3>1, EmptySeq, Zenon
    <3>3. live => mem'[1].head = mem[1].head
      BY <1>0, <2>n, <2>1, HeadFrame, Zenon
    <3>4. ~live' => jobs' = {}
      <4>1. ASSUME ~live, Rename(p) PROVE FALSE
        <5>1. push[p].state \in 1..Len(mem)
          BY <4>1, Zenon DEF Rename, Sound, Held
        <5>. QED  BY <1>0, <4>1, <5>1, EmptySeq DEF LineInv
      <4>. QED  BY <1>1, <3>1, <4>1, RequestFrame, Zenon DEF LineInv
    <3>. QED  BY <1>0, <1>t, <2>1, <2>2, <2>3, <2>4, <3>1, <3>2, <3>3, <3>4, Zenon
                 DEF LineInv, LastAccepted
  <2>6. CASE Spawn /\ ~live
    <3>1. ~live
      BY <2>6, Zenon
    <3>2. mem = <<>> /\ accepted = <<>> /\ HEAD = None /\ Len(mem) = 0
      BY <1>0, <3>1, Zenon DEF LineInv
    <3>3. /\ Len(mem') = 1 /\ mem'[1] = Recovered /\ mem' # <<>> /\ live'
          /\ worker' = [pc |-> "scan", todo |-> {}]
      BY <2>6, <3>2, SpawnType DEF Sound, Spawn
    <3>4. mem'[1].head = None
      BY <3>2, <3>3 DEF Recovered
    <3>. QED  BY <1>t, <2>1, <2>2, <2>3, <2>4, <3>2, <3>3, <3>4, SMTT(60) DEF LineInv, LastAccepted
  <2>. QED  BY <1>4, <2>n, <2>5, <2>6, MemType, Zenon
<1>2. ASSUME NEW p \in Pushers, Enqueue(p) PROVE LineInv'
  <2>. DEFINE e == [sha |-> Target(p), base |-> push[p].base]
              S == [sha : Shas, base : MaybeSha]
  <2>0. push[p].state \in 1..Len(mem) /\ push[p].base \in MaybeSha
    BY <1>0, <1>2, Zenon DEF Enqueue, Sound, Held, PushRec
  <2>1. push[p].state = 1 /\ Len(mem) = 1 /\ live
    <3>1. push[p].state = 1 /\ Len(mem) = 1
      <4>1. Len(mem) <= 1
        BY Zenon DEF LineInv
      <4>2. \A n \in Nat : \A i \in 1..n : n <= 1 => i = 1 /\ n = 1
        OBVIOUS
      <4>. QED  BY <1>0, <2>0, <4>1, <4>2, Zenon
    <3>2. mem # <<>>
      BY <3>1
    <3>. QED  BY <3>1, <3>2, Zenon DEF LineInv
  <2>2. UNCHANGED <<live, worker, jobs, HEAD>>
    BY <1>2, Zenon DEF Enqueue, disk
  <2>3. CASE UNCHANGED <<mem, accepted>> /\ push'[p].pc = "abandon"
    <3>1. \A q \in Pushers : q # p => push'[q] = push[q]
      BY <1>2, OthersKeep, Zenon DEF ThreadStep
    <3>. QED  BY <1>t, <2>2, <2>3, <3>1, Zenon DEF LineInv, LastAccepted, WasAccepted
  <2>4. CASE /\ mem' = [mem EXCEPT ![1] = Advanced(mem[1], Target(p))]
             /\ accepted' = Append(accepted, e)
    <3>1. e \in S /\ e.sha = Target(p) /\ accepted \in Seq(S)
      BY <1>0, <1>t, <2>0, Zenon
    <3>. HIDE DEF e, S
    <3>2. /\ Len(accepted') = Len(accepted) + 1 /\ accepted'[Len(accepted) + 1] = e
          /\ Len(accepted) \in Nat /\ \A i \in 1..Len(accepted) : accepted'[i] = accepted[i]
          /\ accepted' \in Seq(S)
      BY <2>4, <3>1
    <3>3. accepted' # <<>>
      BY <3>2, EmptySeq
    <3>4. WasAccepted(Target(p))' /\ \A s : WasAccepted(s) => WasAccepted(s)'
      BY <1>t, <3>1, <3>2 DEF WasAccepted
    <3>5. mem[1] \in MemRec
      BY <1>m, <2>1
    <3>6. /\ mem' \in Seq(MemRec) /\ Len(mem') = 1 /\ mem'[1] = Advanced(mem[1], Target(p))
      <4>. DEFINE a == Advanced(mem[1], Target(p))
      <4>1. a \in MemRec /\ 1 \in 1..Len(mem)
        BY <1>t, <2>1, <3>5, AdvancedType
      <4>2. mem' = [mem EXCEPT ![1] = a]
        BY <2>4, Zenon
      <4>. HIDE DEF a
      <4>3. mem' \in Seq(MemRec) /\ Len(mem') = Len(mem)
        BY <1>0, <4>1, <4>2, ExceptSeq
      <4>4. mem'[1] = a
        BY <1>0, <4>1, <4>2, LenProperties, Zenon
      <4>. QED  BY <2>1, <4>3, <4>4, Zenon DEF a
    <3>7. mem' # <<>> /\ mem'[1].head = Target(p)
      BY <1>t, <3>5, <3>6, AdvancedType, EmptySeq
    <3>8. LastAccepted' = Target(p)
      BY <3>1, <3>2, <3>3, Zenon DEF LastAccepted
    <3>9. \A q \in Pushers : q # p => push'[q] = push[q]
      BY <1>2, OthersKeep, Zenon DEF ThreadStep
    <3>. QED  BY <1>t, <2>1, <2>2, <3>4, <3>6, <3>7, <3>8, <3>9, Zenon DEF LineInv
  <2>5. Refuse(p, 409) \/ Refuse(p, 429) => UNCHANGED <<mem, accepted>> /\ push'[p].pc = "abandon"
    BY <1>0 DEF Refuse, PushRec
  <2>. QED  BY <1>2, <2>1, <2>3, <2>4, <2>5, EnqueueCases, ZenonT(60)
<1>3. ASSUME WorkerStep \/ IdleTimeout PROVE LineInv'
  <2>1. live /\ ~Exit /\ ~IdleTimeout
    BY <1>0, <1>3, Zenon DEF WorkerStep, IdleTimeout, Scan, Nudged, Exit, CommitBlob,
       PublishHead, Unlink, Settle, Sound, Held, LineInv, Uninterrupted
  <2>2. UNCHANGED <<push, live, accepted>> /\ jobs' \subseteq jobs
    BY <1>3, <2>1, Zenon DEF WorkerStep, Scan, Nudged, CommitBlob, PublishHead, Unlink,
       Settle, disk, history
  <2>n. Next
    BY <1>3, Zenon DEF Next
  <2>3. mem' \in Seq(MemRec) /\ Len(mem') = Len(mem)
    BY <1>4, <2>1, <2>n, MemType, Zenon
  <2>4. mem' # <<>> /\ mem'[1].head = mem[1].head
    BY <1>0, <2>1, <2>2, <2>3, <2>n, HeadFrame, EmptySeq
  <2>5. worker'.pc # "exit" /\ \A k \in worker'.todo : WasAccepted(k[2])
    <3>1. CASE Scan
      BY <1>0, <3>1 DEF Scan, LineInv
    <3>2. CASE Nudged \/ CommitBlob \/ PublishHead \/ Unlink \/ Settle
      BY <1>0, <3>2 DEF Nudged, CommitBlob, PublishHead, Unlink, Settle, LineInv
    <3>. QED  BY <1>3, <2>1, <3>1, <3>2, Zenon DEF WorkerStep
  <2>6. (\A s : WasAccepted(s)' <=> WasAccepted(s)) /\ LastAccepted' = LastAccepted
    BY <2>2, Zenon DEF WasAccepted, LastAccepted
  <2>. QED  BY <1>t, <2>1, <2>2, <2>3, <2>4, <2>5, <2>6, Zenon DEF LineInv
<1>. QED  BY <1>u, <1>1, <1>2, <1>3, <1>4, Zenon DEF Next

\* Each step is a step of the abstract history or none at all.
LEMMA HistoryStep ==
  ASSUME Sound, LineInv, Uninterrupted, [Next]_vars
  PROVE  [History!Next]_<<accepted, HEAD>>
<1>1. ASSUME NEW p \in Pushers, Enqueue(p) PROVE [History!Next]_<<accepted, HEAD>>
  <2>0. /\ push[p].state \in 1..Len(mem) /\ push[p].base \in Shas \cup {None}
        /\ Target(p) \in Shas /\ Len(mem) \in Nat
    BY <1>1, HubAssumption, SMTT(60) DEF Enqueue, Sound, TypeOK, Held, PushRec, MaybeSha, Target
  <2>1. HEAD' = HEAD
    BY <1>1, Zenon DEF Enqueue, disk
  <2>2. CASE Refuse(p, 409) \/ Refuse(p, 429)
    BY <2>1, <2>2, Zenon DEF Refuse
  <2>3. ASSUME ~Conflicts(mem[push[p].state].head, push[p].base),
               accepted' = Append(accepted, [sha |-> Target(p), base |-> push[p].base])
        PROVE  History!Accept(Target(p), push[p].base)
    <3>1. push[p].state = 1 /\ live
      <4>1. push[p].state = 1 /\ Len(mem) = 1
        <5>1. Len(mem) <= 1
          BY Zenon DEF LineInv
        <5>2. \A n \in Nat : \A i \in 1..n : n <= 1 => i = 1 /\ n = 1
          OBVIOUS
        <5>. QED  BY <2>0, <5>1, <5>2, Zenon
      <4>2. mem # <<>>
        BY <4>1
      <4>. QED  BY <4>1, <4>2, Zenon DEF LineInv
    <3>2. mem[push[p].state].head = LastAccepted
      BY <3>1, Zenon DEF LineInv
    <3>3. \/ push[p].base = None \/ accepted = <<>>
          \/ accepted[Len(accepted)].sha = push[p].base
      <4>1. ASSUME accepted # <<>> PROVE LastAccepted = accepted[Len(accepted)].sha /\ LastAccepted # None
        <5>. DEFINE S == [sha : Shas, base : MaybeSha]
        <5>1. accepted \in Seq(S) /\ Len(accepted) \in 1..Len(accepted)
          BY <4>1, EmptySeq DEF Sound, TypeOK
        <5>2. accepted[Len(accepted)] \in S
          BY <5>1, ElementOfSeq, Zenon
        <5>. QED  BY <4>1, <5>2, HubAssumption, Zenon DEF LastAccepted
      <4>. QED  BY <2>3, <3>2, <4>1, Zenon DEF Conflicts
    <3>. QED  BY <2>1, <2>3, <3>3, Zenon DEF History!Accept
  <2>. QED  BY <1>1, <2>0, <2>2, <2>3, EnqueueCases, Zenon DEF History!Next
<1>2. ASSUME PublishHead PROVE [History!Next]_<<accepted, HEAD>>
  <2>1. Current \in worker.todo
    BY <1>2, CurrentJobType, Zenon DEF PublishHead
  <2>2. PICK i \in 1..Len(accepted) : accepted[i].sha = Current[2]
    BY <2>1, Zenon DEF LineInv, WasAccepted
  <2>3. History!Serve(i)
    BY <1>2, <2>2, Zenon DEF PublishHead, History!Serve
  <2>. QED  BY <2>3, Zenon DEF History!Next
<1>3. ASSUME NEW p \in Pushers, ClientStep(p) \/ ThreadStep(p) \/ Lose(p), ~Enqueue(p)
      PROVE  UNCHANGED <<accepted, HEAD>>
  BY <1>3, RequestFrame, Zenon
<1>4. ASSUME WorkerStep \/ IdleTimeout \/ Crash, ~PublishHead
      PROVE  UNCHANGED <<accepted, HEAD>>
  BY <1>4, Zenon DEF WorkerStep, Scan, Nudged, Exit, CommitBlob, Unlink, Settle,
              IdleTimeout, Crash, disk, history
<1>5. ASSUME UNCHANGED vars PROVE UNCHANGED <<accepted, HEAD>>
  BY <1>5, Zenon DEF vars, disk, history
<1>. QED  BY <1>1, <1>2, <1>3, <1>4, <1>5, Zenon DEF Next

\* While the registry process is not interrupted, the repository keeps its
\* promise: the accepted pushes form one line (begin_upload's and finish_upload's
\* look at the head), and what is served was accepted.
THEOREM HistoryRefined == ASSUME Uninterrupted PROVE Spec => RefinesHistory
<1>1. Init => Sound /\ LineInv /\ History!Init
  <2>1. Init => LineInv
    BY DEF Init, LineInv
  <2>2. Init => History!Init
    BY Zenon DEF Init, History!Init
  <2>3. Init => Sound
    BY InitSound, Zenon
  <2>. QED  BY <2>1, <2>2, <2>3, Zenon
<1>2. Sound /\ LineInv /\ [Next]_vars => (Sound /\ LineInv)'
  BY NextSound, NextLine, Zenon
<1>3. Sound /\ LineInv /\ [Next]_vars => [History!Next]_<<accepted, HEAD>>
  BY HistoryStep, Zenon
<1>. QED  BY <1>1, <1>2, <1>3, PTL DEF Spec, RefinesHistory, History!Spec

-----------------------------------------------------------------------------

\* While the worker never goes idle and no reservation expires, a thread works
\* on the state in the table, what it takes over is there, and job numbers are
\* used once: so the depth can be counted.
Busy == Env \cap {"idle", "expire"} = {}
Renaming == {p \in Pushers : push[p].pc = "rename"}
Attached(p) ==
  /\ push[p].pc \in {"check", "reserve", "enqueue", "rename"} =>
       live /\ push[p].state = Cur
  /\ push[p].pc \in {"take", "enqueue", "rename"} => Len(tmp[Target(p)]) # 0
NumbersUnique ==
  /\ \A j, k \in jobs : j.seq = k.seq => j = k
  /\ \A p, q \in Renaming : push[p].seq = push[q].seq => p = q
  /\ \A j \in jobs, p \in Renaming : push[p].seq # j.seq
NumbersBelow ==
  live => /\ \A j \in jobs : j.seq < mem[Cur].nextSeq
          /\ \A p \in Renaming : push[p].seq < mem[Cur].nextSeq
QueueInv ==
  /\ worker.pc # "exit"
  /\ \A p \in Pushers : Attached(p)
  /\ NumbersUnique /\ NumbersBelow
  /\ PendingExact

\* What repo_state recovers counts the jobs and numbers the next one after them.
LEMMA RecoveredCounts ==
  ASSUME TypeOK
  PROVE  /\ Recovered.pending = Cardinality(jobs)
         /\ \A j \in jobs : j.seq < Recovered.nextSeq
<1>1. ASSUME NEW j \in jobs PROVE j.seq < Recovered.nextSeq
  <2>. DEFINE S == {k.seq : k \in jobs}
  <2>1. IsFiniteSet(S)
    <3>1. [k \in jobs |-> k.seq] \in Surjection(jobs, S)
      BY Zenon DEF Surjection
    <3>. QED  BY <3>1, FS_Surjection, Zenon DEF TypeOK
  <2>2. S \in SUBSET Nat /\ S # {}
    <3>1. \A k \in jobs : k.seq \in Nat
      BY Zenon DEF TypeOK, JobRec
    <3>. QED  BY <3>1, Zenon
  <2>3. \E n \in S : \A k \in jobs : k.seq <= n
    BY <2>1, <2>2, LargestNat, Zenon
  <2>. DEFINE top == CHOOSE n \in S : \A k \in jobs : k.seq <= n
  <2>4. top \in S /\ \A k \in jobs : k.seq <= top
    BY <2>3, Zenon
  <2>5. Recovered.nextSeq = 1 + top
    BY Zenon DEF Recovered
  <2>. HIDE DEF top
  <2>6. top \in Nat /\ j.seq \in Nat /\ j.seq <= top
    BY <2>2, <2>4, Zenon DEF TypeOK, JobRec
  <2>. QED  BY <2>5, <2>6
<1>. QED  BY <1>1, Zenon DEF Recovered

\* A step never takes a spool file from another client's finished upload.
LEMMA FilesKept ==
  ASSUME Sound, SpoolInv, DistinctTargets, Busy, Next, NEW q \in Pushers,
         push'[q].pc \in {"take", "enqueue", "rename"},
         push[q].pc \in {"take", "enqueue", "rename"} => Len(tmp[Target(q)]) # 0
  PROVE  Len(tmp'[Target(q)]) # 0
<1>0. /\ tmp \in [Shas -> Seq(Nat)] /\ push \in [Pushers -> PushRec]
      /\ \A p \in Pushers : Target(p) \in Shas
  BY HubAssumption, Zenon DEF Sound, TypeOK, Target
<1>1. ASSUME NEW p \in Pushers, ClientStep(p) \/ ThreadStep(p) \/ Lose(p)
      PROVE  \/ tmp'[Target(q)] = tmp[Target(q)]
             \/ Spool(p) /\ p = q
             \/ (Abandon(p) \/ Rename(p)) /\ p = q
  <2>1. CASE Query(p) \/ Receive(p) \/ Lose(p) \/ Begin(p) \/ Reserve(p) \/ Take(p) \/ Enqueue(p)
    <3>1. UNCHANGED disk
      BY <2>1, Zenon DEF Query, Receive, Lose, Begin, Reserve, Take, Enqueue
    <3>. QED  BY <3>1, Zenon DEF disk
  <2>2. CASE Check(p)
    BY <1>0, <2>2, Zenon DEF Check, Busy
  <2>3. CASE Abandon(p) \/ Rename(p) \/ Spool(p)
    <3>1. p # q => Target(p) # Target(q)
      BY Zenon DEF DistinctTargets
    <3>. QED  BY <1>0, <2>3, <3>1, Zenon DEF Abandon, Rename, Spool
  <2>. QED  BY <1>1, <2>1, <2>2, <2>3, Zenon DEF ClientStep, ThreadStep
<1>2. ASSUME WorkerStep \/ IdleTimeout \/ Crash PROVE UNCHANGED tmp
  BY <1>2, Zenon DEF WorkerStep, IdleTimeout, Scan, Nudged, Exit, CommitBlob, PublishHead,
              Unlink, Settle, Crash, disk
<1>3. ASSUME Abandon(q) \/ Rename(q) PROVE FALSE
  BY <1>0, <1>3 DEF Abandon, Rename, Goto, Reply, PushRec
<1>4. ASSUME Spool(q) PROVE Len(tmp'[Target(q)]) # 0
  <2>. DEFINE i == push[q].offset
              old == IF i = 0 THEN <<>> ELSE tmp[Target(q)]
  <2>1. ~(i # 0 /\ Len(tmp[Target(q)]) # i)
    BY <1>0, <1>4 DEF Spool, PushRec
  <2>2. tmp' = [tmp EXCEPT ![Target(q)] = Append(old, i + 1)]
    BY <1>4, <2>1, Zenon DEF Spool
  <2>3. old \in Seq(Nat) /\ i \in Nat
    BY <1>0 DEF PushRec
  <2>. HIDE DEF old
  <2>4. Len(Append(old, i + 1)) = Len(old) + 1 /\ Len(old) \in Nat
    BY <2>3
  <2>. QED  BY <1>0, <2>2, <2>4
<1>5. ASSUME tmp'[Target(q)] = tmp[Target(q)], ~Spool(q) PROVE Len(tmp'[Target(q)]) # 0
  <2>1. push[q].pc \in {"take", "enqueue", "rename"}
    <3>1. CASE push'[q] = push[q]
      BY <3>1, Zenon
    <3>2. CASE ClientStep(q) \/ ThreadStep(q) \/ Lose(q)
      BY <1>5, <3>2, OwnMove, Zenon DEF LeftAt, Take
    <3>3. CASE Crash
      <4>1. Broken(push[q]).pc \in {"failed", "query"}
        BY <1>0, ClientPoints, Zenon
      <4>. QED  BY <3>3, <4>1, Zenon DEF Crash
    <3>4. ASSUME WorkerStep \/ IdleTimeout PROVE UNCHANGED push
      BY <3>4, Zenon DEF WorkerStep, IdleTimeout, Scan, Nudged, Exit, CommitBlob,
                  PublishHead, Unlink, Settle
    <3>. QED  BY <3>1, <3>2, <3>3, <3>4, OthersKeep, Zenon DEF Next
  <2>. QED  BY <1>5, <2>1, Zenon
<1>. QED  BY <1>1, <1>2, <1>3, <1>4, <1>5, Zenon DEF Next

\* Who renames: no other step starts from there or leads there.
LEMMA RenamingMoves ==
  ASSUME Sound, NEW p \in Pushers, ClientStep(p) \/ ThreadStep(p) \/ Lose(p)
  PROVE  /\ push[p].pc = "rename" => Rename(p)
         /\ ~Enqueue(p) => push'[p].pc # "rename"
         /\ \A q \in Pushers : q # p => push'[q] = push[q]
<1>1. push[p].pc = "rename" => Rename(p)
  BY Zenon DEF ClientStep, ThreadStep, Query, Receive, Lose, Begin, Check, Reserve,
               Spool, Abandon, Take, Enqueue
<1>2. ~Enqueue(p) => push'[p].pc # "rename"
  BY OwnMove, Zenon DEF LeftAt
<1>. QED  BY <1>1, <1>2, OthersKeep, Zenon

\* A state in the table stays in it, until the process dies.
LEMMA LiveStays ==
  ASSUME Sound, QueueInv, Busy, Next, ~Crash
  PROVE  /\ live => live' /\ Cur' = Cur
         /\ ~live /\ live' => Spawn
<1>1. ~Exit /\ ~IdleTimeout
  BY Zenon DEF QueueInv, Exit, IdleTimeout, Busy
<1>2. ASSUME NEW p \in Pushers, ClientStep(p) \/ ThreadStep(p) \/ Lose(p)
      PROVE  UNCHANGED <<live, worker>> \/ (Spawn /\ ~live)
  BY <1>2, RequestFrame, Zenon
<1>3. ASSUME WorkerStep PROVE UNCHANGED live
  BY <1>1, <1>3, Zenon DEF WorkerStep, Scan, Nudged, CommitBlob, PublishHead, Unlink, Settle
<1>4. UNCHANGED live \/ (Spawn /\ ~live)
  BY <1>1, <1>2, <1>3, Zenon DEF Next
<1>5. live => Len(mem') = Len(mem)
  BY MemType, Zenon
<1>. QED  BY <1>4, <1>5 DEF Cur

\* A thread that is about to accept or rename works on the current state.
LEMMA NextAttached ==
  ASSUME Sound, SpoolInv, QueueInv, DistinctTargets, Busy, Next, NEW q \in Pushers
  PROVE  Attached(q)'
<1>0. Attached(q) /\ Target(q)' = Target(q) /\ push \in [Pushers -> PushRec]
  BY Zenon DEF QueueInv, Target, Sound, TypeOK
<1>1. push'[q].pc \in {"take", "enqueue", "rename"} => Len(tmp'[Target(q)]) # 0
  BY <1>0, FilesKept, Zenon DEF Attached
<1>2. CASE Crash
  <2>1. Broken(push[q]).pc \in {"failed", "query"}
    BY <1>0, ClientPoints, Zenon
  <2>2. push'[q].pc \in {"query", "accepted", "limited", "conflict", "failed"}
    BY <1>2, <2>1, Zenon DEF Crash
  <2>. QED  BY <2>2, Zenon DEF Attached
<1>3. CASE ~Crash
  <2>0. live => live' /\ Cur' = Cur
    BY <1>3, LiveStays, Zenon
  <2>1. CASE push'[q] = push[q]
    BY <1>0, <1>1, <2>0, <2>1, Zenon DEF Attached
  <2>2. CASE ClientStep(q) \/ ThreadStep(q) \/ Lose(q)
    <3>1. Begin(q) \/ Take(q) => live'
      BY <2>0, Zenon DEF Begin, RepoState, Take, Spawn
    <3>2. LeftAt(q)
      BY <2>2, OwnMove, Zenon
    <3>3. push'[q].pc \in {"check", "enqueue"} => live' /\ push'[q].state = Cur'
      BY <3>1, <3>2, Zenon DEF LeftAt, Cur
    <3>4. push'[q].pc \in {"reserve", "rename"} => live' /\ push'[q].state = Cur'
      BY <1>0, <2>0, <3>2, Zenon DEF LeftAt, Attached
    <3>. QED  BY <1>0, <1>1, <3>3, <3>4, Zenon DEF Attached
  <2>3. ASSUME WorkerStep \/ IdleTimeout PROVE UNCHANGED push
    BY <2>3, Zenon DEF WorkerStep, IdleTimeout, Scan, Nudged, Exit, CommitBlob,
                PublishHead, Unlink, Settle
  <2>. QED  BY <1>3, <2>1, <2>2, <2>3, OthersKeep, Zenon DEF Next
<1>. QED  BY <1>2, <1>3, Zenon

Counted == NumbersUnique /\ NumbersBelow /\ PendingExact

\* A new state counts what it finds; no thread renames then.
LEMMA SpawnCounted ==
  ASSUME Sound, QueueInv, Spawn, UNCHANGED jobs, Renaming' = {}
  PROVE  Counted'
<1>1. /\ Cur' = Len(mem') /\ mem'[Len(mem')] = Recovered
      /\ worker' = [pc |-> "scan", todo |-> {}]
  BY SpawnType, Zenon DEF Sound, Cur, Spawn
<1>2. Recovered.pending = Cardinality(jobs) /\ \A j \in jobs : j.seq < Recovered.nextSeq
  BY RecoveredCounts, Zenon DEF Sound
<1>3. Cardinality({}) = 0 /\ Cardinality(jobs) \in Nat
  BY FS_EmptySet, FS_CardinalityType, Zenon DEF Sound, TypeOK
<1>4. NumbersUnique' /\ NumbersBelow'
  BY <1>1, <1>2, Zenon DEF NumbersUnique, NumbersBelow, QueueInv
<1>5. PendingExact'
  <2>1. Cardinality(Renaming') = 0
    BY <1>3, Zenon
  <2>2. {p \in Pushers : push'[p].pc = "rename"} = Renaming'
    BY Zenon DEF Renaming
  <2>3. mem'[Cur'].pending = Cardinality(jobs) + 0 + 0
    BY <1>1, <1>2, <1>3
  <2>. QED  BY <1>1, <2>1, <2>2, <2>3, Zenon DEF PendingExact
<1>. QED  BY <1>4, <1>5, Zenon DEF Counted

\* A step that leaves the jobs, the renaming threads and the depth alone.
LEMMA QuietStep ==
  ASSUME Sound, QueueInv, Busy, Next, ~Crash, ~Settle, UNCHANGED <<jobs, accepted>>,
         Renaming' = Renaming, \A p \in Renaming : push'[p] = push[p],
         worker'.pc = "settle" <=> worker.pc = "settle"
  PROVE  Counted'
<1>1. CASE ~live'
  BY <1>1 DEF Counted, NumbersUnique, NumbersBelow, PendingExact, QueueInv
<1>2. CASE ~live /\ live'
  <2>1. Spawn
    BY <1>2, LiveStays, Zenon
  <2>2. Renaming = {}
    BY <1>2, Zenon DEF Renaming, QueueInv, Attached
  <2>. QED  BY <2>1, <2>2, SpawnCounted, Zenon
<1>3. CASE live
  <2>1. live' /\ Cur' = Cur
    BY <1>3, LiveStays, Zenon
  <2>2. Cur \in 1..Len(mem)
    BY <1>3, EmptySeq DEF Cur, Sound, TypeOK, Held
  <2>3. SameQueue(mem'[Cur], mem[Cur])
    BY <2>2, StateFrame, Zenon
  <2>4. NumbersUnique'
    BY DEF NumbersUnique, QueueInv
  <2>5. NumbersBelow'
    BY <1>3, <2>1, <2>3, Zenon DEF NumbersBelow, QueueInv, SameQueue
  <2>6. PendingExact'
    BY <1>3, <2>1, <2>3, Zenon DEF PendingExact, QueueInv, SameQueue, Renaming
  <2>. QED  BY <2>4, <2>5, <2>6, Zenon DEF Counted
<1>. QED  BY <1>1, <1>2, <1>3, Zenon

\* finish_upload accepts: one more to rename, under a number nobody has.
LEMMA EnqueueCounted ==
  ASSUME Sound, QueueInv, Busy, NEW p \in Pushers, Enqueue(p), ~UNCHANGED accepted
  PROVE  Counted'
<1>0. /\ push \in [Pushers -> PushRec] /\ mem \in Seq(MemRec) /\ Target(p) \in Shas
      /\ IsFiniteSet(Renaming) /\ jobs \subseteq JobRec /\ IsFiniteSet(jobs)
  BY HubAssumption, FS_Subset, Zenon DEF Sound, TypeOK, Renaming, Target
<1>1. /\ live /\ push[p].state = Cur /\ Cur \in 1..Len(mem) /\ p \notin Renaming
      /\ UNCHANGED <<live, worker, jobs>>
  <2>1. push[p].pc = "enqueue" /\ UNCHANGED <<live, worker, disk>>
    BY Zenon DEF Enqueue
  <2>. QED  BY <2>1, Zenon DEF QueueInv, Attached, Sound, Held, Renaming, disk
<1>2. /\ mem' = [mem EXCEPT ![Cur] = Advanced(mem[Cur], Target(p))]
      /\ push' = [push EXCEPT ![p].pc = "rename", ![p].seq = mem[Cur].nextSeq]
  BY <1>1, EnqueueCases, Zenon DEF Refuse
<1>3. mem[Cur] \in MemRec
  BY <1>0, <1>1, ElementOfSeq, Zenon
<1>4. /\ Cur' = Cur /\ mem'[Cur].nextSeq = mem[Cur].nextSeq + 1
      /\ mem'[Cur].pending = mem[Cur].pending + 1
      /\ mem[Cur].nextSeq \in Nat /\ mem[Cur].pending \in Nat
  <2>. DEFINE a == Advanced(mem[Cur], Target(p))
  <2>1. a \in MemRec /\ a.nextSeq = mem[Cur].nextSeq + 1 /\ a.pending = mem[Cur].pending + 1
    BY <1>0, <1>3, AdvancedType, Zenon
  <2>2. mem' = [mem EXCEPT ![Cur] = a]
    BY <1>2, Zenon
  <2>. HIDE DEF a
  <2>3. Len(mem') = Len(mem)
    BY <1>0, <1>1, <2>1, <2>2, ExceptSeq
  <2>4. mem'[Cur] = a
    BY <1>0, <1>1, <2>2, LenProperties, Zenon
  <2>. QED  BY <1>3, <2>1, <2>3, <2>4, Zenon DEF MemRec, Cur
<1>5. /\ Renaming' = Renaming \cup {p}
      /\ push'[p].seq = mem[Cur].nextSeq /\ \A q \in Renaming : push'[q] = push[q]
  BY <1>0, <1>1, <1>2, Zenon DEF Renaming, PushRec
<1>6. /\ \A j \in jobs : j.seq \in Nat /\ j.seq < mem[Cur].nextSeq
      /\ \A q \in Renaming : push[q].seq \in Nat /\ push[q].seq < mem[Cur].nextSeq
  BY <1>0, <1>1, Zenon DEF QueueInv, NumbersBelow, JobRec, PushRec, Renaming
<1>7. NumbersUnique'
  <2>0. /\ \A j, k \in jobs : j.seq = k.seq => j = k
        /\ \A a, b \in Renaming : push[a].seq = push[b].seq => a = b
        /\ \A j \in jobs, a \in Renaming : push[a].seq # j.seq
    BY Zenon DEF NumbersUnique, QueueInv
  <2>a. /\ \A j \in jobs : j.seq # mem[Cur].nextSeq
        /\ \A q \in Renaming : push[q].seq # mem[Cur].nextSeq
    <3>1. \A n \in Nat : n < mem[Cur].nextSeq => n # mem[Cur].nextSeq
      BY <1>4
    <3>. QED  BY <1>6, <3>1, Zenon
  <2>1. \A j, k \in jobs' : j.seq = k.seq => j = k
    BY <1>1, <2>0, Zenon
  <2>2. \A a, b \in Renaming' : push'[a].seq = push'[b].seq => a = b
    <3>1. \A a \in Renaming' : a = p \/ (a \in Renaming /\ push'[a].seq = push[a].seq)
      BY <1>5, Zenon
    <3>2. ASSUME NEW a \in Renaming', NEW b \in Renaming', push'[a].seq = push'[b].seq PROVE a = b
      <4>1. CASE a = p /\ b # p
        BY <1>5, <2>a, <3>1, <3>2, <4>1, Zenon
      <4>2. CASE a # p /\ b = p
        BY <1>5, <2>a, <3>1, <3>2, <4>2, Zenon
      <4>3. CASE a # p /\ b # p
        BY <2>0, <3>1, <3>2, <4>3, Zenon
      <4>. QED  BY <4>1, <4>2, <4>3, Zenon
    <3>. QED  BY <3>2, Zenon
  <2>3. \A j \in jobs', a \in Renaming' : push'[a].seq # j.seq
    BY <1>1, <1>5, <2>0, <2>a, Zenon
  <2>. QED  BY <2>1, <2>2, <2>3, Zenon DEF NumbersUnique
<1>8. NumbersBelow'
  BY <1>1, <1>4, <1>5, <1>6 DEF NumbersBelow
<1>9. PendingExact'
  <2>1. Cardinality(Renaming') = Cardinality(Renaming) + 1
    BY <1>0, <1>1, <1>5, FS_AddElement, Zenon
  <2>2. Cardinality(Renaming) \in Nat /\ Cardinality(jobs) \in Nat
    BY <1>0, FS_CardinalityType, Zenon
  <2>. DEFINE s == IF worker.pc = "settle" THEN 1 ELSE 0
  <2>3. mem[Cur].pending = Cardinality(jobs) + Cardinality(Renaming) + s
    BY <1>1, Zenon DEF QueueInv, PendingExact, Renaming
  <2>4. s \in Nat
    BY Zenon
  <2>. HIDE DEF s
  <2>5. mem'[Cur].pending = Cardinality(jobs) + Cardinality(Renaming') + s
    BY <1>4, <2>1, <2>2, <2>3, <2>4
  <2>. QED  BY <1>1, <1>4, <2>5, Zenon DEF PendingExact, Renaming, s
<1>. QED  BY <1>7, <1>8, <1>9, Zenon DEF Counted

\* The spooled file becomes a job: one less to rename, one more job.
LEMMA RenameCounted ==
  ASSUME Sound, QueueInv, Busy, NEW p \in Pushers, Rename(p)
  PROVE  Counted'
<1>. DEFINE new == [seq |-> push[p].seq, sha |-> Target(p), chunks |-> tmp[Target(p)]]
<1>0. /\ push \in [Pushers -> PushRec] /\ Target(p) \in Shas
      /\ IsFiniteSet(Renaming) /\ IsFiniteSet(jobs)
  BY HubAssumption, FS_Subset, Zenon DEF Sound, TypeOK, Renaming, Target
<1>1. /\ live /\ p \in Renaming /\ tmp[Target(p)] # <<>>
      /\ UNCHANGED <<mem, live, worker>>
  BY Zenon DEF Rename, QueueInv, Attached, Renaming
<1>2. /\ jobs' = {j \in jobs : <<j.seq, j.sha>> # <<push[p].seq, Target(p)>>} \cup {new}
      /\ Reply(p, 202)
  BY <1>1, Zenon DEF Rename
<1>3. \A j \in jobs : j.seq # push[p].seq
  BY <1>1, Zenon DEF QueueInv, NumbersUnique
<1>4. {j \in jobs : <<j.seq, j.sha>> # <<push[p].seq, Target(p)>>} = jobs
  BY <1>3, Zenon
<1>5. jobs' = jobs \cup {new} /\ new \notin jobs /\ new.seq = push[p].seq
  BY <1>2, <1>3, <1>4, Zenon
<1>. HIDE DEF new
<1>6. Renaming' = Renaming \ {p} /\ \A q \in Renaming' : push'[q] = push[q]
  BY <1>0, <1>2 DEF Reply, Renaming, PushRec
<1>7. NumbersUnique'
  BY <1>1, <1>5, <1>6 DEF NumbersUnique, QueueInv
<1>8. NumbersBelow'
  <2>1. Cur' = Cur
    BY <1>1, Zenon DEF Cur
  <2>. QED  BY <1>1, <1>5, <1>6, <2>1, Zenon DEF NumbersBelow, QueueInv
<1>9. PendingExact'
  <2>1. Cardinality(jobs') = Cardinality(jobs) + 1
    BY <1>0, <1>5, FS_AddElement, Zenon
  <2>2. Cardinality(Renaming') = Cardinality(Renaming) - 1
    BY <1>0, <1>1, <1>6, FS_RemoveElement, Zenon
  <2>3. Cardinality(Renaming) \in Nat /\ Cardinality(jobs) \in Nat
    BY <1>0, FS_CardinalityType, Zenon
  <2>. DEFINE s == IF worker.pc = "settle" THEN 1 ELSE 0
  <2>4. mem[Cur].pending = Cardinality(jobs) + Cardinality(Renaming) + s
    BY <1>1, Zenon DEF QueueInv, PendingExact, Renaming
  <2>5. s \in Nat
    BY Zenon
  <2>. HIDE DEF s
  <2>6. mem[Cur].pending = Cardinality(jobs') + Cardinality(Renaming') + s
    BY <2>1, <2>2, <2>3, <2>4, <2>5
  <2>. QED  BY <1>1, <2>6, Zenon DEF PendingExact, Renaming, Cur, s
<1>. QED  BY <1>7, <1>8, <1>9, Zenon DEF Counted

\* The worker removes one job file, and then counts it off.
LEMMA UnlinkCounted ==
  ASSUME Sound, QueueInv, Unlink
  PROVE  Counted'
<1>0. /\ IsFiniteSet(jobs) /\ worker.pc = "unlink" /\ worker'.pc = "settle"
      /\ UNCHANGED <<push, mem, live>> /\ live
  BY Zenon DEF Sound, TypeOK, Held, Unlink
<1>1. CurrentJob \in jobs /\ <<CurrentJob.seq, CurrentJob.sha>> = Current
  BY <1>0, CurrentJobType, Zenon
<1>2. jobs' = {j \in jobs : <<j.seq, j.sha>> # Current}
  BY Zenon DEF Unlink
<1>3. \A j \in jobs : <<j.seq, j.sha>> = Current => j = CurrentJob
  <2>1. ASSUME NEW j \in jobs, <<j.seq, j.sha>> = Current PROVE j.seq = CurrentJob.seq
    BY <1>1, <2>1
  <2>. QED  BY <1>1, <2>1, Zenon DEF QueueInv, NumbersUnique
<1>4. jobs' = jobs \ {CurrentJob}
  BY <1>1, <1>2, <1>3, Zenon
<1>5. Renaming' = Renaming /\ Cur' = Cur
  BY <1>0, Zenon DEF Renaming, Cur
<1>6. NumbersUnique' /\ NumbersBelow'
  BY <1>0, <1>4, <1>5, Zenon DEF NumbersUnique, NumbersBelow, QueueInv
<1>7. PendingExact'
  <2>1. Cardinality(jobs') = Cardinality(jobs) - 1
    BY <1>0, <1>1, <1>4, FS_RemoveElement, Zenon
  <2>2. IsFiniteSet(Renaming)
    BY HubAssumption, FS_Subset, Zenon DEF Renaming
  <2>3. Cardinality(Renaming) \in Nat /\ Cardinality(jobs) \in Nat
    BY <1>0, <2>2, FS_CardinalityType, Zenon
  <2>4. mem[Cur].pending = Cardinality(jobs) + Cardinality(Renaming) + 0
    BY <1>0, Zenon DEF QueueInv, PendingExact, Renaming
  <2>5. mem[Cur].pending = Cardinality(jobs') + Cardinality(Renaming) + 1
    BY <2>1, <2>3, <2>4
  <2>. QED  BY <1>0, <1>5, <2>5, Zenon DEF PendingExact, Renaming
<1>. QED  BY <1>6, <1>7, Zenon DEF Counted

\* A job that is settled was counted once.
LEMMA SettleCounted ==
  ASSUME Sound, QueueInv, Settle
  PROVE  Counted'
<1>0. /\ IsFiniteSet(jobs) /\ worker.pc = "settle" /\ worker'.pc # "settle"
      /\ UNCHANGED <<push, live, jobs>> /\ live
  BY Zenon DEF Sound, TypeOK, Held, Settle, disk
<1>1. /\ Cur' = Cur /\ mem'[Cur].nextSeq = mem[Cur].nextSeq
      /\ mem'[Cur].pending = IF mem[Cur].pending = 0 THEN UsizeMax ELSE mem[Cur].pending - 1
  BY SettleFrame, Zenon
<1>2. Renaming' = Renaming
  BY <1>0, Zenon DEF Renaming
<1>3. NumbersUnique' /\ NumbersBelow'
  BY <1>0, <1>1, <1>2, Zenon DEF NumbersUnique, NumbersBelow, QueueInv
<1>4. PendingExact'
  <2>1. IsFiniteSet(Renaming)
    BY HubAssumption, FS_Subset, Zenon DEF Renaming
  <2>2. Cardinality(Renaming) \in Nat /\ Cardinality(jobs) \in Nat
    BY <1>0, <2>1, FS_CardinalityType, Zenon
  <2>3. mem[Cur].pending = Cardinality(jobs) + Cardinality(Renaming) + 1
    BY <1>0, Zenon DEF QueueInv, PendingExact, Renaming
  <2>4. mem'[Cur].pending = Cardinality(jobs) + Cardinality(Renaming) + 0
    BY <1>1, <2>2, <2>3
  <2>. QED  BY <1>0, <1>1, <1>2, <2>4, Zenon DEF PendingExact, Renaming
<1>. QED  BY <1>3, <1>4, Zenon DEF Counted

\* No step changes the depth without the jobs, or the jobs without the depth.
LEMMA NextQueue ==
  ASSUME Sound, SpoolInv, QueueInv, DistinctTargets, Busy, [Next]_vars
  PROVE  QueueInv'
<1>0. push \in [Pushers -> PushRec]
  BY Zenon DEF Sound, TypeOK
<1>u. CASE UNCHANGED vars
  BY <1>u, Zenon DEF vars, memory, disk, history, QueueInv, Attached, NumbersUnique,
              NumbersBelow, PendingExact, Renaming, Cur, Target
<1>n. CASE Next
  <2>1. worker'.pc # "exit"
    <3>1. ASSUME NEW p \in Pushers, ClientStep(p) \/ ThreadStep(p) \/ Lose(p)
          PROVE  UNCHANGED worker \/ Spawn
      BY <3>1, RequestFrame, Zenon
    <3>2. ASSUME WorkerStep PROVE worker'.pc # "exit"
      BY <3>2 DEF WorkerStep, Scan, Nudged, Exit, CommitBlob, PublishHead, Unlink,
                  Settle, Sound, TypeOK
    <3>3. ~IdleTimeout
      BY Zenon DEF IdleTimeout, Busy
    <3>4. Spawn => worker'.pc # "exit"
      BY DEF Spawn
    <3>5. UNCHANGED worker => worker'.pc # "exit"
      BY Zenon DEF QueueInv
    <3>6. Crash => Spawn
      BY Zenon DEF Crash
    <3>. QED  BY <1>n, <3>1, <3>2, <3>3, <3>4, <3>5, <3>6, Zenon DEF Next
  <2>2. \A q \in Pushers : Attached(q)'
    BY <1>n, NextAttached, Zenon
  <2>3. Counted'
    <3>1. CASE Crash
      <4>1. ASSUME NEW q \in Pushers PROVE push'[q].pc # "rename"
        <5>1. Broken(push[q]).pc \in {"failed", "query"}
          BY <1>0, ClientPoints, Zenon
        <5>. QED  BY <3>1, <5>1, Zenon DEF Crash
      <4>. QED  BY <3>1, <4>1, SpawnCounted, Zenon DEF Crash, Renaming, disk
    <3>2. ASSUME NEW p \in Pushers, ClientStep(p) \/ ThreadStep(p) \/ Lose(p), ~Crash
          PROVE  Counted'
      <4>1. CASE Rename(p)
        BY <4>1, RenameCounted, Zenon
      <4>2. CASE Enqueue(p) /\ ~UNCHANGED accepted
        BY <4>2, EnqueueCounted, Zenon
      <4>3. CASE ~Rename(p) /\ UNCHANGED accepted
        <5>1. UNCHANGED <<jobs, accepted>>
          BY <3>2, <4>3, RequestFrame, Zenon
        <5>2. push[p].pc # "rename" /\ push'[p].pc # "rename"
          <6>1. Enqueue(p) => push'[p].pc = "abandon"
            <7>1. ASSUME Enqueue(p) PROVE Refuse(p, 409) \/ Refuse(p, 429)
              BY <4>3, <7>1, AcceptGrows, Zenon
            <7>. QED  BY <1>0, <7>1 DEF Refuse, PushRec
          <6>. QED  BY <3>2, <4>3, <6>1, RenamingMoves, Zenon
        <5>3. \A q \in Pushers : q # p => push'[q] = push[q]
          BY <3>2, RenamingMoves, Zenon
        <5>4. Renaming' = Renaming /\ \A q \in Renaming : push'[q] = push[q]
          BY <5>2, <5>3, Zenon DEF Renaming
        <5>5. worker'.pc = "settle" <=> worker.pc = "settle"
          <6>1. UNCHANGED worker \/ (Spawn /\ ~live)
            BY <3>2, RequestFrame, Zenon
          <6>. QED  BY <6>1 DEF Spawn, Sound, Held
        <5>6. ~Settle
          BY <3>2, <5>5, RequestFrame DEF Settle, Sound, Held, Spawn
        <5>. QED  BY <1>n, <3>2, <5>1, <5>4, <5>5, <5>6, QuietStep, Zenon
      <4>. QED  BY <3>2, <4>1, <4>2, <4>3, RequestFrame, Zenon
    <3>3. CASE WorkerStep \/ IdleTimeout
      <4>1. CASE Unlink
        BY <4>1, UnlinkCounted, Zenon
      <4>2. CASE Settle
        BY <4>2, SettleCounted, Zenon
      <4>3. CASE (Scan \/ Nudged \/ CommitBlob \/ PublishHead) /\ ~Crash /\ ~Settle
        <5>1. /\ UNCHANGED <<push, jobs, accepted>>
              /\ worker.pc # "settle" /\ worker'.pc # "settle"
          BY <4>3 DEF Scan, Nudged, CommitBlob, PublishHead, disk, history, Sound, TypeOK
        <5>2. Renaming' = Renaming
          BY <5>1, Zenon DEF Renaming
        <5>. QED  BY <1>n, <4>3, <5>1, <5>2, QuietStep, Zenon
      <4>4. ~Exit /\ ~IdleTimeout
        BY Zenon DEF Exit, IdleTimeout, QueueInv, Busy
      <4>. QED  BY <3>1, <3>3, <4>1, <4>2, <4>3, <4>4, Zenon DEF WorkerStep
    <3>. QED  BY <1>n, <3>1, <3>2, <3>3, Zenon DEF Next
  <2>. QED  BY <2>1, <2>2, <2>3, Zenon DEF QueueInv, Counted
<1>. QED  BY <1>u, <1>n, Zenon

\* The depth max_queue_depth is compared with is exact, with crashes, broken
\* connections and refusals, as long as the worker does not go idle, no
\* reservation expires and no two clients publish the same commit: pending is
\* raised in finish_upload, recovered in repo_state and lowered by worker_loop.
\* (It is the idle exit and the expiry that lose or duplicate a count.)
THEOREM PendingAlwaysExact ==
  ASSUME DistinctTargets, Busy PROVE Spec => []PendingExact
<1>1. Init => Sound /\ SpoolInv /\ QueueInv
  <2>1. Init => QueueInv
    <3>. SUFFICES ASSUME Init PROVE QueueInv
      BY Zenon
    <3>1. \A p \in Pushers : push[p].pc = "query"
      BY Zenon DEF Init
    <3>2. jobs = {} /\ live = FALSE /\ worker.pc = "none"
      BY Zenon DEF Init
    <3>3. \A p \in Pushers : Attached(p)
      BY <3>1, Zenon DEF Attached
    <3>4. NumbersUnique /\ NumbersBelow
      BY <3>1, <3>2, Zenon DEF NumbersUnique, NumbersBelow, Renaming
    <3>. QED  BY <3>2, <3>3, <3>4, Zenon DEF QueueInv, PendingExact
  <2>. QED  BY <2>1, InitSpool, InitSound, Zenon
<1>2. Sound /\ SpoolInv /\ QueueInv /\ [Next]_vars => (Sound /\ SpoolInv /\ QueueInv)'
  BY NextSound, NextSpool, NextQueue, Zenon
<1>3. QueueInv => PendingExact
  BY Zenon DEF QueueInv
<1>. QED  BY <1>1, <1>2, <1>3, PTL DEF Spec
=============================================================================
