----------------------------- MODULE HubRegistry -----------------------------
(***************************************************************************)
(* One repository of the hub: `weave sync push` clients that upload a      *)
(* snapshot in chunks (sync.rs, client.rs), the threads that serve their   *)
(* requests (server.rs), the registry's in-memory state of the repository  *)
(* and the worker that drains its spool directory (registry.rs).           *)
(*                                                                         *)
(* On disk are the spool (<sha>.tmp while a snapshot is uploaded, one job  *)
(* file per accepted push), the store (one blob per commit) and HEAD.  The *)
(* in-memory state, and with it the worker, is created when the repository *)
(* is first touched and dropped when the worker has been idle for five     *)
(* minutes; a request thread may still hold the dropped one.  Snapshots    *)
(* are NChunks chunks long; chunk i of a commit is the number i.           *)
(*                                                                         *)
(* Env names what may happen around the code:                              *)
(*   "crash"  the registry process dies and is started again               *)
(*   "idle"   nothing is pushed for five minutes                           *)
(*   "lossy"  a connection breaks before the request or before the reply   *)
(*   "expire" an upload reservation gets fifteen minutes old               *)
(*   "rate"   the pushes of the last minute reach the cap                  *)
(***************************************************************************)
EXTENDS Integers, Sequences, FiniteSets

CONSTANTS Pushers,      \* the pushing clients
          Shas,         \* commit ids
          TargetOf,     \* the commit each client publishes
          BaseOf,       \* its last_indexed_sha, or None
          NChunks,      \* chunks of a snapshot
          MaxDepth,     \* RegistryConfig.max_queue_depth_per_repo
          Retention,    \* X-Weave-Retention
          MaxTries,     \* bound: tries after a broken connection (3)
          MaxAttempts,  \* bound: MAX_PUSH_ATTEMPTS (5)
          MaxStates,    \* bound: in-memory states over time
          UsizeMax,     \* bound: the largest usize
          Env,          \* see above
          None          \* no commit, no reply, no job

ASSUME HubAssumption ==
  /\ None \notin Shas
  /\ TargetOf \in [Pushers -> Shas]
  /\ BaseOf \in [Pushers -> Shas \cup {None}]
  /\ NChunks \in Nat \ {0} /\ MaxDepth \in Nat \ {0} /\ Retention \in Nat
  /\ MaxTries \in Nat /\ MaxAttempts \in Nat \ {0} /\ MaxStates \in Nat \ {0}
  /\ UsizeMax \in Nat
  /\ IsFiniteSet(Pushers)

VARIABLES
  push,       \* each client and the thread that serves its request
  mem,        \* the RepoStates created so far
  live,       \* is the last of them in Registry.repos?
  wake,       \* a nudge waits in its channel
  worker,     \* its worker thread
  tmp,        \* the chunks in <sha>.tmp; no chunk: no file
  jobs,       \* the job files [seq, sha, chunks]
  blobs,      \* the committed [sha, chunks], oldest first
  HEAD,       \* the persisted head
  accepted,   \* history: the pushes the conflict check let through, in order
  acked,      \* history: the commits whose push was answered 202 at its end
  committed   \* history: the commits HEAD has named

disk == <<tmp, jobs, blobs, HEAD>>
memory == <<mem, live, wake, worker>>
history == <<accepted, acked, committed>>
vars == <<push, memory, disk, history>>

Target(p) == TargetOf[p]
Cur == Len(mem)
Uploads == mem[Cur].uploads

Init ==
  /\ push = [p \in Pushers |->
               [pc |-> "query", base |-> BaseOf[p], offset |-> 0, tries |-> 0,
                attempts |-> 0, state |-> 0, reserved |-> FALSE, seq |-> 0,
                reply |-> None]]
  /\ mem = <<>> /\ live = FALSE /\ wake = FALSE
  /\ worker = [pc |-> "none", todo |-> {}]
  /\ tmp = [s \in Shas |-> <<>>] /\ jobs = {} /\ blobs = <<>> /\ HEAD = None
  /\ accepted = <<>> /\ acked = {} /\ committed = {}

\* The client once the thread that served its request is gone.
Alone(c) == [c EXCEPT !.state = 0, !.reserved = FALSE, !.seq = 0, !.reply = None]

Goto(p, pc) == push' = [push EXCEPT ![p].pc = pc]
Reply(p, status) == push' = [push EXCEPT ![p].pc = "reply", ![p].reply = status]

-----------------------------------------------------------------------------
(* weave sync push *)

\* The spooled length is asked for; with no spool file the offset stays.  A
\* spool that is already complete ends the loop: the client reports Accepted.
Query(p) ==
  /\ push[p].pc = "query"
  /\ LET n == Len(tmp[Target(p)])
         offset == IF n > 0 THEN n ELSE push[p].offset
     IN push' = [push EXCEPT ![p].offset = offset,
                             ![p].pc = IF offset >= NChunks THEN "accepted"
                                       ELSE IF offset = 0 THEN "begin"
                                       ELSE "spool"]
  /\ UNCHANGED <<memory, disk, history>>

Again(c) == [c EXCEPT !.pc = "query", !.offset = 0, !.tries = 0]

\* push_with_backoff starts over after a 429.
Backoff(c) ==
  IF c.attempts + 1 >= MaxAttempts THEN [c EXCEPT !.pc = "limited"]
  ELSE [Again(c) EXCEPT !.attempts = @ + 1]

\* cmd_sync_push answers a conflict by publishing without a base.
Republish(c) ==
  IF c.base = None THEN [c EXCEPT !.pc = "conflict"]
  ELSE [Again(c) EXCEPT !.base = None, !.attempts = 0]

\* push_chunks looks at the status of a PUT.
Receive(p) ==
  /\ push[p].pc = "reply"
  /\ LET status == push[p].reply
         c == Alone(push[p])
     IN push' = [push EXCEPT ![p] =
          CASE status = 202 ->
                 [c EXCEPT !.offset = @ + 1, !.tries = 0,
                           !.pc = IF c.offset + 1 >= NChunks THEN "accepted"
                                  ELSE "spool"]
            [] status = 429 -> Backoff(c)
            [] status = 409 -> Republish(c)
            [] status = 500 -> [c EXCEPT !.pc = "failed"]]
  /\ UNCHANGED <<memory, disk, history>>

\* What a client makes of a broken connection.
Broken(c) ==
  IF c.tries >= MaxTries THEN [Alone(c) EXCEPT !.pc = "failed"]
  ELSE [Alone(c) EXCEPT !.pc = "query", !.tries = @ + 1]

\* The connection breaks before the request arrives or before the reply does.
Lose(p) ==
  /\ "lossy" \in Env
  /\ \/ push[p].pc \in {"begin", "reply"}
     \/ push[p].pc = "spool" /\ push[p].offset > 0
  /\ push' = [push EXCEPT ![p] = Broken(push[p])]
  /\ UNCHANGED <<memory, disk, history>>

-----------------------------------------------------------------------------
(* Registry: the state of the repository *)

\* repo_state: what is recovered from HEAD and the leftover jobs.
Recovered ==
  [head |-> HEAD, pending |-> Cardinality(jobs), uploads |-> {},
   nextSeq |-> IF jobs = {} THEN 0
               ELSE 1 + CHOOSE n \in {j.seq : j \in jobs} :
                          \A j \in jobs : j.seq <= n]

Spawn ==
  /\ Cur < MaxStates
  /\ mem' = Append(mem, Recovered)
  /\ live' = TRUE /\ wake' = FALSE
  /\ worker' = [pc |-> "scan", todo |-> {}]

RepoState == IF live THEN UNCHANGED memory ELSE Spawn

-----------------------------------------------------------------------------
(* Registry: PUT of a chunk *)

Conflicts(head, base) == base # None /\ head # None /\ head # base

\* begin_upload gets the state of the repository.
Begin(p) ==
  /\ push[p].pc = "begin"
  /\ RepoState
  /\ push' = [push EXCEPT ![p].pc = "check", ![p].state = Len(mem')]
  /\ UNCHANGED <<disk, history>>

\* expire_uploads, then the first look at the head.
Check(p) ==
  /\ push[p].pc = "check"
  /\ \E expired \in SUBSET mem[push[p].state].uploads :
       LET m == mem[push[p].state]
           left == m.uploads \ expired
       IN /\ expired # {} => "expire" \in Env
          /\ mem' = [mem EXCEPT ![push[p].state].uploads = left]
          /\ tmp' = [s \in Shas |-> IF s \in expired THEN <<>> ELSE tmp[s]]
          /\ IF Target(p) \in left THEN Goto(p, "spool")
             ELSE IF m.pending + Cardinality(left) >= MaxDepth THEN Reply(p, 429)
             ELSE IF Conflicts(m.head, push[p].base) THEN Reply(p, 409)
             ELSE Goto(p, "reserve")
  /\ UNCHANGED <<live, wake, worker, jobs, blobs, HEAD, history>>

\* The rate cap, then the second look and the reservation.
Reserve(p) ==
  /\ push[p].pc = "reserve"
  /\ LET m == mem[push[p].state]
         full == m.pending + Cardinality(m.uploads) >= MaxDepth
         stale == Conflicts(m.head, push[p].base)
     IN \/ "rate" \in Env /\ Reply(p, 429) /\ UNCHANGED mem
        \/ full /\ Reply(p, 429) /\ UNCHANGED mem
        \/ ~full /\ stale /\ Reply(p, 409) /\ UNCHANGED mem
        \/ /\ ~full /\ ~stale
           /\ mem' = [mem EXCEPT ![push[p].state].uploads = @ \cup {Target(p)}]
           /\ Goto(p, "spool")
  /\ UNCHANGED <<live, wake, worker, disk, history>>

\* Mutant form: a chunk is appended wherever the spool ends.
SpoolAnywhere(p) ==
  /\ push[p].pc = "spool"
  /\ LET s == Target(p)
         i == push[p].offset
     IN /\ tmp' = [tmp EXCEPT ![s] = Append(IF i = 0 THEN <<>> ELSE @, i + 1)]
        /\ IF i + 1 >= NChunks THEN Goto(p, "take") ELSE Reply(p, 202)
  /\ UNCHANGED <<memory, jobs, blobs, HEAD, history>>

\* spool_chunk: the first chunk truncates, a later one must continue where
\* the spool ends.
Spool(p) ==
  /\ push[p].pc = "spool"
  /\ LET s == Target(p)
         i == push[p].offset
     IN IF i # 0 /\ Len(tmp[s]) # i
        THEN /\ push' = [push EXCEPT ![p].pc = "abandon", ![p].reply = 500]
             /\ UNCHANGED tmp
        ELSE /\ tmp' = [tmp EXCEPT ![s] = Append(IF i = 0 THEN <<>> ELSE @, i + 1)]
             /\ IF i + 1 >= NChunks THEN Goto(p, "take") ELSE Reply(p, 202)
  /\ UNCHANGED <<memory, jobs, blobs, HEAD, history>>

\* abandon_upload, and the answer that was decided before.
Abandon(p) ==
  /\ push[p].pc = "abandon"
  /\ mem' = IF live THEN [mem EXCEPT ![Cur].uploads = @ \ {Target(p)}] ELSE mem
  /\ tmp' = [tmp EXCEPT ![Target(p)] = <<>>]
  /\ Goto(p, "reply")
  /\ UNCHANGED <<live, wake, worker, jobs, blobs, HEAD, history>>

-----------------------------------------------------------------------------
(* Registry: push_complete after the last chunk *)

\* take_upload_reservation and repo_state.
Take(p) ==
  /\ push[p].pc = "take"
  /\ LET reserved == live /\ Target(p) \in Uploads IN
     /\ IF live
        THEN /\ mem' = [mem EXCEPT ![Cur].uploads = @ \ {Target(p)}]
             /\ UNCHANGED <<live, wake, worker>>
        ELSE Spawn
     /\ push' = [push EXCEPT ![p].pc = "enqueue", ![p].reserved = reserved,
                             ![p].state = Len(mem')]
  /\ UNCHANGED <<disk, history>>

Refuse(p, status) ==
  /\ push' = [push EXCEPT ![p].pc = "abandon", ![p].reply = status]
  /\ UNCHANGED <<mem, accepted>>

\* What an accepted push makes of the state.
Advanced(m, s) == [m EXCEPT !.nextSeq = @ + 1, !.pending = @ + 1, !.head = s]

\* Mutant form: the conflict is only looked for when the upload begins.
EnqueueUnchecked(p) ==
  /\ push[p].pc = "enqueue"
  /\ LET m == mem[push[p].state] IN
     \/ ~push[p].reserved /\ "rate" \in Env /\ Refuse(p, 429)
     \/ m.pending >= MaxDepth /\ Refuse(p, 429)
     \/ /\ m.pending < MaxDepth
        /\ mem' = [mem EXCEPT ![push[p].state] = Advanced(@, Target(p))]
        /\ accepted' = Append(accepted, [sha |-> Target(p), base |-> push[p].base])
        /\ push' = [push EXCEPT ![p].pc = "rename", ![p].seq = m.nextSeq]
  /\ UNCHANGED <<live, wake, worker, disk, acked, committed>>

\* Mutant form: the queue is not counted.
EnqueueUncounted(p) ==
  /\ push[p].pc = "enqueue"
  /\ LET m == mem[push[p].state] IN
     /\ mem' = [mem EXCEPT ![push[p].state] =
                  [@ EXCEPT !.nextSeq = @ + 1, !.head = Target(p)]]
     /\ accepted' = Append(accepted, [sha |-> Target(p), base |-> push[p].base])
     /\ push' = [push EXCEPT ![p].pc = "rename", ![p].seq = m.nextSeq]
  /\ UNCHANGED <<live, wake, worker, disk, acked, committed>>

\* finish_upload under the head lock.
Enqueue(p) ==
  /\ push[p].pc = "enqueue"
  /\ LET m == mem[push[p].state]
         full == m.pending >= MaxDepth
         stale == Conflicts(m.head, push[p].base)
     IN \/ ~push[p].reserved /\ "rate" \in Env /\ Refuse(p, 429)
        \/ full /\ Refuse(p, 429)
        \/ ~full /\ stale /\ Refuse(p, 409)
        \/ /\ ~full /\ ~stale
           /\ mem' = [mem EXCEPT ![push[p].state] = Advanced(@, Target(p))]
           /\ accepted' = Append(accepted,
                                 [sha |-> Target(p), base |-> push[p].base])
           /\ push' = [push EXCEPT ![p].pc = "rename", ![p].seq = m.nextSeq]
  /\ UNCHANGED <<live, wake, worker, disk, acked, committed>>

\* Mutant form: the worker is not nudged.
RenameWithoutNudge(p) ==
  /\ push[p].pc = "rename"
  /\ LET s == Target(p)
         seq == push[p].seq
     IN IF tmp[s] = <<>>
        THEN /\ push' = [push EXCEPT ![p].pc = "abandon", ![p].reply = 500]
             /\ UNCHANGED <<tmp, jobs, wake, acked>>
        ELSE /\ jobs' = {j \in jobs : <<j.seq, j.sha>> # <<seq, s>>}
                        \cup {[seq |-> seq, sha |-> s, chunks |-> tmp[s]]}
             /\ tmp' = [tmp EXCEPT ![s] = <<>>]
             /\ UNCHANGED wake
             /\ acked' = acked \cup {s}
             /\ Reply(p, 202)
  /\ UNCHANGED <<mem, live, worker, blobs, HEAD, accepted, committed>>

\* The spooled file becomes a job file, after the head lock was released; the
\* state's worker is nudged.  Without a spooled file the push ends in an
\* error and what the lock protected stays advanced.
Rename(p) ==
  /\ push[p].pc = "rename"
  /\ LET s == Target(p)
         seq == push[p].seq
     IN IF tmp[s] = <<>>
        THEN /\ push' = [push EXCEPT ![p].pc = "abandon", ![p].reply = 500]
             /\ UNCHANGED <<tmp, jobs, wake, acked>>
        ELSE /\ jobs' = {j \in jobs : <<j.seq, j.sha>> # <<seq, s>>}
                        \cup {[seq |-> seq, sha |-> s, chunks |-> tmp[s]]}
             /\ tmp' = [tmp EXCEPT ![s] = <<>>]
             /\ wake' = (wake \/ (live /\ push[p].state = Cur))
             /\ acked' = acked \cup {s}
             /\ Reply(p, 202)
  /\ UNCHANGED <<mem, live, worker, blobs, HEAD, accepted, committed>>

-----------------------------------------------------------------------------
(* worker_loop *)

\* leftover_jobs, or the wait for a nudge.
Scan ==
  /\ worker.pc = "scan"
  /\ worker' = IF jobs = {} THEN [worker EXCEPT !.pc = "wait"]
               ELSE [pc |-> "commit", todo |-> {<<j.seq, j.sha>> : j \in jobs}]
  /\ UNCHANGED <<push, mem, live, wake, disk, history>>

Nudged ==
  /\ worker.pc = "wait" /\ wake
  /\ wake' = FALSE
  /\ worker' = [worker EXCEPT !.pc = "scan"]
  /\ UNCHANGED <<push, mem, live, disk, history>>

\* recv_timeout gives up.
IdleTimeout ==
  /\ "idle" \in Env
  /\ worker.pc = "wait" /\ ~wake
  /\ worker' = [worker EXCEPT !.pc = "exit"]
  /\ UNCHANGED <<push, mem, live, wake, disk, history>>

\* The state is taken out of the table and the worker ends.
Exit ==
  /\ worker.pc = "exit"
  /\ live' = FALSE /\ wake' = FALSE
  /\ worker' = [pc |-> "none", todo |-> {}]
  /\ UNCHANGED <<push, mem, disk, history>>

\* The first job of the scan.
Current ==
  CHOOSE k \in worker.todo : \A l \in worker.todo : k[1] <= l[1]
CurrentJob == CHOOSE j \in jobs : <<j.seq, j.sha>> = Current

\* The blobs without that of a commit; a commit has at most one.
Without(bs, s) ==
  IF \E i \in 1..Len(bs) : bs[i].sha = s
  THEN LET i == CHOOSE k \in 1..Len(bs) : bs[k].sha = s
       IN SubSeq(bs, 1, i - 1) \o SubSeq(bs, i + 1, Len(bs))
  ELSE bs

\* Mutant form: the job file is removed first.
CommitUnlinked ==
  /\ worker.pc = "commit"
  /\ LET s == Current[2] IN
     blobs' = Append(Without(blobs, s),
                     [sha |-> s, chunks |-> CurrentJob.chunks])
  /\ jobs' = jobs \ {CurrentJob}
  /\ worker' = [worker EXCEPT !.pc = "publish"]
  /\ UNCHANGED <<push, mem, live, wake, tmp, HEAD, history>>

\* commit_job: the blob is written and renamed into place.
CommitBlob ==
  /\ worker.pc = "commit"
  /\ LET s == Current[2] IN
     blobs' = Append(Without(blobs, s),
                     [sha |-> s, chunks |-> CurrentJob.chunks])
  /\ worker' = [worker EXCEPT !.pc = "publish"]
  /\ UNCHANGED <<push, mem, live, wake, tmp, jobs, HEAD, history>>

\* Mutant form: the newest blobs are pruned.
PruneRetentionNewest(bs) ==
  IF Len(bs) > Retention THEN SubSeq(bs, 1, Retention) ELSE bs

\* prune_retention keeps the most recently written blobs.
PruneRetention(bs) ==
  IF Len(bs) > Retention THEN SubSeq(bs, Len(bs) - Retention + 1, Len(bs))
  ELSE bs

\* commit_job: HEAD, then the pruning.
PublishHead ==
  /\ worker.pc = "publish"
  /\ HEAD' = Current[2]
  /\ blobs' = PruneRetention(blobs)
  /\ committed' = committed \cup {Current[2]}
  /\ worker' = [worker EXCEPT !.pc = "unlink"]
  /\ UNCHANGED <<push, mem, live, wake, tmp, jobs, accepted, acked>>

Unlink ==
  /\ worker.pc = "unlink"
  /\ jobs' = {j \in jobs : <<j.seq, j.sha>> # Current}
  /\ worker' = [worker EXCEPT !.pc = "settle"]
  /\ UNCHANGED <<push, mem, live, wake, tmp, blobs, HEAD, history>>

\* head.pending -= 1 on a usize.
Settle ==
  /\ worker.pc = "settle"
  /\ mem' = [mem EXCEPT ![Cur].pending = IF @ = 0 THEN UsizeMax ELSE @ - 1]
  /\ LET todo == worker.todo \ {Current} IN
     worker' = [pc |-> IF todo = {} THEN "scan" ELSE "commit", todo |-> todo]
  /\ UNCHANGED <<push, live, wake, disk, history>>

-----------------------------------------------------------------------------
\* The process dies and Registry::open runs again: the spool directory is
\* there, so the repository is touched at once.  Every request breaks.
Crash ==
  /\ "crash" \in Env
  /\ mem # <<>>
  /\ Spawn
  /\ push' = [p \in Pushers |->
                IF push[p].pc \in {"query", "accepted", "limited", "conflict",
                                   "failed"}
                THEN push[p] ELSE Broken(push[p])]
  /\ UNCHANGED <<disk, history>>

ClientStep(p) == Query(p) \/ Receive(p)

ThreadStep(p) ==
  \/ Begin(p) \/ Check(p) \/ Reserve(p) \/ Spool(p) \/ Abandon(p)
  \/ Take(p) \/ Enqueue(p) \/ Rename(p)

WorkerStep ==
  \/ Scan \/ Nudged \/ Exit \/ CommitBlob \/ PublishHead \/ Unlink \/ Settle

Next ==
  \/ \E p \in Pushers : ClientStep(p) \/ ThreadStep(p) \/ Lose(p)
  \/ WorkerStep \/ IdleTimeout
  \/ Crash

Spec == Init /\ [][Next]_vars

\* Threads that can run do run; nobody has to crash, idle or lose anything.
FairSpec ==
  /\ Spec
  /\ WF_vars(WorkerStep)
  /\ \A p \in Pushers : WF_vars(ClientStep(p) \/ ThreadStep(p))

-----------------------------------------------------------------------------
(* Properties *)

Whole == [i \in 1..NChunks |-> i]

\* A push answered 202 is on disk from then on: as a job file until HEAD has
\* named it, whatever crashes or times out in between.
AckedKept ==
  \A s \in acked : s \in committed \/ \E j \in jobs : j.sha = s

\* HEAD never names a commit whose blob is missing, so a pull of "latest"
\* that reads both at once finds it.
HeadServed ==
  HEAD # None => \E i \in 1..Len(blobs) : blobs[i].sha = HEAD

\* Resumed and repeated uploads never leave a job or a blob with a chunk
\* missing, repeated or out of place: only a complete upload is enqueued.
BlobsWhole ==
  /\ \A i \in 1..Len(blobs) : blobs[i].chunks = Whole
  /\ \A j \in jobs : j.chunks = Whole

\* The queue depth the watermark is compared with counts the jobs on disk,
\* the accepted pushes about to be renamed and the job being settled.
PendingExact ==
  live => mem[Cur].pending =
            Cardinality(jobs)
            + Cardinality({p \in Pushers : push[p].pc = "rename"})
            + (IF worker.pc = "settle" THEN 1 ELSE 0)

\* Each accepted push was built on the one accepted before it, or was sent
\* without a base; what is served as latest was accepted.
History == INSTANCE RepoHistory WITH latest <- HEAD
RefinesHistory == History!Spec

\* A push answered 202 is served some time.
AckedIsCommitted == \A s \in Shas : s \in acked ~> s \in committed
=============================================================================
