------------------------------ MODULE ReadProofs ------------------------------
(***************************************************************************)
(* What is read from the outside.  The promises of the hub's front, for    *)
(* any number of clients, repositories and pushes, wherever the process    *)
(* dies: the count of connections, the stored signatures and the           *)
(* notifications.  And what the module report rests on, for every          *)
(* repository: a clustering that ends is locally optimal, since a sweep in *)
(* which nothing moved has seen every file in the final partition, the     *)
(* files before its cursor being where they want to be and nothing they    *)
(* depend on having changed; a report is a set of sheets with different    *)
(* names, each of them still to be written or on the disk.                 *)
(***************************************************************************)
EXTENDS HubFront, RepoModules, FiniteSetTheorems, SequenceTheorems,
        WellFoundedInduction, TLAPS

-----------------------------------------------------------------------------
(* HubFront: the threads.                                                  *)

Reads == {"latest", "blob", "sig"}
Threads == {c \in Clients : conns[c].pc # "none"}

\* What is known of the thread of a client: the request it serves is one of the
\* requests there are, and only what reads a snapshot is read by the steps of pull.
ThreadOK(c) ==
    /\ DOMAIN conns[c] = DOMAIN NoThread
    /\ conns[c].pc # "none" => conns[c].req \in hubSetup.requests
    /\ conns[c].pc \in Reads => conns[c].req.route \in {"pull", "canvas", "mesh"}

ConnsOK ==
    /\ hubSetup \in HubSetups
    /\ DOMAIN conns = Clients
    /\ \A c \in Clients : ThreadOK(c)
    /\ refusing # Nothing => refusing \in Clients

SlotsInv == ConnsOK /\ SlotsAreReturned

\* A client's thread goes on or ends.
GoesOn(c, t) ==
    /\ Goes(c, t)
    /\ DOMAIN t = DOMAIN NoThread /\ t.pc # "none" /\ t.req = conns[c].req
    /\ t.pc \in Reads => t.req.route \in {"pull", "canvas", "mesh"}
EndsNow(c) == \E reply : Ends(c, reply)
Served(c) ==
    /\ conns[c].pc # "none"
    /\ EndsNow(c) \/ (UNCHANGED active /\ \E t : conns' = [conns EXCEPT ![c] = t]
                        /\ DOMAIN t = DOMAIN NoThread /\ t.pc # "none" /\ t.req = conns[c].req
                        /\ (t.pc \in Reads => t.req.route \in {"pull", "canvas", "mesh"}))

\* The fields of a connection without a thread.
LEMMA NoThreadIs == NoThread.pc = "none" /\ "pc" \in DOMAIN NoThread
                    /\ "req" \in DOMAIN NoThread /\ "answer" \in DOMAIN NoThread
BY Zenon DEF NoThread

\* A thread that goes on holds its slot.
LEMMA GoesServed ==
  ASSUME NEW c \in Clients, conns[c].pc # "none", NEW t, GoesOn(c, t) PROVE Served(c)
BY Zenon DEF GoesOn, Goes, Served

\* One that replies gives it back, once.
LEMMA RepliesServed ==
  ASSUME NEW c \in Clients, conns[c].pc # "none", NEW reply, Replies(c, reply) PROVE Served(c)
BY Zenon DEF Replies, Served, EndsNow

\* A response that is sent in parts, likewise.
LEMMA NextBandServed ==
  ASSUME NEW c \in Clients, ThreadOK(c), conns[c].pc \in Reads, NEW bands, NextBand(c, bands)
  PROVE  Served(c)
<1>0. conns[c].pc # "none"
  BY Zenon DEF Reads
<1>1. CASE Len(conns[c].todo) = 1
  BY <1>0, <1>1, RepliesServed, Zenon DEF NextBand
<1>2. CASE Len(conns[c].todo) # 1
  <2>. DEFINE t == [conns[c] EXCEPT !.pc = "latest", !.todo = Tail(@), !.bands = bands]
  <2>1. Goes(c, t)
    BY <1>2, Zenon DEF NextBand
  <2>2. DOMAIN t = DOMAIN NoThread /\ t.pc = "latest" /\ t.req = conns[c].req
    BY NoThreadIs, Zenon DEF ThreadOK
  <2>. HIDE DEF t
  <2>. QED  BY <1>0, <2>1, <2>2, GoesServed, Zenon DEF GoesOn, ThreadOK
<1>. QED  BY <1>1, <1>2, Zenon

\* What is not there is answered, too.
LEMMA MissingServed ==
  ASSUME NEW c \in Clients, ThreadOK(c), conns[c].pc \in Reads, Missing(c)
  PROVE  Served(c)
<1>1. CASE conns[c].req.route = "mesh"
  BY <1>1, NextBandServed, Zenon DEF Missing
<1>2. CASE conns[c].req.route # "mesh"
  BY <1>2, RepliesServed, Zenon DEF Missing, Reads
<1>. QED  BY <1>1, <1>2, Zenon

\* So every step of a thread keeps its slot or gives it back.
LEMMA ServeServed ==
  ASSUME NEW c \in Clients, ConnsOK, Serve(c)
  PROVE  Served(c)
<1>0. ThreadOK(c) /\ \A req \in hubSetup.requests : req.route \in Routes
  BY FrontAssumption, Zenon DEF ConnsOK
<1>1. CASE Drops(c)
  BY <1>1, RepliesServed, Zenon DEF Drops
<1>2. CASE Route(c)
  <2>. DEFINE req == conns[c].req
              at(pc, todo) == [conns[c] EXCEPT !.pc = pc, !.todo = todo, !.sha = req.sha]
  <2>0. conns[c].pc = "head" /\ conns[c].pc # "none"
    BY <1>2, Zenon DEF Route
  <2>1. req.route \in Routes
    BY <1>0, <2>0, Zenon DEF ThreadOK
  <2>2. \/ \E reply : Replies(c, reply)
        \/ \E pc \in {"resolve", "latest", "blob"} : \E todo :
             /\ Goes(c, at(pc, todo))
             /\ pc # "resolve" => req.route \in {"pull", "canvas", "mesh"}
    BY <1>2, <2>1, ZenonT(60) DEF Route, Routes
  <2>3. \A pc, todo : /\ DOMAIN at(pc, todo) = DOMAIN NoThread
                      /\ at(pc, todo).pc = pc /\ at(pc, todo).req = conns[c].req
    BY <1>0, NoThreadIs, Zenon DEF ThreadOK
  <2>4. ASSUME NEW pc \in {"resolve", "latest", "blob"}, NEW todo, Goes(c, at(pc, todo)),
               pc # "resolve" => req.route \in {"pull", "canvas", "mesh"}
        PROVE  GoesOn(c, at(pc, todo))
    BY <2>3, <2>4 DEF GoesOn, Reads
  <2>. HIDE DEF at
  <2>. QED  BY <2>0, <2>2, <2>4, RepliesServed, GoesServed, Zenon
<1>3. CASE ReadHead(c)
  <2>. DEFINE t == [conns[c] EXCEPT !.pc = "blob", !.sha = store[Repo(c)].head]
  <2>1. conns[c].pc = "latest" /\ (Missing(c) \/ Goes(c, t))
    BY <1>3, Zenon DEF ReadHead
  <2>2. DOMAIN t = DOMAIN NoThread /\ t.pc = "blob" /\ t.req = conns[c].req
    BY <1>0, NoThreadIs, Zenon DEF ThreadOK
  <2>. HIDE DEF t
  <2>. QED  BY <1>0, <2>1, <2>2, MissingServed, GoesServed, Zenon DEF GoesOn, ThreadOK, Reads
<1>4. CASE ReadBlob(c)
  <2>. DEFINE t(b) == [conns[c] EXCEPT !.pc = "sig", !.bytes = b.bytes]
  <2>1. conns[c].pc = "blob" /\ (Missing(c) \/ \E b : Goes(c, t(b)))
    BY <1>4, Zenon DEF ReadBlob
  <2>2. \A b : DOMAIN t(b) = DOMAIN NoThread /\ t(b).pc = "sig" /\ t(b).req = conns[c].req
    BY <1>0, NoThreadIs, Zenon DEF ThreadOK
  <2>. HIDE DEF t
  <2>. QED  BY <1>0, <2>1, <2>2, MissingServed, GoesServed, Zenon DEF GoesOn, ThreadOK, Reads
<1>5. CASE ReadSig(c)
  <2>1. conns[c].pc = "sig" /\ conns[c].req.route \in {"pull", "canvas", "mesh"}
    BY <1>0, <1>5, Zenon DEF ReadSig, ThreadOK, Reads
  <2>2. (\E reply : Replies(c, reply)) \/ (\E bands : NextBand(c, bands))
    BY <1>5, <2>1, ZenonT(60) DEF ReadSig
  <2>. QED  BY <1>0, <2>1, <2>2, RepliesServed, NextBandServed, Zenon DEF Reads
<1>6. CASE ResolveUrl(c)
  <2>. DEFINE t == [conns[c] EXCEPT !.pc = "write"]
  <2>0. conns[c].pc # "none"
    BY <1>6, Zenon DEF ResolveUrl
  <2>1. (\E reply : Ends(c, reply)) \/ Goes(c, t)
    BY <1>6, ZenonT(60) DEF ResolveUrl, Replies
  <2>2. DOMAIN t = DOMAIN NoThread /\ t.pc = "write" /\ t.req = conns[c].req
    BY <1>0, NoThreadIs, Zenon DEF ThreadOK
  <2>. HIDE DEF t
  <2>3. Goes(c, t) => GoesOn(c, t)
    BY <2>2, Zenon DEF GoesOn, Reads
  <2>. QED  BY <2>0, <2>1, <2>3, GoesServed, Zenon DEF Served, EndsNow
<1>7. CASE WriteHook(c)
  <2>. DEFINE t == [conns[c] EXCEPT !.pc = "rename"]
  <2>1. conns[c].pc = "write" /\ conns' = [conns EXCEPT ![c] = t] /\ UNCHANGED active
    BY <1>7, Zenon DEF WriteHook, ConnsOK
  <2>2. DOMAIN t = DOMAIN NoThread /\ t.pc = "rename" /\ t.req = conns[c].req
    BY <1>0, NoThreadIs, Zenon DEF ThreadOK
  <2>. HIDE DEF t
  <2>. QED  BY <2>1, <2>2, Zenon DEF Served, Reads
<1>8. CASE RenameHook(c)
  BY <1>8, RepliesServed, Zenon DEF RenameHook, Served, EndsNow
<1>. QED  BY <1>1, <1>2, <1>3, <1>4, <1>5, <1>6, <1>7, <1>8, Zenon DEF Serve

-----------------------------------------------------------------------------
(* HubFront: connections.                                                  *)

\* Only the threads, the accept loop and a crash move the count.
LEMMA FrontFrame ==
  ASSUME FrontStep
  PROVE  /\ UNCHANGED hubSetup
         /\ \/ \E c \in Clients : Serve(c)
            \/ \E c \in Clients : \E req \in hubSetup.requests : Accept(c, req)
            \/ Refuse \/ FrontCrash \/ UNCHANGED <<conns, active, refusing>>
<1>1. ASSUME NEW r \in Repos, FrontWork(r)
      PROVE  UNCHANGED <<hubSetup, conns, active, refusing>>
  BY <1>1, Zenon DEF FrontWork, Push, CommitBlob, CommitSig, PublishHead, PruneBlob, PruneSig,
              UnlinkJob, Notify, Work, loopVars
<1>2. DnsTurns => UNCHANGED <<hubSetup, conns, active, refusing>>
  BY Zenon DEF DnsTurns
<1>3. ASSUME (\E c \in Clients : Serve(c) \/ \E req \in hubSetup.requests : Accept(c, req))
             \/ Refuse \/ FrontCrash
      PROVE  UNCHANGED hubSetup
  BY <1>3, Zenon DEF Serve, Accept, Refuse, FrontCrash
<1>. QED  BY <1>1, <1>2, <1>3, Zenon DEF FrontStep

\* No step loses or duplicates a slot.
LEMMA NextSlots == SlotsInv /\ [FrontStep]_frontVars => SlotsInv'
<1>. SUFFICES ASSUME SlotsInv, [FrontStep]_frontVars PROVE SlotsInv'
  BY Zenon
<1>0. /\ IsFiniteSet(Threads) /\ Cardinality(Threads) \in Nat /\ hubSetup.slots \in Nat
      /\ active = Cardinality(Threads) + (IF refusing = Nothing THEN 0 ELSE 1)
      /\ Cardinality(Threads) <= hubSetup.slots /\ active \in Nat
  <2>1. IsFiniteSet(Threads)
    BY FrontAssumption, FS_Subset, Zenon DEF Threads
  <2>2. Cardinality(Threads) \in Nat /\ hubSetup.slots \in Nat
    BY <2>1, FS_CardinalityType, FrontAssumption, Zenon DEF SlotsInv, ConnsOK
  <2>3. /\ active = Cardinality(Threads) + (IF refusing = Nothing THEN 0 ELSE 1)
        /\ Cardinality(Threads) <= hubSetup.slots
    BY Zenon DEF SlotsInv, SlotsAreReturned, Threads
  <2>. QED  BY <2>1, <2>2, <2>3
<1>u. ASSUME UNCHANGED <<hubSetup, conns, active, refusing>> PROVE SlotsInv'
  BY <1>u, Zenon DEF SlotsInv, ConnsOK, ThreadOK, SlotsAreReturned
<1>a. ASSUME ConnsOK', hubSetup' = hubSetup,
             active' = Cardinality(Threads') + (IF refusing' = Nothing THEN 0 ELSE 1),
             Cardinality(Threads') <= hubSetup.slots
      PROVE  SlotsInv'
  BY <1>a, Zenon DEF SlotsInv, SlotsAreReturned, Threads
<1>1. ASSUME NEW c \in Clients, Serve(c), UNCHANGED hubSetup PROVE SlotsInv'
  <2>1. Served(c) /\ UNCHANGED refusing /\ c \in Threads
    BY <1>1, ServeServed, Zenon DEF Serve, SlotsInv, Served, Threads
  <2>2. CASE EndsNow(c)
    <3>1. PICK reply : Ends(c, reply)
      BY <2>2, Zenon DEF EndsNow
    <3>. DEFINE t == [NoThread EXCEPT !.answer = reply]
    <3>2. DOMAIN t = DOMAIN NoThread /\ t.pc = "none"
      BY NoThreadIs, Zenon
    <3>3. conns' = [conns EXCEPT ![c] = t] /\ active' = active - 1
      BY <3>1, Zenon DEF Ends
    <3>. HIDE DEF t
    <3>4. /\ DOMAIN conns' = Clients /\ conns'[c] = t
          /\ \A d \in Clients : d # c => conns'[d] = conns[d]
      BY <3>3, Zenon DEF SlotsInv, ConnsOK
    <3>5. ConnsOK'
      BY <1>1, <2>1, <3>2, <3>4, Zenon DEF SlotsInv, ConnsOK, ThreadOK, Reads
    <3>6. Threads' = Threads \ {c}
      BY <3>2, <3>4, Zenon DEF Threads
    <3>7. Cardinality(Threads') = Cardinality(Threads) - 1
      BY <1>0, <2>1, <3>6, FS_RemoveElement, Zenon
    <3>. QED  BY <1>0, <1>1, <1>a, <2>1, <3>3, <3>5, <3>7
  <2>3. CASE ~EndsNow(c)
    <3>1. PICK t : /\ conns' = [conns EXCEPT ![c] = t]
                   /\ DOMAIN t = DOMAIN NoThread /\ t.pc # "none" /\ t.req = conns[c].req
                   /\ (t.pc \in Reads => t.req.route \in {"pull", "canvas", "mesh"})
      BY <2>1, <2>3, Zenon DEF Served
    <3>2. UNCHANGED active
      BY <2>1, <2>3, Zenon DEF Served
    <3>4. /\ DOMAIN conns' = Clients /\ conns'[c] = t
          /\ \A d \in Clients : d # c => conns'[d] = conns[d]
      BY <3>1, Zenon DEF SlotsInv, ConnsOK
    <3>5. ConnsOK'
      BY <1>1, <2>1, <3>1, <3>4, Zenon DEF SlotsInv, ConnsOK, ThreadOK, Served
    <3>6. Threads' = Threads
      BY <2>1, <3>1, <3>4, Zenon DEF Threads
    <3>. QED  BY <1>0, <1>1, <1>a, <2>1, <3>2, <3>5, <3>6, Zenon
  <2>. QED  BY <2>2, <2>3, Zenon
<1>2. ASSUME NEW c \in Clients, NEW req \in hubSetup.requests, Accept(c, req), UNCHANGED hubSetup
      PROVE  SlotsInv'
  <2>1. refusing = Nothing /\ conns[c].pc = "none" /\ active' = active + 1
    BY <1>2, Zenon DEF Accept
  <2>2. CASE active >= hubSetup.slots
    <3>1. refusing' = c /\ c # Nothing /\ UNCHANGED conns
      BY <1>2, <2>2, FrontAssumption, Zenon DEF Accept
    <3>2. ConnsOK' /\ Threads' = Threads
      BY <1>2, <3>1, Zenon DEF SlotsInv, ConnsOK, ThreadOK, Threads
    <3>. QED  BY <1>0, <1>2, <1>a, <2>1, <3>1, <3>2
  <2>3. CASE ~(active >= hubSetup.slots)
    <3>. DEFINE t == [NoThread EXCEPT !.pc = "head", !.req = req]
    <3>1. conns' = [conns EXCEPT ![c] = t] /\ UNCHANGED refusing
      BY <1>2, <2>3, Zenon DEF Accept
    <3>2. DOMAIN t = DOMAIN NoThread /\ t.pc = "head" /\ t.req = req
      BY NoThreadIs, Zenon
    <3>. HIDE DEF t
    <3>4. /\ DOMAIN conns' = Clients /\ conns'[c] = t
          /\ \A d \in Clients : d # c => conns'[d] = conns[d]
      BY <3>1, Zenon DEF SlotsInv, ConnsOK
    <3>5. ConnsOK'
      BY <1>2, <3>1, <3>2, <3>4, Zenon DEF SlotsInv, ConnsOK, ThreadOK, Reads
    <3>6. Threads' = Threads \cup {c} /\ c \notin Threads
      BY <2>1, <3>2, <3>4, Zenon DEF Threads
    <3>7. Cardinality(Threads') = Cardinality(Threads) + 1
      BY <1>0, <3>6, FS_AddElement, Zenon
    <3>. QED  BY <1>0, <1>2, <1>a, <2>1, <2>3, <3>1, <3>5, <3>7
  <2>. QED  BY <2>2, <2>3, Zenon
<1>3. ASSUME Refuse, UNCHANGED hubSetup PROVE SlotsInv'
  <2>1. refusing \in Clients /\ refusing # Nothing /\ refusing' = Nothing /\ active' = active - 1
    BY <1>3, Zenon DEF Refuse, SlotsInv, ConnsOK
  <2>2. /\ DOMAIN conns' = Clients
        /\ \A d \in Clients : /\ DOMAIN conns'[d] = DOMAIN conns[d]
                              /\ conns'[d].pc = conns[d].pc /\ conns'[d].req = conns[d].req
    <3>. DEFINE t == [conns[refusing] EXCEPT !.answer = [said |-> 503]]
    <3>1. conns' = [conns EXCEPT ![refusing] = t]
      BY <1>3, Zenon DEF Refuse
    <3>2. DOMAIN t = DOMAIN conns[refusing] /\ t.pc = conns[refusing].pc /\ t.req = conns[refusing].req
      BY <2>1, NoThreadIs, Zenon DEF SlotsInv, ConnsOK, ThreadOK
    <3>. HIDE DEF t
    <3>. QED  BY <2>1, <3>1, <3>2, Zenon DEF SlotsInv, ConnsOK
  <2>3. ConnsOK' /\ Threads' = Threads
    BY <1>3, <2>1, <2>2, Zenon DEF SlotsInv, ConnsOK, ThreadOK, Threads
  <2>. QED  BY <1>0, <1>3, <1>a, <2>1, <2>3
<1>4. ASSUME FrontCrash, UNCHANGED hubSetup PROVE SlotsInv'
  <2>1. conns' = [c \in Clients |-> NoThread] /\ active' = 0 /\ refusing' = Nothing
    BY <1>4, Zenon DEF FrontCrash
  <2>2. ConnsOK' /\ Threads' = {}
    BY <1>4, <2>1, NoThreadIs, Zenon DEF SlotsInv, ConnsOK, ThreadOK, Threads, Reads
  <2>. QED  BY <1>0, <1>4, <1>a, <2>1, <2>2, FS_EmptySet
<1>5. CASE UNCHANGED frontVars
  BY <1>5, <1>u, Zenon DEF frontVars
<1>6. CASE FrontStep
  BY <1>6, <1>1, <1>2, <1>3, <1>4, <1>u, FrontFrame, Zenon
<1>. QED  BY <1>5, <1>6, Zenon

\* active_connections is the number of connection threads, and one more while a
\* client is turned away; there are never more threads than the limit, however
\* threads end, and after a crash (server.rs, the accept loop and ConnectionSlot).
THEOREM SlotsAlwaysReturned == FrontSpec => []SlotsAreReturned
<1>1. FrontInit => SlotsInv
  <2>. SUFFICES ASSUME FrontInit PROVE SlotsInv
    BY Zenon
  <2>1. ConnsOK /\ Threads = {}
    BY NoThreadIs, Zenon DEF FrontInit, ConnsOK, ThreadOK, Threads, Reads
  <2>2. hubSetup.slots \in Nat /\ active = 0 /\ refusing = Nothing
    BY FrontAssumption, Zenon DEF FrontInit
  <2>3. Cardinality(Threads) = 0
    BY <2>1, FS_EmptySet, Zenon
  <2>. QED  BY <2>1, <2>2, <2>3 DEF SlotsInv, SlotsAreReturned, Threads
<1>2. SlotsInv => SlotsAreReturned
  BY Zenon DEF SlotsInv
<1>. QED  BY <1>1, <1>2, NextSlots, PTL DEF FrontSpec

-----------------------------------------------------------------------------
(* HubFront: the stores.                                                   *)

Accepted(r) == {p \in Sent(hubSetup, r) : Verified(r, p)}
AtJob == {"sig", "head", "prune", "pruneSig", "unlink"}

\* The files of a repository and where its worker is.  The blobs have different
\* names, and there is a job while one is worked on.
RepoOK(r) ==
    /\ coming[r] \in Seq(Sent(hubSetup, r)) /\ spool[r] \in Seq(Accepted(r))
    /\ DOMAIN store[r] = {"blobs", "sigs", "head", "was"}
    /\ \A b \in store[r].blobs : b.sha \in Nat /\ b.time \in Nat
    /\ \A b, d \in store[r].blobs : b.sha = d.sha => b = d
    /\ DOMAIN drain[r] = {"pc", "old"}
    /\ drain[r].pc \in AtJob \cup {"scan", "notify"}
    /\ drain[r].pc \in AtJob => spool[r] # <<>>

StoreOK ==
    /\ hubSetup \in HubSetups /\ fileTime \in Nat
    /\ DOMAIN store = Repos /\ DOMAIN drain = Repos
    /\ DOMAIN spool = Repos /\ DOMAIN coming = Repos
    /\ \A r \in Repos : RepoOK(r)

\* A set of numbers has a smallest one.
LEMMA SmallestNumber ==
  ASSUME NEW S \in SUBSET Nat, S # {} PROVE \E n \in S : \A m \in S : n <= m
<1>1. PICK n \in S : \A m \in S : ~(<<m, n>> \in OpToRel(<, Nat))
  BY NatLessThanWellFounded, WFMin, Zenon
<1>2. \A m \in S : ~(m < n) /\ m \in Nat /\ n \in Nat
  BY <1>1, Zenon DEF OpToRel
<1>. QED  BY <1>2

\* So a set of blobs with different names has an oldest one, which is what
\* prune_retention removes.
Oldest(blobs) == CHOOSE b \in blobs : \A x \in blobs \ {b} : Older(b, x)
\* There is an oldest blob: times and commits tell blobs apart.
LEMMA OldestIs ==
  ASSUME NEW blobs, blobs # {}, \A b \in blobs : b.sha \in Nat /\ b.time \in Nat,
         \A b, d \in blobs : b.sha = d.sha => b = d
  PROVE  Oldest(blobs) \in blobs
<1>. DEFINE times == {b.time : b \in blobs}
<1>1. times \in SUBSET Nat /\ times # {}
  BY Zenon
<1>2. PICK n \in times : \A m \in times : n <= m
  BY <1>1, SmallestNumber, Zenon
<1>. DEFINE shas == {b.sha : b \in {d \in blobs : d.time = n}}
<1>3. shas \in SUBSET Nat /\ shas # {}
  BY <1>2
<1>4. PICK s \in shas : \A m \in shas : s <= m
  BY <1>3, SmallestNumber, Zenon
<1>5. PICK b \in blobs : b.time = n /\ b.sha = s
  BY <1>4, Zenon
<1>6. ASSUME NEW x \in blobs \ {b} PROVE Older(b, x)
  <2>1. n <= x.time /\ x.time \in Nat /\ x.sha \in Nat /\ n \in Nat /\ s \in Nat /\ x.sha # b.sha
    BY <1>1, <1>2, <1>3, <1>5, <1>6, Zenon
  <2>2. x.time = n => s <= x.sha
    BY <1>4, <1>6
  <2>. QED  BY <1>5, <2>1, <2>2 DEF Older
<1>7. \E d \in blobs : \A x \in blobs \ {d} : Older(d, x)
  BY <1>6, Zenon
<1>. QED  BY <1>7, Zenon DEF Oldest

\* The first job of a spool is a push that was accepted.
LEMMA JobIs ==
  ASSUME StoreOK, NEW r \in Repos, spool[r] # <<>>
  PROVE  /\ Job(r) \in Accepted(r) /\ Job(r).sha \in Nat /\ Job(r).retention \in Nat
         /\ Tail(spool[r]) \in Seq(Accepted(r))
<1>1. Job(r) \in Accepted(r) /\ Tail(spool[r]) \in Seq(Accepted(r))
  BY HeadTailProperties, Zenon DEF StoreOK, RepoOK, Job
<1>2. Job(r) \in Sent(hubSetup, r)
  BY <1>1, Zenon DEF Accepted
<1>. QED  BY <1>1, <1>2, FrontAssumption, Zenon DEF StoreOK

\* Every step is one of a worker, a push, a crash, or leaves the stores alone.
LEMMA StoreFrame ==
  ASSUME FrontStep
  PROVE  /\ UNCHANGED hubSetup
         /\ \/ \E r \in Repos : FrontWork(r)
            \/ FrontCrash
            \/ UNCHANGED <<coming, spool, store, drain, told, fileTime>>
<1>1. ASSUME NEW c \in Clients, Serve(c) \/ \E req \in hubSetup.requests : Accept(c, req)
      PROVE  UNCHANGED <<coming, spool, store, drain, told, fileTime>>
  BY <1>1, Zenon DEF Serve, Accept, diskVars, netVars
<1>2. Refuse \/ DnsTurns => UNCHANGED <<coming, spool, store, drain, told, fileTime>>
  BY Zenon DEF Refuse, DnsTurns, diskVars, netVars
<1>. QED  BY <1>1, <1>2, FrontFrame, Zenon DEF FrontStep

\* What a step of r's worker, or a push to r, may change.
Elsewhere(r) ==
    \A q \in Repos \ {r} : /\ coming'[q] = coming[q] /\ spool'[q] = spool[q]
                           /\ store'[q] = store[q] /\ drain'[q] = drain[q]
Domains == /\ DOMAIN store = Repos /\ DOMAIN drain = Repos
           /\ DOMAIN spool = Repos /\ DOMAIN coming = Repos

\* The worker of a repository leaves the others alone.
LEMMA WorkFrame ==
  ASSUME StoreOK, NEW r \in Repos, FrontWork(r)
  PROVE  Elsewhere(r) /\ Domains'
<1>0. Domains
  BY Zenon DEF StoreOK, Domains
<1>1. CASE Push(r)
  BY <1>0, <1>1, Zenon DEF Push, Elsewhere, Domains
<1>2. CASE CommitBlob(r)
  BY <1>0, <1>2, Zenon DEF CommitBlob, Work, Elsewhere, Domains
<1>3. CASE CommitSig(r)
  BY <1>0, <1>3, Zenon DEF CommitSig, Work, Elsewhere, Domains
<1>4. CASE PublishHead(r)
  BY <1>0, <1>4, Zenon DEF PublishHead, Work, Elsewhere, Domains
<1>5. CASE PruneBlob(r)
  BY <1>0, <1>5, Zenon DEF PruneBlob, Elsewhere, Domains
<1>6. CASE PruneSig(r)
  BY <1>0, <1>6, Zenon DEF PruneSig, Work, Elsewhere, Domains
<1>7. CASE UnlinkJob(r)
  BY <1>0, <1>7, Zenon DEF UnlinkJob, Elsewhere, Domains
<1>8. CASE Notify(r)
  BY <1>0, <1>8, Zenon DEF Notify, Work, Elsewhere, Domains
<1>. QED  BY <1>1, <1>2, <1>3, <1>4, <1>5, <1>6, <1>7, <1>8, Zenon DEF FrontWork

SignedBlob(r, b) ==
    b.sha \in DOMAIN store[r].sigs /\ store[r].sigs[b.sha] = Sign(r, b.sha, b.bytes)

\* With a verifier a blob lacks its own signature only while its job is still
\* there and will be done, again or for the first time; and a signature is only
\* removed when its blob is gone.
SigInv(r) ==
    hubSetup.key # Nothing =>
        /\ \A b \in store[r].blobs :
              \/ SignedBlob(r, b)
              \/ spool[r] # <<>> /\ b.sha = Job(r).sha /\ drain[r].pc \in {"scan", "sig"}
        /\ drain[r].pc = "sig" =>
              \A b \in store[r].blobs : b.sha = Job(r).sha => b.bytes = Job(r).bytes
        /\ drain[r].pc = "pruneSig" => \A b \in store[r].blobs : b.sha # drain[r].old

\* What is about to be told has been the head.
HeadWas(r) ==
    /\ drain[r].pc \in {"prune", "pruneSig", "unlink"} => Job(r).sha \in store[r].was
    /\ drain[r].pc = "notify" => drain[r].old \in store[r].was

RepoInv(r) == RepoOK(r) /\ SigInv(r) /\ HeadWas(r)

\* A signature of an accepted job is its own.
LEMMA JobSigned ==
  ASSUME StoreOK, NEW r \in Repos, spool[r] # <<>>, hubSetup.key # Nothing
  PROVE  Job(r).sig = Sign(r, Job(r).sha, Job(r).bytes) /\ Job(r).sig # NoSig
<1>1. Verified(r, Job(r))
  BY JobIs, Zenon DEF Accepted
<1>2. Job(r).sig = Sign(r, Job(r).sha, Job(r).bytes)
  BY <1>1, Zenon DEF Verified
<1>3. \A x, y, z : <<x, y, z>> # <<>>
  BY Zenon
<1>. QED  BY <1>2, <1>3, Zenon DEF Sign, NoSig

\* Accepting a push keeps the repository in order.
LEMMA PushKeeps ==
  ASSUME StoreOK, NEW r \in Repos, RepoInv(r), Push(r), UNCHANGED hubSetup
  PROVE  RepoInv(r)' /\ store'[r].was = store[r].was /\ UNCHANGED told
<1>1. /\ coming[r] # <<>> /\ coming'[r] = Tail(coming[r]) /\ UNCHANGED <<store, drain, told>>
      /\ \/ spool'[r] = spool[r]
         \/ Verified(r, Head(coming[r])) /\ spool'[r] = Append(spool[r], Head(coming[r]))
  BY Zenon DEF Push, StoreOK, netVars
<1>2. coming'[r] \in Seq(Sent(hubSetup, r)) /\ Head(coming[r]) \in Sent(hubSetup, r)
  BY <1>1, HeadTailProperties DEF RepoInv, RepoOK
<1>3. /\ spool'[r] \in Seq(Accepted(r)) /\ (spool[r] # <<>> => spool'[r] # <<>> /\ Job(r)' = Job(r))
  <2>1. CASE spool'[r] = spool[r]
    BY <2>1, Zenon DEF RepoInv, RepoOK, Job
  <2>2. CASE Verified(r, Head(coming[r])) /\ spool'[r] = Append(spool[r], Head(coming[r]))
    <3>1. Head(coming[r]) \in Accepted(r) /\ spool[r] \in Seq(Accepted(r))
      BY <1>2, <2>2, Zenon DEF Accepted, RepoInv, RepoOK
    <3>2. \A S : \A s \in Seq(S) : \A x \in S :
             Append(s, x) \in Seq(S) /\ Append(s, x) # <<>> /\ (s # <<>> => Head(Append(s, x)) = Head(s))
      OBVIOUS
    <3>. QED  BY <2>2, <3>1, <3>2 DEF Job
  <2>. QED  BY <1>1, <2>1, <2>2, Zenon
<1>4. Accepted(r)' = Accepted(r) /\ Sent(hubSetup', r) = Sent(hubSetup, r)
  BY Zenon DEF Accepted, Verified
<1>5. RepoOK(r)'
  BY <1>1, <1>2, <1>3, <1>4, Zenon DEF RepoInv, RepoOK
<1>6. SigInv(r)'
  BY <1>1, <1>3, Zenon DEF RepoInv, RepoOK, SigInv, SignedBlob, AtJob
<1>7. HeadWas(r)'
  BY <1>1, <1>3, Zenon DEF RepoInv, RepoOK, HeadWas, AtJob
<1>. QED  BY <1>1, <1>5, <1>6, <1>7, Zenon DEF RepoInv

\* Writing the blob leaves it without its signature for a moment, in which the
\* spool is not empty.
LEMMA CommitBlobKeeps ==
  ASSUME StoreOK, NEW r \in Repos, RepoInv(r), CommitBlob(r), UNCHANGED hubSetup
  PROVE  RepoInv(r)' /\ store'[r].was = store[r].was /\ UNCHANGED told /\ fileTime' \in Nat
<1>. DEFINE new == [sha |-> Job(r).sha, bytes |-> Job(r).bytes, time |-> fileTime']
<1>1. /\ spool[r] # <<>> /\ drain[r].pc = "scan" /\ fileTime' \in Nat
      /\ UNCHANGED <<coming, spool, told>>
  BY DEF CommitBlob, Work, StoreOK, netVars
<1>2. /\ drain'[r].pc = "sig" /\ DOMAIN drain'[r] = {"pc", "old"}
      /\ DOMAIN store'[r] = {"blobs", "sigs", "head", "was"}
      /\ store'[r].blobs = {b \in store[r].blobs : b.sha # Job(r).sha} \cup {new}
      /\ store'[r].sigs = store[r].sigs /\ store'[r].was = store[r].was
  BY Zenon DEF CommitBlob, Work, StoreOK, RepoInv, RepoOK
<1>3. /\ Job(r)' = Job(r) /\ Job(r).sha \in Nat /\ Accepted(r)' = Accepted(r)
      /\ Sent(hubSetup', r) = Sent(hubSetup, r)
  BY <1>1, JobIs, Zenon DEF Accepted, Verified, Job
<1>4. new.sha = Job(r).sha /\ new.bytes = Job(r).bytes /\ new.time = fileTime'
  BY Zenon
<1>. HIDE DEF new
<1>5. RepoOK(r)'
  BY <1>1, <1>2, <1>3, <1>4, Zenon DEF RepoInv, RepoOK, AtJob
<1>6. SigInv(r)'
  BY <1>1, <1>2, <1>3, <1>4, Zenon DEF RepoInv, SigInv, SignedBlob
<1>7. HeadWas(r)'
  BY <1>2, Zenon DEF HeadWas
<1>. QED  BY <1>1, <1>2, <1>5, <1>6, <1>7, Zenon DEF RepoInv

\* Writing the signature makes up for it.
LEMMA CommitSigKeeps ==
  ASSUME StoreOK, NEW r \in Repos, RepoInv(r), CommitSig(r), UNCHANGED hubSetup
  PROVE  RepoInv(r)' /\ store'[r].was = store[r].was /\ UNCHANGED <<told, fileTime>>
<1>. DEFINE sigs == [s \in DOMAIN store[r].sigs \cup {Job(r).sha} |->
                        IF s = Job(r).sha THEN Job(r).sig ELSE store[r].sigs[s]]
<1>1. /\ spool[r] # <<>> /\ drain[r].pc = "sig" /\ UNCHANGED <<coming, spool, told, fileTime>>
  BY Zenon DEF CommitSig, Work, RepoInv, RepoOK, AtJob, netVars
<1>2. /\ drain'[r].pc = "head" /\ DOMAIN drain'[r] = {"pc", "old"}
      /\ DOMAIN store'[r] = {"blobs", "sigs", "head", "was"}
      /\ store'[r].blobs = store[r].blobs /\ store'[r].was = store[r].was
      /\ Job(r).sig # NoSig => store'[r].sigs = sigs
  BY Zenon DEF CommitSig, Work, StoreOK, RepoInv, RepoOK
<1>3. /\ Job(r)' = Job(r) /\ Job(r).sha \in Nat /\ Accepted(r)' = Accepted(r)
      /\ Sent(hubSetup', r) = Sent(hubSetup, r)
  BY <1>1, JobIs, Zenon DEF Accepted, Verified, Job
<1>5. RepoOK(r)'
  BY <1>1, <1>2, <1>3, Zenon DEF RepoInv, RepoOK, AtJob
<1>6. SigInv(r)'
  <2>. SUFFICES ASSUME hubSetup.key # Nothing, NEW b \in store[r].blobs PROVE SignedBlob(r, b)'
    BY <1>2, Zenon DEF SigInv
  <2>1. Job(r).sig = Sign(r, Job(r).sha, Job(r).bytes) /\ store'[r].sigs = sigs
    BY <1>1, <1>2, JobSigned, Zenon
  <2>2. b.sha = Job(r).sha => b.bytes = Job(r).bytes
    BY <1>1, Zenon DEF RepoInv, SigInv
  <2>3. b.sha # Job(r).sha => SignedBlob(r, b)
    BY Zenon DEF RepoInv, SigInv
  <2>. QED  BY <2>1, <2>2, <2>3, Zenon DEF SignedBlob, Sign
<1>7. HeadWas(r)'
  BY <1>2, Zenon DEF HeadWas
<1>. QED  BY <1>1, <1>2, <1>5, <1>6, <1>7, Zenon DEF RepoInv

\* The new head joins the commits that were the head.
LEMMA PublishHeadKeeps ==
  ASSUME StoreOK, NEW r \in Repos, RepoInv(r), PublishHead(r), UNCHANGED hubSetup
  PROVE  RepoInv(r)' /\ store[r].was \subseteq store'[r].was /\ UNCHANGED <<told, fileTime>>
<1>1. /\ spool[r] # <<>> /\ drain[r].pc = "head" /\ UNCHANGED <<coming, spool, told, fileTime>>
  BY Zenon DEF PublishHead, Work, RepoInv, RepoOK, AtJob, netVars
<1>2. /\ drain'[r].pc = "prune" /\ DOMAIN drain'[r] = {"pc", "old"}
      /\ DOMAIN store'[r] = {"blobs", "sigs", "head", "was"}
      /\ store'[r].blobs = store[r].blobs /\ store'[r].sigs = store[r].sigs
      /\ store'[r].was = store[r].was \cup {Job(r).sha}
  BY Zenon DEF PublishHead, Work, StoreOK, RepoInv, RepoOK
<1>3. /\ Job(r)' = Job(r) /\ Accepted(r)' = Accepted(r) /\ Sent(hubSetup', r) = Sent(hubSetup, r)
  BY <1>1, Zenon DEF Accepted, Verified, Job
<1>5. RepoOK(r)'
  BY <1>1, <1>2, <1>3, Zenon DEF RepoInv, RepoOK, AtJob
<1>6. SigInv(r)'
  BY <1>1, <1>2, <1>3, Zenon DEF RepoInv, SigInv, SignedBlob
<1>7. HeadWas(r)'
  BY <1>2, <1>3, Zenon DEF HeadWas
<1>. QED  BY <1>1, <1>2, <1>5, <1>6, <1>7, Zenon DEF RepoInv

\* A pruned blob leaves a signature that goes next.
LEMMA PruneBlobKeeps ==
  ASSUME StoreOK, NEW r \in Repos, RepoInv(r), PruneBlob(r), UNCHANGED hubSetup
  PROVE  RepoInv(r)' /\ store'[r].was = store[r].was /\ UNCHANGED <<told, fileTime>>
<1>1. /\ spool[r] # <<>> /\ drain[r].pc = "prune" /\ UNCHANGED <<coming, spool, told, fileTime>>
  BY Zenon DEF PruneBlob, RepoInv, RepoOK, AtJob, netVars
<1>3. /\ Job(r)' = Job(r) /\ Accepted(r)' = Accepted(r) /\ Sent(hubSetup', r) = Sent(hubSetup, r)
  BY <1>1, Zenon DEF Accepted, Verified, Job
<1>4. CASE Cardinality(store[r].blobs) <= Job(r).retention
  <2>1. /\ drain'[r].pc = "unlink" /\ DOMAIN drain'[r] = {"pc", "old"} /\ UNCHANGED store
    BY <1>4 DEF PruneBlob, StoreOK, RepoInv, RepoOK
  <2>5. RepoOK(r)'
    BY <1>1, <1>3, <2>1, Zenon DEF RepoInv, RepoOK, AtJob
  <2>6. SigInv(r)' /\ HeadWas(r)'
    BY <1>1, <1>3, <2>1, Zenon DEF RepoInv, SigInv, SignedBlob, HeadWas
  <2>. QED  BY <1>1, <2>1, <2>5, <2>6, Zenon DEF RepoInv
<1>5. CASE ~(Cardinality(store[r].blobs) <= Job(r).retention)
  <2>. DEFINE old == Oldest(store[r].blobs)
  <2>1. store[r].blobs # {}
    <3>1. Job(r).retention \in Nat
      BY <1>1, JobIs, Zenon
    <3>2. store[r].blobs = {} => Cardinality(store[r].blobs) = 0
      BY FS_EmptySet, Zenon
    <3>. QED  BY <1>5, <3>1, <3>2
  <2>2. old \in store[r].blobs
    BY <2>1, OldestIs, Zenon DEF RepoInv, RepoOK
  <2>3. /\ store' = [store EXCEPT ![r].blobs = @ \ {old}]
        /\ drain' = [drain EXCEPT ![r] = [pc |-> "pruneSig", old |-> old.sha]]
    BY <1>5, Zenon DEF PruneBlob, Oldest
  <2>. HIDE DEF old
  <2>4. /\ drain'[r].pc = "pruneSig" /\ drain'[r].old = old.sha /\ DOMAIN drain'[r] = {"pc", "old"}
        /\ DOMAIN store'[r] = {"blobs", "sigs", "head", "was"}
        /\ store'[r].blobs = store[r].blobs \ {old}
        /\ store'[r].sigs = store[r].sigs /\ store'[r].was = store[r].was
    BY <2>3, Zenon DEF StoreOK, RepoInv, RepoOK
  <2>5. RepoOK(r)'
    BY <1>1, <1>3, <2>4, Zenon DEF RepoInv, RepoOK, AtJob
  <2>6. SigInv(r)'
    BY <1>1, <1>3, <2>2, <2>4, Zenon DEF RepoInv, RepoOK, SigInv, SignedBlob
  <2>7. HeadWas(r)'
    BY <1>1, <1>3, <2>4, Zenon DEF RepoInv, HeadWas
  <2>. QED  BY <1>1, <2>4, <2>5, <2>6, <2>7, Zenon DEF RepoInv
<1>. QED  BY <1>4, <1>5, Zenon

\* And then it is gone.
LEMMA PruneSigKeeps ==
  ASSUME StoreOK, NEW r \in Repos, RepoInv(r), PruneSig(r), UNCHANGED hubSetup
  PROVE  RepoInv(r)' /\ store'[r].was = store[r].was /\ UNCHANGED <<told, fileTime>>
<1>. DEFINE sigs == [s \in DOMAIN store[r].sigs \ {drain[r].old} |-> store[r].sigs[s]]
<1>1. /\ spool[r] # <<>> /\ drain[r].pc = "pruneSig" /\ UNCHANGED <<coming, spool, told, fileTime>>
  BY Zenon DEF PruneSig, Work, RepoInv, RepoOK, AtJob, netVars
<1>2. /\ drain'[r].pc = "prune" /\ DOMAIN drain'[r] = {"pc", "old"}
      /\ DOMAIN store'[r] = {"blobs", "sigs", "head", "was"}
      /\ store'[r].blobs = store[r].blobs /\ store'[r].was = store[r].was
      /\ store'[r].sigs = sigs
  BY Zenon DEF PruneSig, Work, StoreOK, RepoInv, RepoOK
<1>3. /\ Job(r)' = Job(r) /\ Accepted(r)' = Accepted(r) /\ Sent(hubSetup', r) = Sent(hubSetup, r)
  BY <1>1, Zenon DEF Accepted, Verified, Job
<1>5. RepoOK(r)'
  BY <1>1, <1>2, <1>3, Zenon DEF RepoInv, RepoOK, AtJob
<1>6. SigInv(r)'
  BY <1>1, <1>2, <1>3, ZenonT(60) DEF RepoInv, SigInv, SignedBlob
<1>7. HeadWas(r)'
  BY <1>1, <1>2, <1>3, Zenon DEF RepoInv, HeadWas
<1>. QED  BY <1>1, <1>2, <1>5, <1>6, <1>7, Zenon DEF RepoInv

\* The job is removed when its blob and signature agree.
LEMMA UnlinkKeeps ==
  ASSUME StoreOK, NEW r \in Repos, RepoInv(r), UnlinkJob(r), UNCHANGED hubSetup
  PROVE  RepoInv(r)' /\ store'[r].was = store[r].was /\ UNCHANGED <<told, fileTime>>
<1>1. /\ spool[r] # <<>> /\ drain[r].pc = "unlink" /\ UNCHANGED <<coming, store, told, fileTime>>
  BY Zenon DEF UnlinkJob, RepoInv, RepoOK, AtJob, netVars
<1>2. /\ drain'[r].pc = "notify" /\ drain'[r].old = Job(r).sha /\ DOMAIN drain'[r] = {"pc", "old"}
      /\ spool'[r] = Tail(spool[r])
  BY Zenon DEF UnlinkJob, StoreOK
<1>3. /\ spool'[r] \in Seq(Accepted(r)) /\ Accepted(r)' = Accepted(r) /\ Sent(hubSetup', r) = Sent(hubSetup, r)
  BY <1>1, <1>2, JobIs, Zenon DEF Accepted, Verified
<1>5. RepoOK(r)'
  BY <1>1, <1>2, <1>3, Zenon DEF RepoInv, RepoOK, AtJob
<1>6. SigInv(r)'
  BY <1>1, <1>2, Zenon DEF RepoInv, SigInv, SignedBlob
<1>7. HeadWas(r)'
  BY <1>1, <1>2, Zenon DEF RepoInv, HeadWas
<1>. QED  BY <1>1, <1>5, <1>6, <1>7, Zenon DEF RepoInv

\* A notification names a commit that was the head, and an address that is not
\* blocked.
LEMMA NotifyKeeps ==
  ASSUME StoreOK, NEW r \in Repos, RepoInv(r), Notify(r), UNCHANGED hubSetup
  PROVE  /\ RepoInv(r)' /\ store'[r].was = store[r].was /\ UNCHANGED fileTime
         /\ \A t \in told' : \/ t \in told
                             \/ t.repo = r /\ t.sha \in store[r].was /\ t.address \notin Blocked
<1>1. /\ drain[r].pc = "notify" /\ UNCHANGED <<coming, spool, store, fileTime>>
  BY Zenon DEF Notify, Work
<1>2. /\ drain'[r].pc = "scan" /\ DOMAIN drain'[r] = {"pc", "old"}
  BY Zenon DEF Notify, Work, StoreOK, RepoInv, RepoOK
<1>3. /\ Job(r)' = Job(r) /\ Accepted(r)' = Accepted(r) /\ Sent(hubSetup', r) = Sent(hubSetup, r)
  BY <1>1, Zenon DEF Accepted, Verified, Job
<1>4. \A t \in told' : \/ t \in told
                       \/ t.repo = r /\ t.sha \in store[r].was /\ t.address \notin Blocked
  <2>1. drain[r].old \in store[r].was
    BY <1>1, Zenon DEF RepoInv, HeadWas
  <2>. QED  BY <2>1 DEF Notify, Public
<1>5. RepoOK(r)'
  BY <1>1, <1>2, <1>3, Zenon DEF RepoInv, RepoOK, AtJob
<1>6. SigInv(r)'
  BY <1>1, <1>2, Zenon DEF RepoInv, SigInv, SignedBlob
<1>7. HeadWas(r)'
  BY <1>2, Zenon DEF HeadWas
<1>. QED  BY <1>1, <1>4, <1>5, <1>6, <1>7, Zenon DEF RepoInv

ToldOK == \A t \in told : t.repo \in Repos /\ t.address \notin Blocked /\ t.sha \in store[t.repo].was
FilesInv ==
    /\ hubSetup \in HubSetups /\ fileTime \in Nat /\ Domains
    /\ \A r \in Repos : RepoInv(r)
    /\ ToldOK

\* Each step of a worker keeps all repositories in order.
LEMMA WorkKeeps ==
  ASSUME FilesInv, NEW r \in Repos, FrontWork(r), UNCHANGED hubSetup
  PROVE  FilesInv'
<1>0. StoreOK /\ RepoInv(r)
  BY Zenon DEF FilesInv, Domains, StoreOK, RepoInv
<1>1. Elsewhere(r) /\ Domains'
  BY <1>0, WorkFrame, Zenon
<1>2. /\ RepoInv(r)' /\ store[r].was \subseteq store'[r].was /\ fileTime' \in Nat
      /\ \A t \in told' : \/ t \in told
                          \/ t.repo = r /\ t.sha \in store[r].was /\ t.address \notin Blocked
  <2>0. fileTime \in Nat
    BY Zenon DEF FilesInv
  <2>1. CASE Push(r)
    <3>1. UNCHANGED fileTime
      BY <2>1, Zenon DEF Push
    <3>. QED  BY <1>0, <2>0, <2>1, <3>1, PushKeeps, Zenon
  <2>2. CASE CommitBlob(r)
    BY <1>0, <2>2, CommitBlobKeeps, Zenon
  <2>3. CASE CommitSig(r)
    BY <1>0, <2>0, <2>3, CommitSigKeeps, Zenon
  <2>4. CASE PublishHead(r)
    BY <1>0, <2>0, <2>4, PublishHeadKeeps, Zenon
  <2>5. CASE PruneBlob(r)
    BY <1>0, <2>0, <2>5, PruneBlobKeeps, Zenon
  <2>6. CASE PruneSig(r)
    BY <1>0, <2>0, <2>6, PruneSigKeeps, Zenon
  <2>7. CASE UnlinkJob(r)
    BY <1>0, <2>0, <2>7, UnlinkKeeps, Zenon
  <2>8. CASE Notify(r)
    BY <1>0, <2>0, <2>8, NotifyKeeps, Zenon
  <2>. QED  BY <2>1, <2>2, <2>3, <2>4, <2>5, <2>6, <2>7, <2>8, Zenon DEF FrontWork
<1>3. ASSUME NEW q \in Repos, q # r PROVE RepoInv(q)'
  <2>1. coming'[q] = coming[q] /\ spool'[q] = spool[q] /\ store'[q] = store[q] /\ drain'[q] = drain[q]
    BY <1>1, <1>3, Zenon DEF Elsewhere
  <2>2. Accepted(q)' = Accepted(q) /\ Sent(hubSetup', q) = Sent(hubSetup, q) /\ Job(q)' = Job(q)
    BY <2>1, Zenon DEF Accepted, Verified, Job
  <2>3. RepoInv(q)
    BY Zenon DEF FilesInv
  <2>. QED  BY <2>1, <2>2, <2>3, Zenon DEF RepoInv, RepoOK, SigInv, SignedBlob, HeadWas
<1>4. ToldOK'
  BY <1>1, <1>2, Zenon DEF ToldOK, FilesInv, Elsewhere
<1>. QED  BY <1>1, <1>2, <1>3, <1>4, Zenon DEF FilesInv

\* Each step of the server does.
LEMMA NextFiles == FilesInv /\ [FrontStep]_frontVars => FilesInv'
<1>. SUFFICES ASSUME FilesInv, [FrontStep]_frontVars PROVE FilesInv'
  BY Zenon
<1>1. ASSUME UNCHANGED <<hubSetup, coming, spool, store, drain, told, fileTime>> PROVE FilesInv'
  <2>1. \A r \in Repos : Accepted(r)' = Accepted(r) /\ Job(r)' = Job(r)
    BY <1>1, Zenon DEF Accepted, Verified, Job
  <2>2. \A r \in Repos : RepoInv(r)'
    BY <1>1, <2>1 DEF FilesInv, RepoInv, RepoOK, SigInv, SignedBlob, HeadWas
  <2>. QED  BY <1>1, <2>2, Zenon DEF FilesInv, Domains, ToldOK
<1>2. ASSUME FrontCrash PROVE FilesInv'
  <2>0. /\ UNCHANGED <<hubSetup, coming, spool, store, told, fileTime>>
        /\ drain' = [r \in Repos |-> [pc |-> "scan", old |-> 0]]
    BY <1>2, Zenon DEF FrontCrash, diskVars, netVars
  <2>1. ASSUME NEW r \in Repos PROVE RepoInv(r)'
    <3>1. Accepted(r)' = Accepted(r) /\ Job(r)' = Job(r) /\ Sent(hubSetup', r) = Sent(hubSetup, r)
      BY <2>0, Zenon DEF Accepted, Verified, Job
    <3>2. drain'[r].pc = "scan" /\ DOMAIN drain'[r] = {"pc", "old"} /\ RepoInv(r)
      BY <2>0, Zenon DEF FilesInv
    <3>3. RepoOK(r)'
      BY <2>0, <3>1, <3>2, Zenon DEF RepoInv, RepoOK, AtJob
    <3>4. SigInv(r)' /\ HeadWas(r)'
      BY <2>0, <3>1, <3>2, Zenon DEF RepoInv, SigInv, SignedBlob, HeadWas
    <3>. QED  BY <3>3, <3>4, Zenon DEF RepoInv
  <2>. QED  BY <2>0, <2>1, Zenon DEF FilesInv, Domains, ToldOK
<1>3. CASE UNCHANGED frontVars
  BY <1>1, <1>3, Zenon DEF frontVars
<1>4. CASE FrontStep
  BY <1>1, <1>2, <1>4, StoreFrame, WorkKeeps, Zenon
<1>. QED  BY <1>3, <1>4, Zenon

\* An empty hub is in order.
LEMMA InitFiles == FrontInit => FilesInv
<1>. SUFFICES ASSUME FrontInit PROVE FilesInv
  BY Zenon
<1>1. hubSetup \in HubSetups /\ fileTime \in Nat /\ Domains
  BY FrontAssumption, Zenon DEF FrontInit, Domains
<1>2. ASSUME NEW r \in Repos PROVE RepoInv(r)
  <2>1. /\ spool[r] = <<>> /\ drain[r].pc = "scan" /\ DOMAIN drain[r] = {"pc", "old"}
        /\ store[r].blobs = {} /\ DOMAIN store[r] = {"blobs", "sigs", "head", "was"}
    BY Zenon DEF FrontInit
  <2>2. coming[r] \in Seq(Sent(hubSetup, r))
    <3>1. coming[r] = hubSetup.pushes[r] \/ coming[r] = <<>>
      BY Zenon DEF FrontInit
    <3>2. hubSetup.pushes[r] \in Seq(Sent(hubSetup, r))
      BY <1>1, FrontAssumption, Zenon
    <3>3. \A S : <<>> \in Seq(S)
      OBVIOUS
    <3>. QED  BY <3>1, <3>2, <3>3, Zenon
  <2>. QED  BY <2>1, <2>2 DEF RepoInv, RepoOK, SigInv, HeadWas, AtJob
<1>. QED  BY <1>1, <1>2, Zenon DEF FilesInv, ToldOK, FrontInit

\* With a verifier, once the spool of a repository is empty every stored snapshot
\* has a signature that verifies its stored bytes: for any pushes, repeated ones
\* and ones under another commit's signature included, any retention, and a crash
\* between any two steps of commit_job and prune_retention.
THEOREM SignaturesAlwaysVerify == FrontSpec => []StoredSignaturesVerify
<1>1. FilesInv => StoredSignaturesVerify
  BY Zenon DEF FilesInv, RepoInv, SigInv, SignedBlob, StoredSignaturesVerify
<1>. QED  BY <1>1, InitFiles, NextFiles, PTL DEF FrontSpec

\* A notification goes to a public address and tells of a commit that is or was the
\* head, whatever the name resolves to at each moment (dispatch_webhook, notify).
THEOREM AlwaysToldInPublic == FrontSpec => []ToldInPublicOfCommits
<1>1. FilesInv => ToldInPublicOfCommits
  BY Zenon DEF FilesInv, ToldOK, ToldInPublicOfCommits
<1>. QED  BY <1>1, InitFiles, NextFiles, PTL DEF FrontSpec

-----------------------------------------------------------------------------
(* RepoModules: finite sets and sums.                                      *)

\* The values of a function on a finite set are finitely many.
LEMMA FiniteValues ==
  ASSUME NEW S, IsFiniteSet(S), NEW f, DOMAIN f = S, f = [x \in S |-> f[x]]
  PROVE  IsFiniteSet({f[x] : x \in S})
<1> DEFINE T == {f[x] : x \in S}
<1>1. f \in [S -> T]
  BY Zenon
<1>2. f \in Surjection(S, T)
  BY <1>1, Zenon DEF Surjection
<1> HIDE DEF T
<1> QED
  BY <1>2, FS_Surjection, Zenon DEF T

\* A sum of naturals is a natural, and zero only when they all are.
LEMMA TotalZero ==
  ASSUME NEW S, IsFiniteSet(S), NEW f, \A x \in S : f[x] \in Nat
  PROVE  /\ Total(f, S) \in Nat
         /\ Total(f, S) = 0 => \A x \in S : f[x] = 0
<1> DEFINE g == [x \in S |-> {x} \X (1..f[x])]
           F == {g[x] : x \in S}
<1>1. IsFiniteSet(F)
  <2>1. DOMAIN g = S /\ g = [x \in S |-> g[x]]
    BY Zenon
  <2> HIDE DEF g
  <2> QED
    BY <2>1, FiniteValues
<1>2. \A T \in F : IsFiniteSet(T)
  <2> SUFFICES ASSUME NEW x \in S PROVE IsFiniteSet({x} \X (1..f[x]))
    BY Zenon
  <2>0. 1 \in Int /\ f[x] \in Int
    OBVIOUS
  <2>1. IsFiniteSet({x}) /\ IsFiniteSet(1..f[x])
    BY <2>0, FS_Singleton, FS_Interval, Zenon
  <2> QED
    BY <2>1, FS_Product, Zenon
<1>3. IsFiniteSet(UNION F)
  <2> HIDE DEF F
  <2> QED
    BY <1>1, <1>2, FS_UNION, Zenon
<1>4. UNION F = UNION {{x} \X (1..f[x]) : x \in S}
  BY Zenon
<1>5. Total(f, S) = Cardinality(UNION F)
  BY <1>4, Zenon DEF Total
<1>6. ASSUME UNION F = {}, NEW x \in S PROVE f[x] = 0
  <2>1. \A i \in 1..f[x] : <<x, i>> \in g[x]
    BY Zenon
  <2>2. g[x] \in F
    BY Zenon
  <2> HIDE DEF g, F
  <2>3. \A i \in 1..f[x] : FALSE
    BY <1>6, <2>1, <2>2, Zenon
  <2> QED
    BY <2>3
<1> HIDE DEF F
<1> QED
  BY <1>3, <1>5, <1>6, FS_CardinalityType, FS_EmptySet, Zenon

\* Of two files the greater has more before it, and fewer than there are.
LEMMA Ranks ==
  ASSUME NEW files \in SUBSET Nat, IsFiniteSet(files), NEW f \in files
  PROVE  /\ Cardinality({g \in files : g < f}) \in 0..Cardinality(files) - 1
         /\ \A h \in files :
              Cardinality({g \in files : g < f}) = Cardinality({g \in files : g < h}) => f = h
<1> DEFINE below(h) == {g \in files : g < h}
<1>1. ASSUME NEW S, NEW T, S \subseteq T, IsFiniteSet(T), NEW x \in T, x \notin S
      PROVE  Cardinality(S) \in Nat /\ Cardinality(T) \in Nat /\ Cardinality(S) < Cardinality(T)
  BY <1>1, FS_Subset, FS_CardinalityType
<1>2. \A h : IsFiniteSet(below(h)) /\ below(h) \subseteq files
  BY FS_Subset, Zenon
<1>3. ASSUME NEW a \in files, NEW b \in files, a < b
      PROVE  Cardinality(below(a)) # Cardinality(below(b))
  <2>0. \A x \in files : x \in Nat
    BY Zenon
  <2>1. below(a) \subseteq below(b) /\ a \in below(b) /\ a \notin below(a)
    <3>1. \A x \in files : x < a => x < b
      BY <1>3, <2>0
    <3>2. ~(a < a)
      BY <2>0
    <3> QED
      BY <1>3, <3>1, <3>2, Zenon
  <2> HIDE DEF below
  <2> QED
    BY <1>1, <1>2, <2>1
<1>4. f \notin below(f)
  OBVIOUS
<1> HIDE DEF below
<1>5. Cardinality(below(f)) \in 0..Cardinality(files) - 1
  BY <1>1, <1>2, <1>4
<1>6. \A h \in files : Cardinality(below(f)) = Cardinality(below(h)) => f = h
  BY <1>3
<1> QED
  BY <1>5, <1>6, Zenon DEF below

-----------------------------------------------------------------------------
(* RepoModules: the clustering loop.                                       *)

JobFields == {"kind", "fileOf", "files", "order", "fileEdges", "degree", "twoM", "community",
              "communityDegree", "improved", "cursor"}

\* File f would not gain by a move.
Settles(j, f) == BestCommunities(j, f) = {j.community[f]}

\* The order of the sweep leaves no file out.
IsOrder(order, files) ==
  Len(order) \in Nat /\ \A f \in files : \E i \in 1..Len(order) : order[i] = f

\* The inductive invariant: in a sweep that has moved nothing yet, the files
\* before the cursor settle in the partition as it is.
SweepInv ==
  job.kind # "none" =>
    /\ DOMAIN job = JobFields
    /\ IsOrder(job.order, job.files)
    /\ job.improved \in BOOLEAN /\ job.cursor \in Int
    /\ job.cursor > 0 => /\ job.cursor <= Len(job.order)
                         /\ ~job.improved => \A i \in 1..job.cursor - 1 : Settles(job, job.order[i])
    /\ job.cursor = 0 => \A f \in job.files : Settles(job, f)

\* Whether a file settles does not depend on where the loop is.
LEMMA SettlesSame ==
  ASSUME NEW j, NEW k, NEW f,
         k.files = j.files, k.fileEdges = j.fileEdges, k.degree = j.degree, k.twoM = j.twoM,
         k.community = j.community, k.communityDegree = j.communityDegree
  PROVE  Settles(k, f) <=> Settles(j, f)
<1>1. Neighbors(k, f) = Neighbors(j, f)
  BY Zenon DEF Neighbors
<1>2. \A sigma, c : Gain(k, sigma, f, c) = Gain(j, sigma, f, c)
  BY <1>1, Zenon DEF Gain
<1>3. BestCommunities(k, f) = BestCommunities(j, f)
  <2> DEFINE current == j.community[f]
             sigma   == [j.communityDegree EXCEPT ![current] = @ - j.degree[f]]
             options == {j.community[g] : g \in Neighbors(j, f)} \ {current}
             better(m) == {c \in options : Gain(m, sigma, f, c) > Gain(m, sigma, f, current)}
             best(m) == {c \in better(m) : \A d \in better(m) : Gain(m, sigma, f, d) <= Gain(m, sigma, f, c)}
  <2>1. BestCommunities(j, f) = IF better(j) = {} THEN {current} ELSE best(j)
    BY Zenon DEF BestCommunities
  <2>2. BestCommunities(k, f) = IF better(k) = {} THEN {current} ELSE best(k)
    BY <1>1, ZenonT(60) DEF BestCommunities
  <2> HIDE DEF sigma, options
  <2>3. better(k) = better(j)
    BY <1>2, Zenon
  <2> HIDE DEF better
  <2>4. best(k) = best(j)
    BY <1>2, <2>3, Zenon
  <2> QED
    BY <2>1, <2>2, <2>3, <2>4, Zenon
<1> QED
  BY <1>3, Zenon DEF Settles

\* A file for which staying is among the best settles.
LEMMA StayingSettles ==
  ASSUME NEW j, NEW f, j.community[f] \in BestCommunities(j, f)
  PROVE  Settles(j, f)
<1> DEFINE current == j.community[f]
           sigma   == [j.communityDegree EXCEPT ![current] = @ - j.degree[f]]
           options == {j.community[g] : g \in Neighbors(j, f)} \ {current}
           better  == {c \in options : Gain(j, sigma, f, c) > Gain(j, sigma, f, current)}
           best    == {c \in better : \A d \in better : Gain(j, sigma, f, d) <= Gain(j, sigma, f, c)}
<1>1. BestCommunities(j, f) = IF better = {} THEN {current} ELSE best
  BY Zenon DEF BestCommunities
<1>2. current \notin best
  BY Zenon
<1> HIDE DEF better, best
<1> QED
  BY <1>1, <1>2, Zenon DEF Settles

\* Without neighbours there is nowhere to go.
LEMMA AloneSettles ==
  ASSUME NEW j, NEW f, Neighbors(j, f) = {}
  PROVE  Settles(j, f)
<1> DEFINE current == j.community[f]
           sigma   == [j.communityDegree EXCEPT ![current] = @ - j.degree[f]]
           options == {j.community[g] : g \in Neighbors(j, f)} \ {current}
           better  == {c \in options : Gain(j, sigma, f, c) > Gain(j, sigma, f, current)}
           best    == {c \in better : \A d \in better : Gain(j, sigma, f, d) <= Gain(j, sigma, f, c)}
<1>1. BestCommunities(j, f) = IF better = {} THEN {current} ELSE best
  BY Zenon DEF BestCommunities
<1>2. better = {}
  BY Zenon
<1> HIDE DEF better, best
<1> QED
  BY <1>1, <1>2, Zenon DEF Settles

\* One turn of the loop.
LEMMA MoveSweeps ==
  ASSUME SweepInv, Move
  PROVE  SweepInv'
<1> DEFINE f == job.order[job.cursor]
<1>0. /\ job.kind # "none" /\ job.cursor > 0 /\ DOMAIN job = JobFields
      /\ IsOrder(job.order, job.files) /\ job.improved \in BOOLEAN /\ job.cursor \in Int
      /\ job.cursor <= Len(job.order) /\ Len(job.order) \in Nat
      /\ ~job.improved => \A i \in 1..job.cursor - 1 : Settles(job, job.order[i])
  BY Zenon DEF SweepInv, Move, Clustering, IsOrder
<1>1. PICK best \in BestCommunities(job, f) :
        job' = IF job.cursor < Len(job.order)
               THEN [MoveTo(job, f, best) EXCEPT !.cursor = @ + 1]
               ELSE [MoveTo(job, f, best) EXCEPT
                       !.cursor = IF MoveTo(job, f, best).improved THEN 1 ELSE 0,
                       !.improved = FALSE]
  BY Zenon DEF Move
<1> DEFINE moved == MoveTo(job, f, best)
           stays == best = job.community[f]
<1>2. /\ DOMAIN moved = JobFields
      /\ moved.kind = job.kind /\ moved.order = job.order /\ moved.files = job.files
      /\ moved.cursor = job.cursor
      /\ stays => moved = job /\ Settles(job, f)
      /\ ~stays => moved.improved = TRUE
  <2>1. CASE stays
    BY <1>0, <1>1, <2>1, StayingSettles, Zenon DEF MoveTo
  <2>2. CASE ~stays
    <3>1. moved = [job EXCEPT !.community[f] = best,
                              !.communityDegree = [@ EXCEPT ![job.community[f]] = @ - job.degree[f],
                                                            ![best] = @ + job.degree[f]],
                              !.improved = TRUE]
      BY <2>2, Zenon DEF MoveTo
    <3> HIDE DEF moved, f
    <3> QED
      BY <1>0, <2>2, <3>1, Zenon DEF JobFields
  <2> QED
    BY <2>1, <2>2, Zenon
<1> HIDE DEF moved, f
<1>3. moved.improved \in BOOLEAN
  BY <1>0, <1>2, Zenon
<1>4. CASE job.cursor < Len(job.order)
  <2>1. job' = [moved EXCEPT !.cursor = job.cursor + 1]
    BY <1>1, <1>2, <1>4, Zenon DEF moved
  <2>2. /\ DOMAIN job' = JobFields /\ job'.kind = job.kind /\ job'.order = job.order
        /\ job'.files = moved.files /\ job'.improved = moved.improved
        /\ job'.cursor = job.cursor + 1
        /\ job'.fileEdges = moved.fileEdges /\ job'.degree = moved.degree
        /\ job'.twoM = moved.twoM /\ job'.community = moved.community
        /\ job'.communityDegree = moved.communityDegree
    BY <1>2, <2>1, Zenon DEF JobFields
  <2>3. ASSUME ~moved.improved, NEW i \in 1..job.cursor
        PROVE  Settles(job', job.order[i])
    <3>1. moved = job /\ Settles(job, f) /\ ~job.improved
      BY <1>2, <2>3, Zenon
    <3>2. Settles(job, job.order[i])
      <4>1. i \in 1..job.cursor - 1 \/ i = job.cursor
        BY <1>0
      <4> QED
        BY <1>0, <3>1, <4>1, Zenon DEF f
    <3> QED
      BY <2>2, <3>1, <3>2, SettlesSame, Zenon
  <2>4. job.cursor + 1 - 1 = job.cursor /\ job.cursor + 1 \in Int /\ job.cursor + 1 > 0
        /\ job.cursor + 1 <= Len(job.order)
    BY <1>0, <1>4
  <2> QED
    BY <1>0, <1>2, <1>3, <2>2, <2>3, <2>4 DEF SweepInv
<1>5. CASE ~(job.cursor < Len(job.order))
  <2>0. job.cursor = Len(job.order)
    BY <1>0, <1>5
  <2>1. job' = [moved EXCEPT !.cursor = IF moved.improved THEN 1 ELSE 0, !.improved = FALSE]
    BY <1>1, <1>5, Zenon DEF moved
  <2>2. /\ DOMAIN job' = JobFields /\ job'.kind = job.kind /\ job'.order = job.order
        /\ job'.files = moved.files /\ job'.improved = FALSE
        /\ job'.cursor = IF moved.improved THEN 1 ELSE 0
        /\ job'.fileEdges = moved.fileEdges /\ job'.degree = moved.degree
        /\ job'.twoM = moved.twoM /\ job'.community = moved.community
        /\ job'.communityDegree = moved.communityDegree
    BY <1>2, <2>1, Zenon DEF JobFields
  <2>3. ASSUME ~moved.improved, NEW g \in job.files
        PROVE  Settles(job', g)
    <3>1. moved = job /\ Settles(job, f) /\ ~job.improved
      BY <1>2, <2>3, Zenon
    <3>2. PICK i \in 1..Len(job.order) : job.order[i] = g
      BY <1>0, Zenon DEF IsOrder
    <3>3. Settles(job, g)
      <4>1. i \in 1..job.cursor - 1 \/ i = job.cursor
        BY <1>0, <2>0
      <4> QED
        BY <1>0, <3>1, <3>2, <4>1, Zenon DEF f
    <3> QED
      BY <2>2, <3>1, <3>3, SettlesSame, Zenon
  <2>6. /\ DOMAIN job' = JobFields /\ IsOrder(job'.order, job'.files)
        /\ job'.improved \in BOOLEAN /\ job'.files = job.files /\ job'.order = job.order
    <3>1. job'.files = job.files /\ job'.order = job.order
      BY <1>2, <2>2, Zenon
    <3> QED
      BY <1>0, <2>2, <3>1, Zenon
  <2>4. CASE moved.improved
    <3>1. job'.cursor = 1 /\ 1 <= Len(job.order) /\ \A i \in 1..1 - 1 : FALSE
      BY <1>0, <2>2, <2>4
    <3> QED
      <4>1. /\ job'.cursor \in Int /\ job'.cursor <= Len(job'.order) /\ ~(job'.cursor = 0)
            /\ \A i \in 1..job'.cursor - 1 : Settles(job', job'.order[i])
        BY <2>6, <3>1
      <4> QED
        BY <2>6, <4>1, Zenon DEF SweepInv
  <2>5. CASE ~moved.improved
    <3>1. job'.cursor = 0
      BY <2>2, <2>5, Zenon
    <3> QED
      <4>1. job'.cursor \in Int /\ ~(job'.cursor > 0)
        BY <3>1
      <4>2. \A g \in job'.files : Settles(job', g)
        BY <2>3, <2>5, <2>6, Zenon
      <4> QED
        BY <2>6, <4>1, <4>2, Zenon DEF SweepInv
  <2> QED
    BY <2>4, <2>5, Zenon
<1> QED
  BY <1>4, <1>5, Zenon

\* What a command sees: finitely many files, with numbers.
LEMMA SeenFiles ==
  ASSUME NEW kind, NEW view \in Views
  PROVE  /\ IsFiniteSet({PathsSeen(kind, view)[n] : n \in DOMAIN PathsSeen(kind, view)})
         /\ {PathsSeen(kind, view)[n] : n \in DOMAIN PathsSeen(kind, view)} \subseteq Nat
<1> DEFINE fileOf == PathsSeen(kind, view)
<1>1. view \subseteq DOMAIN FileOf /\ IsFiniteSet(DOMAIN FileOf) /\ \A n \in DOMAIN FileOf : FileOf[n] \in Nat
  BY ModulesAssumption, Zenon
<1>2. /\ DOMAIN fileOf \subseteq DOMAIN FileOf /\ fileOf = [n \in DOMAIN fileOf |-> fileOf[n]]
      /\ \A n \in DOMAIN fileOf : fileOf[n] \in Nat
  BY <1>1, Zenon DEF PathsSeen, HiddenPath
<1> HIDE DEF fileOf
<1>3. IsFiniteSet(DOMAIN fileOf)
  BY <1>1, <1>2, FS_Subset, Zenon
<1>4. IsFiniteSet({fileOf[n] : n \in DOMAIN fileOf})
  BY <1>2, <1>3, FiniteValues
<1>5. {fileOf[n] : n \in DOMAIN fileOf} \subseteq Nat
  BY <1>2, Zenon
<1> QED
  BY <1>4, <1>5, Zenon DEF fileOf

\* The weight between two files counts edges.
LEMMA WeightsNat ==
  ASSUME NEW es, IsFiniteSet(es), NEW fileOf, NEW a, NEW b
  PROVE  Weight(AggregateFileEdges(es, fileOf), a, b) \in Nat
<1> DEFINE fe == AggregateFileEdges(es, fileOf)
           known == {e \in es : {e[1], e[2]} \subseteq DOMAIN fileOf}
           Pair(e) == LET x == fileOf[e[1]]
                          y == fileOf[e[2]] IN IF x <= y THEN <<x, y>> ELSE <<y, x>>
           pairs == {p \in {Pair(e) : e \in known} : p[1] # p[2]}
<1>1. fe = [p \in pairs |-> Cardinality({e \in known : Pair(e) = p})]
  BY Zenon DEF AggregateFileEdges
<1>2. \A p : {e \in known : Pair(e) = p} \in SUBSET es
  BY Zenon
<1> HIDE DEF known, Pair, pairs, fe
<1>3. \A p \in DOMAIN fe : fe[p] \in Nat
  <2> SUFFICES ASSUME NEW p \in pairs PROVE Cardinality({e \in known : Pair(e) = p}) \in Nat
    BY <1>1, Zenon
  <2> QED
    BY <1>2, FS_Subset, FS_CardinalityType, Zenon
<1> QED
  BY <1>3, Zenon DEF Weight, fe

\* The file at a place of the visiting order, and that a rank determines it.
AtRank(files, i) == CHOOSE f \in files : Cardinality({g \in files : g < f}) = i - 1

\* Only one file has a given number of smaller ones.
LEMMA RankPick ==
  ASSUME NEW files, NEW i, NEW x \in files, Cardinality({g \in files : g < x}) = i - 1,
         \A h \in files : Cardinality({g \in files : g < h}) = i - 1 => h = x
  PROVE  AtRank(files, i) = x
  BY Zenon DEF AtRank

\* Before the first sweep nothing is known of any file; without weights every file
\* settles alone.
LEMMA BeginSweeps ==
  ASSUME SweepInv, moduleEdges \in ModuleTables, NEW kind \in {"report", "map"},
         NEW view \in Views, Begin(kind, view)
  PROVE  SweepInv'
<1> DEFINE fileOf == PathsSeen(kind, view)
           files  == {fileOf[n] : n \in DOMAIN fileOf}
           fe     == AggregateFileEdges(moduleEdges, fileOf)
           degree == Degrees(files, fe)
           twoM   == Total(degree, files)
           before(f) == {g \in files : g < f}
           order  == [i \in 1..Cardinality(files) |-> AtRank(files, i)]
<1>1. job' = [kind |-> kind, fileOf |-> fileOf, files |-> files, order |-> order,
              fileEdges |-> fe, degree |-> degree, twoM |-> twoM,
              community |-> [f \in files |-> f], communityDegree |-> degree,
              improved |-> FALSE,
              cursor |-> IF twoM = 0 THEN 0 ELSE 1]
  BY Zenon DEF Begin, AtRank
<1>2. IsFiniteSet(files) /\ files \subseteq Nat
  BY SeenFiles, Zenon
<1>3. \A a, b : Weight(fe, a, b) \in Nat
  BY ModulesAssumption, WeightsNat, Zenon
<1>4. \A f \in files : degree[f] = Total([g \in files |-> Weight(fe, f, g)], files)
  <2> HIDE DEF files, fe
  <2> QED
    BY Zenon DEF Degrees
<1> HIDE DEF fileOf, files, fe, degree
<1>5. Cardinality(files) \in Nat
  BY <1>2, FS_CardinalityType, Zenon
<1>6. Len(order) = Cardinality(files)
  <2> DEFINE S == {order[i] : i \in 1..Cardinality(files)}
  <2>1. order \in [1..Cardinality(files) -> S]
    BY Zenon
  <2> HIDE DEF order, S
  <2>2. order \in Seq(S) /\ DOMAIN order = 1..Cardinality(files)
    BY <1>5, <2>1
  <2> QED
    BY <1>5, <2>2
<1>7. ASSUME NEW f \in files PROVE \E i \in 1..Cardinality(files) : order[i] = f
  <2> DEFINE r == Cardinality(before(f))
  <2>1. /\ r \in 0..Cardinality(files) - 1
        /\ \A h \in files : r = Cardinality(before(h)) => f = h
    BY <1>2, Ranks
  <2> DEFINE k == r + 1
  <2> HIDE DEF r
  <2>2. k \in 1..Cardinality(files) /\ k - 1 = r
    BY <1>5, <2>1
  <2> HIDE DEF k
  <2>3. order[k] = AtRank(files, k)
    BY <2>2, Zenon
  <2>4. Cardinality({g \in files : g < f}) = k - 1
    BY <2>2, Zenon DEF r
  <2>5. ASSUME NEW h \in files, Cardinality({g \in files : g < h}) = k - 1 PROVE h = f
    BY <2>1, <2>2, <2>5, Zenon
  <2> HIDE DEF before, order
  <2>6. AtRank(files, k) = f
    BY <2>4, <2>5, RankPick, Zenon
  <2> QED
    BY <2>2, <2>3, <2>6, Zenon
<1>8. IsOrder(order, files)
  BY <1>5, <1>6, <1>7, Zenon DEF IsOrder
<1>9. /\ \A f \in files : degree[f] \in Nat
      /\ \A f \in files : degree[f] = 0 => \A g \in files : Weight(fe, f, g) = 0
  <2> SUFFICES ASSUME NEW f \in files
               PROVE  degree[f] \in Nat /\ (degree[f] = 0 => \A g \in files : Weight(fe, f, g) = 0)
    BY Zenon
  <2> DEFINE w == [g \in files |-> Weight(fe, f, g)]
  <2>1. \A g \in files : w[g] \in Nat /\ w[g] = Weight(fe, f, g)
    BY <1>3, Zenon
  <2> HIDE DEF w
  <2>2. Total(w, files) \in Nat /\ (Total(w, files) = 0 => \A g \in files : w[g] = 0)
    BY <1>2, <2>1, TotalZero, Zenon
  <2> QED
    BY <1>4, <2>1, <2>2, Zenon DEF w
<1>10. twoM \in Nat /\ (twoM = 0 => \A f, g \in files : Weight(fe, f, g) = 0)
  BY <1>2, <1>9, TotalZero, Zenon
<1>11. twoM # 0 => 1 <= Cardinality(files)
  <2> SUFFICES ASSUME Cardinality(files) = 0 PROVE twoM = 0
    BY <1>5
  <2>1. files = {}
    BY <1>2, FS_EmptySet, Zenon
  <2> QED
    BY <2>1, FS_EmptySet, Zenon DEF Total
<1> HIDE DEF order, twoM
<1>12. /\ DOMAIN job' = JobFields /\ job'.order = order /\ job'.files = files
       /\ job'.fileEdges = fe /\ job'.improved = FALSE
       /\ job'.cursor = IF twoM = 0 THEN 0 ELSE 1
  BY <1>1, Zenon DEF JobFields
<1>13. CASE twoM = 0
  <2>1. ASSUME NEW f \in files PROVE Settles(job', f)
    <3>1. Neighbors(job', f) = {}
      BY <1>10, <1>12, <1>13 DEF Neighbors
    <3> QED
      BY <3>1, AloneSettles, Zenon
  <2>2. job'.cursor = 0
    BY <1>12, <1>13, Zenon
  <2>3. /\ DOMAIN job' = JobFields /\ IsOrder(job'.order, job'.files)
        /\ job'.improved \in BOOLEAN
    BY <1>8, <1>12, Zenon
  <2>4. job'.cursor \in Int /\ ~(job'.cursor > 0)
    BY <2>2
  <2>5. \A f \in job'.files : Settles(job', f)
    BY <1>12, <2>1, Zenon
  <2> QED
    BY <2>3, <2>4, <2>5, Zenon DEF SweepInv
<1>14. CASE twoM # 0
  <2>1. job'.cursor = 1 /\ \A i \in 1..1 - 1 : FALSE
    BY <1>12, <1>14
  <2>2. /\ DOMAIN job' = JobFields /\ IsOrder(job'.order, job'.files)
        /\ job'.improved \in BOOLEAN
    BY <1>8, <1>12, Zenon
  <2>3. job'.cursor \in Int /\ ~(job'.cursor = 0) /\ job'.cursor <= Len(job'.order)
    BY <1>6, <1>11, <1>12, <1>14, <2>1
  <2>4. \A i \in 1..job'.cursor - 1 : Settles(job', job'.order[i])
    BY <2>1, Zenon
  <2> QED
    BY <2>2, <2>3, <2>4, Zenon DEF SweepInv
<1> QED
  BY <1>13, <1>14, Zenon

\* Every step keeps the invariant of the sweep.
LEMMA SweepNext ==
  ASSUME SweepInv, moduleEdges \in ModuleTables, [ModulesNext]_moduleVars
  PROVE  SweepInv' /\ moduleEdges' \in ModuleTables
<1>1. ASSUME NEW view \in Views, NEW kind \in {"report", "map"}, Begin(kind, view)
      PROVE  SweepInv' /\ moduleEdges' \in ModuleTables
  BY <1>1, BeginSweeps, Zenon DEF Begin
<1>2. CASE Move
  BY <1>2, MoveSweeps, Zenon DEF Move
<1>3. CASE FoldModules
  <2>1. job' = (IF job.kind = "report" THEN [job EXCEPT !.cursor = -1] ELSE Idle)
        /\ moduleEdges' = moduleEdges /\ job.kind # "none"
    BY <1>3, Zenon DEF FoldModules, IsFolded
  <2>2. CASE job.kind = "report"
    <3>1. /\ DOMAIN job' = JobFields /\ job'.order = job.order /\ job'.files = job.files
          /\ job'.improved = job.improved /\ job'.cursor = -1
      BY <2>1, <2>2, Zenon DEF SweepInv, JobFields
    <3> QED
      BY <2>1, <3>1 DEF SweepInv
  <2>3. CASE job.kind # "report"
    BY <2>1, <2>3, Zenon DEF SweepInv, Idle
  <2> QED
    BY <2>2, <2>3, Zenon
<1>4. CASE Write \/ UNCHANGED moduleVars
  BY <1>4, Zenon DEF Write, moduleVars, SweepInv
<1>5. CASE FinishReport \/ Stop
  BY <1>5 DEF FinishReport, Stop, SweepInv, Idle
<1>6. CASE Reindex
  BY <1>6, Zenon DEF Reindex, SweepInv
<1> QED
  BY <1>1, <1>2, <1>3, <1>4, <1>5, <1>6, Zenon DEF ModulesNext

\* A clustering loop that ends has ended in a local optimum, whatever the graph:
\* no file would gain by joining the community of a neighbour.
THEOREM FoldedAlwaysOptimal == ModulesSpec => []FoldedIsLocallyOptimal
<1> DEFINE Inv == SweepInv /\ moduleEdges \in ModuleTables
<1>1. ModulesInit => Inv
  BY DEF ModulesInit, SweepInv, Idle
<1>2. Inv /\ [ModulesNext]_moduleVars => Inv'
  BY SweepNext, Zenon
<1>3. Inv => FoldedIsLocallyOptimal
  BY Zenon DEF FoldedIsLocallyOptimal, IsFolded, SweepInv, Settles
<1> QED
  BY <1>1, <1>2, <1>3, PTL DEF ModulesSpec

-----------------------------------------------------------------------------
(* RepoModules: the report.  Its files are a set of sheets, a name and what*)
(* is written under it: names tell them apart, and each is still to be     *)
(* written or on the disk.                                                 *)

Listed(q) == {q[i] : i \in DOMAIN q}

\* Modules share neither ids nor files, and cover all of the files.
IsModules(files, ms) ==
    /\ DOMAIN ms = 1..Len(ms) /\ Len(ms) \in Nat
    /\ \A m, n \in DOMAIN ms : ms[m].id = ms[n].id => m = n
    /\ \A n \in DOMAIN ms : ms[n].files \subseteq files
    /\ \A f \in files : \E n \in DOMAIN ms : f \in ms[n].files
    /\ \A m, n \in DOMAIN ms : ms[m].files \cap ms[n].files # {} => m = n

RepoSheet(fileOf) == <<<<"repos", 0>>, {RepoOf[n] : n \in DOMAIN fileOf}>>
TopSheet(ms, fe) == <<<<"modules", 0>>, ModulesCanvas(ms, fe)>>
RestSheet(ms) == <<<<"overflow", 0>>, OverflowCanvas(ms)>>
ModuleSheet(m, fe) == <<<<"module", m.id>>, ModuleCanvas(m, fe)>>
TextSheet(fileOf, ms) == <<<<"markdown", 0>>, [symbols |-> Cardinality(DOMAIN fileOf), modules |-> Cards(ms)]>>

ModuleSheets(ms, fe) == {ModuleSheet(ms[n], fe) : n \in DOMAIN ms}
Sheets(fileOf, ms, fe) ==
    {RepoSheet(fileOf), TopSheet(ms, fe)}
      \cup (IF Len(ms) > NodeBudget THEN {RestSheet(ms)} ELSE {})
      \cup ModuleSheets(ms, fe) \cup {TextSheet(fileOf, ms)}

OnDisk(x, d) == x[1] \in DOMAIN d /\ d[x[1]] = x[2]

\* The report q has yet to be written to d, but for what is there.
Underway(files, q, d) ==
    \E fileOf, ms, fe :
        /\ IsModules(files, ms)
        /\ q \in Seq(Sheets(fileOf, ms, fe))
        /\ \A x \in Sheets(fileOf, ms, fe) : x \in Listed(q) \/ OnDisk(x, d)

ReportInv ==
    /\ job.kind # "none" => IsFiniteSet(job.files) /\ job.files \subseteq Nat
    /\ job.kind = "report" /\ job.cursor = -1 => Underway(job.files, plan, disk)

-----------------------------------------------------------------------------
(* Modules.                                                                *)

\* What comes before in a list, by size and then by id.
Earlier(size, a, b) == size[a] > size[b] \/ (size[a] = size[b] /\ a < b)
PlaceOf(ids, size, i) == 1 + Cardinality({k \in ids : Earlier(size, k, i)})

\* Places are the positions of a list.
PlacesTell(ids, size) ==
    /\ Cardinality(ids) \in Nat
    /\ \A i \in ids : PlaceOf(ids, size, i) \in 1..Cardinality(ids)
    /\ \A i, j \in ids : PlaceOf(ids, size, i) = PlaceOf(ids, size, j) => i = j
    /\ \A n \in 1..Cardinality(ids) : \E i \in ids : PlaceOf(ids, size, i) = n

\* By size and id every element of a finite set has one.
LEMMA PlacesList ==
  ASSUME NEW ids \in SUBSET Nat, IsFiniteSet(ids), NEW size, \A i \in ids : size[i] \in Nat
  PROVE  PlacesTell(ids, size)
<1>. DEFINE K == Cardinality(ids)
            Pre(i) == {k \in ids : Earlier(size, k, i)}
<1>1. \A i \in ids : IsFiniteSet(Pre(i)) /\ Pre(i) \subseteq ids
  BY FS_Subset, Zenon
<1>2. K \in Nat /\ \A i \in ids : Cardinality(Pre(i)) \in Nat
  BY <1>1, FS_CardinalityType, Zenon
<1>3. \A i \in ids : ~Earlier(size, i, i)
  BY DEF Earlier
<1>4. \A i, j, k \in ids : Earlier(size, i, j) /\ Earlier(size, j, k) => Earlier(size, i, k)
  <2>. SUFFICES ASSUME NEW i \in ids, NEW j \in ids, NEW k \in ids, Earlier(size, i, j), Earlier(size, j, k)
                PROVE  Earlier(size, i, k)
    BY Zenon
  <2>1. i \in Nat /\ j \in Nat /\ k \in Nat /\ size[i] \in Nat /\ size[j] \in Nat /\ size[k] \in Nat
    BY Zenon
  <2>. QED  BY <2>1 DEF Earlier
<1>5. \A i, j \in ids : i = j \/ Earlier(size, i, j) \/ Earlier(size, j, i)
  <2>. SUFFICES ASSUME NEW i \in ids, NEW j \in ids PROVE i = j \/ Earlier(size, i, j) \/ Earlier(size, j, i)
    BY Zenon
  <2>1. i \in Nat /\ j \in Nat /\ size[i] \in Nat /\ size[j] \in Nat
    BY Zenon
  <2>. QED  BY <2>1 DEF Earlier
<1>6. ASSUME NEW S, NEW T, S \subseteq T, IsFiniteSet(T), NEW x \in T, x \notin S
      PROVE  Cardinality(S) \in Nat /\ Cardinality(T) \in Nat /\ Cardinality(S) < Cardinality(T)
  BY <1>6, FS_Subset, FS_CardinalityType
<1>7. ASSUME NEW i \in ids, NEW j \in ids, Earlier(size, i, j) PROVE Cardinality(Pre(i)) < Cardinality(Pre(j))
  <2>1. Pre(i) \subseteq Pre(j) /\ i \in Pre(j) /\ i \notin Pre(i)
    BY <1>3, <1>4, <1>7, Zenon
  <2>. HIDE DEF Pre
  <2>. QED  BY <1>1, <1>6, <2>1, Zenon
<1>8. \A i \in ids : Cardinality(Pre(i)) < K
  <2>1. \A i \in ids : i \notin Pre(i)
    BY <1>3, Zenon
  <2>. HIDE DEF Pre
  <2>. QED  BY <1>1, <1>6, <2>1, Zenon
<1>9. \A i \in ids : PlaceOf(ids, size, i) = 1 + Cardinality(Pre(i))
  BY Zenon DEF PlaceOf
<1>. HIDE DEF Pre, K
<1>10. \A i \in ids : PlaceOf(ids, size, i) \in 1..K
  BY <1>2, <1>8, <1>9
<1>11. ASSUME NEW i \in ids, NEW j \in ids, PlaceOf(ids, size, i) = PlaceOf(ids, size, j) PROVE i = j
  <2>1. Cardinality(Pre(i)) = Cardinality(Pre(j))
    BY <1>2, <1>9, <1>11
  <2>2. ~(Cardinality(Pre(i)) < Cardinality(Pre(j))) /\ ~(Cardinality(Pre(j)) < Cardinality(Pre(i)))
    BY <1>2, <2>1
  <2>. QED  BY <1>5, <1>7, <2>2, Zenon
<1>12. ASSUME NEW n \in 1..K, \A i \in ids : PlaceOf(ids, size, i) # n PROVE FALSE
  <2>. DEFINE T == (1..K) \ {n}
              f == [i \in ids |-> PlaceOf(ids, size, i)]
  <2>1. IsFiniteSet(1..K) /\ Cardinality(1..K) = K
    BY <1>2, FS_Interval
  <2>2. IsFiniteSet(T) /\ Cardinality(T) = K - 1
    <3>. DEFINE R == 1..K
    <3>1. IsFiniteSet(R) /\ Cardinality(R) = K /\ n \in R /\ T = R \ {n}
      BY <2>1, Zenon
    <3>. HIDE DEF R, T
    <3>. QED  BY <3>1, FS_RemoveElement, Zenon
  <2>3. f \in [ids -> T]
    BY <1>10, <1>12, Zenon
  <2>. HIDE DEF T
  <2>4. \E x, y \in ids : x # y /\ f[x] = f[y]
    <3>1. Cardinality(T) < Cardinality(ids)
      BY <1>2, <2>2 DEF K
    <3>. HIDE DEF f
    <3>. QED  BY <2>2, <2>3, <3>1, FS_PigeonHole, Zenon
  <2>. QED  BY <1>11, <2>4, Zenon
<1>. QED  BY <1>2, <1>10, <1>11, <1>12, Zenon DEF K, PlacesTell

\* A list by function.
LEMMA ListLen ==
  ASSUME NEW K \in Nat, NEW q, DOMAIN q = 1..K, q = [n \in 1..K |-> q[n]]
  PROVE  q \in Seq(Listed(q)) /\ Len(q) = K
<1>1. q \in [1..K -> Listed(q)]
  BY Zenon DEF Listed
<1>. QED  BY <1>1

\* build_modules makes modules, whatever the communities are numbered.
LEMMA BuildsModules ==
  ASSUME NEW files, IsFiniteSet(files), NEW cm \in [files -> Nat], NEW label
  PROVE  IsModules(files, BuildModules(files, cm, label))
<1>. DEFINE ids == {cm[f] : f \in files}
            Inside(i) == {f \in files : cm[f] = i}
            size == [i \in ids |-> Cardinality(Inside(i))]
            K == Cardinality(ids)
            At(n) == CHOOSE i \in ids : PlaceOf(ids, size, i) = n
            ms == [n \in 1..K |-> [id |-> At(n), label |-> label[At(n)], files |-> Inside(At(n))]]
<1>1. BuildModules(files, cm, label) = ms
  <2>1. ASSUME NEW i \in ids, NEW k \in ids
        PROVE  Earlier(size, k, i) <=> \/ Cardinality(Inside(k)) > Cardinality(Inside(i))
                                       \/ Cardinality(Inside(k)) = Cardinality(Inside(i)) /\ k < i
    BY Zenon DEF Earlier
  <2>2. \A i \in ids : PlaceOf(ids, size, i) = 1 + Cardinality({k \in ids :
              \/ Cardinality(Inside(k)) > Cardinality(Inside(i))
              \/ Cardinality(Inside(k)) = Cardinality(Inside(i)) /\ k < i})
    <3>. SUFFICES ASSUME NEW i \in ids
                  PROVE  {k \in ids : Earlier(size, k, i)} = {k \in ids :
                            \/ Cardinality(Inside(k)) > Cardinality(Inside(i))
                            \/ Cardinality(Inside(k)) = Cardinality(Inside(i)) /\ k < i}
      BY Zenon DEF PlaceOf
    <3>. HIDE DEF ids, size
    <3>. QED  BY <2>1, Zenon
  <2>. QED  BY <2>2, ZenonT(60) DEF BuildModules
<1>2. IsFiniteSet(ids) /\ ids \in SUBSET Nat
  <2>1. DOMAIN cm = files /\ cm = [f \in files |-> cm[f]]
    BY Zenon
  <2>2. IsFiniteSet(ids)
    BY <2>1, FiniteValues
  <2>. QED  BY <2>2, Zenon
<1>3. \A i \in ids : size[i] \in Nat
  <2>1. \A i \in ids : IsFiniteSet(Inside(i))
    BY FS_Subset, Zenon
  <2>. QED  BY <2>1, FS_CardinalityType, Zenon
<1>. HIDE DEF size
<1>4. /\ K \in Nat
      /\ \A i \in ids : PlaceOf(ids, size, i) \in 1..K
      /\ \A i, j \in ids : PlaceOf(ids, size, i) = PlaceOf(ids, size, j) => i = j
      /\ \A n \in 1..K : \E i \in ids : PlaceOf(ids, size, i) = n
  <2>1. PlacesTell(ids, size)
    <3>. HIDE DEF ids
    <3>. QED  BY <1>2, <1>3, PlacesList, Zenon
  <2>. QED  BY <2>1, Zenon DEF PlacesTell
<1>5. \A n \in 1..K : At(n) \in ids /\ PlaceOf(ids, size, At(n)) = n
  BY <1>4, Zenon
<1>6. \A m, n \in 1..K : At(m) = At(n) => m = n
  BY <1>5, Zenon
<1>7. \A i \in ids : At(PlaceOf(ids, size, i)) = i
  BY <1>4, <1>5, Zenon
<1>. HIDE DEF At, K
<1>8. DOMAIN ms = 1..K /\ \A n \in 1..K : ms[n].id = At(n) /\ ms[n].files = Inside(At(n))
  BY Zenon
<1>9. Len(ms) = K
  <2>1. ms = [n \in 1..K |-> ms[n]]
    BY Zenon
  <2>. HIDE DEF ms
  <2>. QED  BY <1>4, <1>8, <2>1, ListLen, Zenon
<1>. HIDE DEF ms
<1>10. \A m, n \in 1..K : ms[m].id = ms[n].id => m = n
  <2>. SUFFICES ASSUME NEW m \in 1..K, NEW n \in 1..K, ms[m].id = ms[n].id PROVE m = n
    BY Zenon
  <2>1. At(m) = At(n)
    BY <1>8, Zenon
  <2>. QED  BY <1>6, <2>1, Zenon
<1>11. \A n \in 1..K : ms[n].files \subseteq files
  BY <1>8, Zenon
<1>12. \A f \in files : \E n \in 1..K : f \in ms[n].files
  <2>. SUFFICES ASSUME NEW f \in files PROVE \E n \in 1..K : f \in ms[n].files
    BY Zenon
  <2>1. cm[f] \in ids /\ f \in Inside(cm[f])
    BY Zenon
  <2>. DEFINE n == PlaceOf(ids, size, cm[f])
  <2>2. n \in 1..K /\ At(n) = cm[f]
    BY <1>4, <1>7, <2>1, Zenon
  <2>. HIDE DEF n
  <2>3. f \in ms[n].files
    BY <1>8, <2>1, <2>2, Zenon
  <2>. QED  BY <2>2, <2>3, Zenon
<1>13. \A m, n \in 1..K : ms[m].files \cap ms[n].files # {} => m = n
  <2>. SUFFICES ASSUME NEW m \in 1..K, NEW n \in 1..K, ms[m].files \cap ms[n].files # {} PROVE m = n
    BY Zenon
  <2>1. PICK f \in files : cm[f] = At(m) /\ cm[f] = At(n)
    BY <1>8, Zenon
  <2>. QED  BY <1>6, <2>1, Zenon
<1>. QED  BY <1>1, <1>4, <1>8, <1>9, <1>10, <1>11, <1>12, <1>13, ZenonT(60) DEF IsModules

\* renumber gives numbers.
LEMMA RenumberNat ==
  ASSUME NEW files, IsFiniteSet(files), NEW community
  PROVE  Renumber(files, community) \in [files -> Nat]
<1>. DEFINE First(c) == CHOOSE f \in files : community[f] = c /\ \A g \in files : community[g] = c => f <= g
            first == [f \in files |-> First(community[f])]
            Founders == {first[f] : f \in files}
            Before(f) == {g \in Founders : g < first[f]}
<1>1. Renumber(files, community) = [f \in files |-> Cardinality(Before(f))]
  <2>1. {First(community[f]) : f \in files} = Founders
    BY Zenon
  <2>2. \A f \in files : {g \in {First(community[h]) : h \in files} : g < First(community[f])} = Before(f)
    <3>. HIDE DEF First
    <3>. QED  BY <2>1, Zenon
  <2>3. Renumber(files, community) =
          [f \in files |-> Cardinality({g \in {First(community[h]) : h \in files} : g < First(community[f])})]
    BY Zenon DEF Renumber
  <2>. HIDE DEF First, Before
  <2>. QED  BY <2>2, <2>3, Zenon
<1>2. IsFiniteSet(Founders)
  <2>1. DOMAIN first = files /\ first = [f \in files |-> first[f]]
    OBVIOUS
  <2>. HIDE DEF first
  <2>. QED  BY <2>1, FiniteValues
<1>. HIDE DEF Founders, first
<1>3. \A f \in files : Cardinality(Before(f)) \in Nat
  <2>1. \A f \in files : Before(f) \subseteq Founders
    BY Zenon
  <2>. HIDE DEF Before
  <2>. QED  BY <1>2, <2>1, FS_Subset, FS_CardinalityType, Zenon
<1>. HIDE DEF Before
<1>. QED  BY <1>1, <1>3, Zenon

-----------------------------------------------------------------------------
(* The plan.                                                               *)

\* The elements of a list put together, and of one that is taken apart.
LEMMA ListedTogether ==
  ASSUME NEW S, NEW a \in Seq(S), NEW b \in Seq(S)
  PROVE  a \o b \in Seq(S) /\ Listed(a \o b) = Listed(a) \cup Listed(b)
<1>1. /\ a \o b \in Seq(S) /\ Len(a \o b) = Len(a) + Len(b)
      /\ DOMAIN a = 1..Len(a) /\ DOMAIN b = 1..Len(b) /\ DOMAIN (a \o b) = 1..(Len(a) + Len(b))
      /\ Len(a) \in Nat /\ Len(b) \in Nat
  BY ConcatProperties, LenProperties
<1>2. \A i \in 1..Len(a) + Len(b) : (a \o b)[i] = IF i <= Len(a) THEN a[i] ELSE b[i - Len(a)]
  BY ConcatProperties, Zenon
<1>. DEFINE q == a \o b
<1>. HIDE DEF q
<1>3. \A i \in 1..Len(a) : i \in 1..(Len(a) + Len(b)) /\ q[i] = a[i]
  BY <1>1, <1>2 DEF q
<1>4. \A i \in 1..Len(b) : Len(a) + i \in 1..(Len(a) + Len(b)) /\ q[Len(a) + i] = b[i]
  <2>. SUFFICES ASSUME NEW i \in 1..Len(b)
                PROVE  Len(a) + i \in 1..(Len(a) + Len(b)) /\ q[Len(a) + i] = b[i]
    BY Zenon
  <2>1. Len(a) + i \in 1..Len(a) + Len(b) /\ ~(Len(a) + i <= Len(a)) /\ Len(a) + i - Len(a) = i
    BY <1>1
  <2>2. q[Len(a) + i] = b[Len(a) + i - Len(a)]
    <3>. DEFINE k == Len(a) + i
    <3>1. k \in 1..Len(a) + Len(b) /\ ~(k <= Len(a))
      BY <2>1, Zenon
    <3>. HIDE DEF k
    <3>2. q[k] = b[k - Len(a)]
      BY <1>2, <3>1, Zenon DEF q
    <3>. QED  BY <3>2 DEF k
  <2>. QED  BY <2>1, <2>2, Zenon
<1>5. \A i \in 1..(Len(a) + Len(b)) : i \in 1..Len(a) \/ i - Len(a) \in 1..Len(b)
  BY <1>1
<1>6. \A i \in 1..(Len(a) + Len(b)) : (\E j \in 1..Len(a) : q[i] = a[j]) \/ (\E j \in 1..Len(b) : q[i] = b[j])
  <2>. SUFFICES ASSUME NEW i \in 1..(Len(a) + Len(b))
                PROVE  (\E j \in 1..Len(a) : q[i] = a[j]) \/ (\E j \in 1..Len(b) : q[i] = b[j])
    BY Zenon
  <2>1. CASE i <= Len(a)
    <3>1. i \in 1..Len(a)
      BY <1>1, <2>1
    <3>. QED  BY <1>3, <3>1, Zenon
  <2>2. CASE ~(i <= Len(a))
    <3>1. i - Len(a) \in 1..Len(b)
      BY <1>1, <2>2
    <3>. QED  BY <1>2, <2>2, <3>1, Zenon DEF q
  <2>. QED  BY <2>1, <2>2, Zenon
<1>7. Listed(q) = Listed(a) \cup Listed(b)
  <2>1. ASSUME NEW x \in Listed(q) PROVE x \in Listed(a) \cup Listed(b)
    <3>1. PICK i \in 1..(Len(a) + Len(b)) : x = q[i]
      BY <1>1, Zenon DEF Listed, q
    <3>. QED  BY <1>1, <1>6, <3>1, Zenon DEF Listed
  <2>2. ASSUME NEW x \in Listed(a) PROVE x \in Listed(q)
    <3>1. PICK i \in 1..Len(a) : x = a[i]
      BY <1>1, Zenon DEF Listed
    <3>2. i \in DOMAIN q /\ x = q[i]
      BY <1>1, <1>3, <3>1, Zenon DEF q
    <3>. QED  BY <3>2, Zenon DEF Listed
  <2>3. ASSUME NEW x \in Listed(b) PROVE x \in Listed(q)
    <3>1. PICK i \in 1..Len(b) : x = b[i]
      BY <1>1, Zenon DEF Listed
    <3>2. Len(a) + i \in DOMAIN q /\ x = q[Len(a) + i]
      BY <1>1, <1>4, <3>1, Zenon DEF q
    <3>. QED  BY <3>2, Zenon DEF Listed
  <2>. QED  BY <2>1, <2>2, <2>3, Zenon
<1>. QED  BY <1>1, <1>7, Zenon DEF q

\* A list is its head and its tail.
LEMMA ListedHead ==
  ASSUME NEW S, NEW q \in Seq(S), q # <<>>
  PROVE  Head(q) \in S /\ Tail(q) \in Seq(S) /\ Listed(q) = {Head(q)} \cup Listed(Tail(q))
<1>1. /\ Head(q) \in S /\ Tail(q) \in Seq(S) /\ Len(Tail(q)) = Len(q) - 1
      /\ Len(q) \in Nat /\ Len(q) # 0 /\ DOMAIN q = 1..Len(q) /\ Head(q) = q[1]
  BY HeadTailProperties, LenProperties, EmptySeq
<1>2. \A i \in 1..Len(Tail(q)) : Tail(q)[i] = q[i + 1]
  BY HeadTailProperties, Zenon
<1>3. DOMAIN Tail(q) = 1..(Len(q) - 1)
  BY <1>1, LenProperties, Zenon
<1>. DEFINE t == Tail(q)
            n == Len(q)
<1>. HIDE DEF t, n
<1>4. \A i \in 1..(n - 1) : t[i] = q[i + 1] /\ i + 1 \in 1..n
  BY <1>1, <1>2, <1>3 DEF t, n
<1>5. \A i \in 1..n : i # 1 => i - 1 \in 1..(n - 1) /\ (i - 1) + 1 = i
  BY <1>1 DEF n
<1>6. \A i \in 1..n : i # 1 => \E j \in 1..(n - 1) : q[i] = t[j]
  BY <1>4, <1>5, Zenon
<1>7. 1 \in 1..n
  BY <1>1 DEF n
<1>8. Listed(q) = {q[1]} \cup Listed(t)
  <2>1. Listed(q) = {q[i] : i \in 1..n} /\ Listed(t) = {t[i] : i \in 1..(n - 1)}
    BY <1>1, <1>3, Zenon DEF Listed, t, n
  <2>2. ASSUME NEW x \in Listed(q) PROVE x \in {q[1]} \cup Listed(t)
    <3>1. PICK i \in 1..n : x = q[i]
      BY <2>1, Zenon
    <3>. QED  BY <1>6, <2>1, <3>1, Zenon
  <2>3. ASSUME NEW x \in Listed(t) PROVE x \in Listed(q)
    <3>1. PICK i \in 1..(n - 1) : x = t[i]
      BY <2>1, Zenon
    <3>2. i + 1 \in 1..n /\ x = q[i + 1]
      BY <1>4, <3>1, Zenon
    <3>. QED  BY <2>1, <3>2, Zenon
  <2>4. q[1] \in Listed(q)
    BY <1>7, <2>1, Zenon
  <2>. QED  BY <2>2, <2>3, <2>4, Zenon
<1>. QED  BY <1>1, <1>8, Zenon DEF t

\* The plan of generate lists the sheets of a report.
LEMMA PlanLists ==
  ASSUME NEW fileOf, NEW ms, DOMAIN ms = 1..Len(ms), Len(ms) \in Nat, NEW fe
  PROVE  /\ ReportFiles(fileOf, ms, fe) \in Seq(Sheets(fileOf, ms, fe))
         /\ Listed(ReportFiles(fileOf, ms, fe)) = Sheets(fileOf, ms, fe)
<1>. DEFINE S == Sheets(fileOf, ms, fe)
            a == <<RepoSheet(fileOf), TopSheet(ms, fe)>>
            b == IF Len(ms) > NodeBudget THEN <<RestSheet(ms)>> ELSE <<>>
            c == [n \in DOMAIN ms |-> ModuleSheet(ms[n], fe)]
            d == <<TextSheet(fileOf, ms)>>
            B == IF Len(ms) > NodeBudget THEN {RestSheet(ms)} ELSE {}
<1>1. ReportFiles(fileOf, ms, fe) = a \o b \o c \o d
  BY Zenon DEF ReportFiles, RepoSheet, TopSheet, RestSheet, ModuleSheet, TextSheet
<1>2. S = {RepoSheet(fileOf), TopSheet(ms, fe)} \cup B \cup ModuleSheets(ms, fe) \cup {TextSheet(fileOf, ms)}
  BY Zenon DEF Sheets
<1>3. a \in Seq(S) /\ Listed(a) = {RepoSheet(fileOf), TopSheet(ms, fe)}
  <2>. DEFINE x == RepoSheet(fileOf)
              y == TopSheet(ms, fe)
  <2>1. x \in S /\ y \in S
    BY <1>2, Zenon
  <2>. HIDE DEF x, y, S
  <2>2. <<x, y>> \in Seq(S) /\ Listed(<<x, y>>) = {x, y}
    BY <2>1 DEF Listed
  <2>. QED  BY <2>2, Zenon DEF x, y
<1>4. b \in Seq(S) /\ Listed(b) = B
  <2>. DEFINE x == RestSheet(ms)
  <2>1. CASE Len(ms) > NodeBudget
    <3>1. x \in S /\ b = <<x>> /\ B = {x}
      BY <1>2, <2>1, Zenon
    <3>. HIDE DEF x, S, b, B
    <3>. QED  BY <3>1 DEF Listed
  <2>2. CASE ~(Len(ms) > NodeBudget)
    <3>1. b = <<>> /\ B = {}
      BY <2>2, Zenon
    <3>. HIDE DEF S, b, B
    <3>. QED  BY <3>1 DEF Listed
  <2>. QED  BY <2>1, <2>2, Zenon
<1>5. c \in Seq(S) /\ Listed(c) = ModuleSheets(ms, fe)
  <2>1. ModuleSheets(ms, fe) \subseteq S
    BY <1>2, Zenon
  <2>2. \A n \in 1..Len(ms) : ModuleSheet(ms[n], fe) \in S
    BY <2>1, Zenon DEF ModuleSheets
  <2>. DEFINE K == Len(ms)
  <2>. HIDE DEF S, K
  <2>3. c = [n \in 1..K |-> ModuleSheet(ms[n], fe)] /\ K \in Nat
    BY Zenon DEF K
  <2>4. c \in [1..K -> S]
    BY <2>2, <2>3, Zenon DEF K
  <2>5. c \in Seq(S)
    <3>. HIDE DEF c
    <3>. QED  BY <2>3, <2>4
  <2>6. Listed(c) = ModuleSheets(ms, fe)
    BY <2>3, Zenon DEF Listed, ModuleSheets, K
  <2>. QED  BY <2>5, <2>6, Zenon
<1>6. d \in Seq(S) /\ Listed(d) = {TextSheet(fileOf, ms)}
  <2>. DEFINE x == TextSheet(fileOf, ms)
  <2>1. x \in S
    BY <1>2, Zenon
  <2>. HIDE DEF x, S
  <2>2. <<x>> \in Seq(S) /\ Listed(<<x>>) = {x}
    BY <2>1 DEF Listed
  <2>. QED  BY <2>2, Zenon DEF x
<1>. HIDE DEF S, a, b, c, d, B
<1>. DEFINE ab == a \o b
            abc == ab \o c
            abcd == abc \o d
<1>7. ab \in Seq(S) /\ Listed(ab) = Listed(a) \cup Listed(b)
  <2>1. a \in Seq(S) /\ b \in Seq(S)
    BY <1>3, <1>4, Zenon
  <2>. QED  BY <2>1, ListedTogether, ZenonT(60)
<1>8. abc \in Seq(S) /\ Listed(abc) = Listed(ab) \cup Listed(c)
  <2>1. ab \in Seq(S) /\ c \in Seq(S)
    BY <1>5, <1>7, Zenon
  <2>. HIDE DEF ab
  <2>. QED  BY <2>1, ListedTogether, ZenonT(60)
<1>9. abcd \in Seq(S) /\ Listed(abcd) = Listed(abc) \cup Listed(d)
  <2>1. abc \in Seq(S) /\ d \in Seq(S)
    BY <1>6, <1>8, Zenon
  <2>. HIDE DEF abc
  <2>. QED  BY <2>1, ListedTogether, ZenonT(60)
<1>10. Listed(abcd) = S
  <2>. HIDE DEF ab, abc, abcd
  <2>. QED  BY <1>2, <1>3, <1>4, <1>5, <1>6, <1>7, <1>8, <1>9, Zenon
<1>. QED  BY <1>1, <1>9, <1>10, Zenon DEF S

\* Names tell the sheets of a report apart.
LEMMA SheetsDiffer ==
  ASSUME NEW files, NEW fileOf, NEW ms, IsModules(files, ms), NEW fe,
         NEW x \in Sheets(fileOf, ms, fe), NEW y \in Sheets(fileOf, ms, fe), x[1] = y[1]
  PROVE  x = y
<1>. DEFINE Plain == {RepoSheet(fileOf), TopSheet(ms, fe), RestSheet(ms), TextSheet(fileOf, ms)}
<1>1. \A z \in Sheets(fileOf, ms, fe) : z \in Plain \/ z \in ModuleSheets(ms, fe)
  BY Zenon DEF Sheets
<1>2. \A z, w \in Plain : z[1] = w[1] => z = w
  <2>1. /\ RepoSheet(fileOf)[1] = <<"repos", 0>> /\ TopSheet(ms, fe)[1] = <<"modules", 0>>
        /\ RestSheet(ms)[1] = <<"overflow", 0>> /\ TextSheet(fileOf, ms)[1] = <<"markdown", 0>>
    BY Zenon DEF RepoSheet, TopSheet, RestSheet, TextSheet
  <2>2. /\ <<"repos", 0>> # <<"modules", 0>> /\ <<"repos", 0>> # <<"overflow", 0>> /\ <<"repos", 0>> # <<"markdown", 0>>
        /\ <<"modules", 0>> # <<"overflow", 0>> /\ <<"modules", 0>> # <<"markdown", 0>>
        /\ <<"overflow", 0>> # <<"markdown", 0>>
    BY Zenon
  <2>. QED  BY <2>1, <2>2, Zenon
<1>3. \A z \in Plain : \A i : z[1] # <<"module", i>>
  <2>1. \A z \in Plain : z[1][1] # "module"
    BY DEF RepoSheet, TopSheet, RestSheet, TextSheet
  <2>2. \A i : <<"module", i>>[1] = "module"
    BY Zenon
  <2>. QED  BY <2>1, <2>2, Zenon
<1>4. \A z \in ModuleSheets(ms, fe) : \E n \in DOMAIN ms : z = ModuleSheet(ms[n], fe) /\ z[1] = <<"module", ms[n].id>>
  BY DEF ModuleSheets, ModuleSheet
<1>. HIDE DEF Plain
<1>5. CASE x \in Plain /\ y \in Plain
  BY <1>2, <1>5, Zenon
<1>6. CASE x \in ModuleSheets(ms, fe) /\ y \in ModuleSheets(ms, fe)
  <2>1. PICK m \in DOMAIN ms : x = ModuleSheet(ms[m], fe) /\ x[1] = <<"module", ms[m].id>>
    BY <1>4, <1>6, Zenon
  <2>2. PICK n \in DOMAIN ms : y = ModuleSheet(ms[n], fe) /\ y[1] = <<"module", ms[n].id>>
    BY <1>4, <1>6, Zenon
  <2>3. <<"module", ms[m].id>> = <<"module", ms[n].id>>
    BY <2>1, <2>2, Zenon
  <2>4. ms[m].id = ms[n].id
    BY <2>3, Zenon
  <2>5. m = n
    BY <2>4, Zenon DEF IsModules
  <2>. QED  BY <2>1, <2>2, <2>5, Zenon
<1>. QED  BY <1>1, <1>3, <1>4, <1>5, <1>6, Zenon

-----------------------------------------------------------------------------
(* Writing and reading the report.                                         *)

\* A sheet is written.
LEMMA SheetWritten ==
  ASSUME NEW files, NEW q, NEW d, Underway(files, q, d), q # <<>>
  PROVE  Underway(files, Tail(q), Put(d, Head(q)[1], Head(q)[2]))
<1>. DEFINE h == Head(q)
            d2 == Put(d, h[1], h[2])
<1>1. PICK fileOf, ms, fe :
        /\ IsModules(files, ms)
        /\ q \in Seq(Sheets(fileOf, ms, fe))
        /\ \A x \in Sheets(fileOf, ms, fe) : x \in Listed(q) \/ OnDisk(x, d)
  BY Zenon DEF Underway
<1>. DEFINE S == Sheets(fileOf, ms, fe)
<1>2. h \in S /\ Tail(q) \in Seq(S) /\ Listed(q) = {h} \cup Listed(Tail(q))
  BY <1>1, ListedHead, Zenon
<1>3. \A x, y \in S : x[1] = y[1] => x = y
  BY <1>1, SheetsDiffer, Zenon
<1>4. OnDisk(h, d2)
  BY Zenon DEF OnDisk, Put
<1>5. ASSUME NEW x \in S PROVE x \in Listed(Tail(q)) \/ OnDisk(x, d2)
  <2>1. CASE x = h
    BY <1>4, <2>1, Zenon
  <2>2. CASE x # h /\ OnDisk(x, d)
    <3>1. x[1] # h[1]
      BY <1>2, <1>3, <2>2, Zenon
    <3>. QED  BY <2>2, <3>1, Zenon DEF OnDisk, Put
  <2>3. x \in Listed(q) \/ OnDisk(x, d)
    BY <1>1, Zenon
  <2>4. CASE x # h /\ x \in Listed(q)
    BY <1>2, <2>4, Zenon
  <2>. QED  BY <2>1, <2>2, <2>3, <2>4, Zenon
<1>. QED  BY <1>1, <1>2, <1>5, Zenon DEF Underway

\* Cut in two, the list of modules is on the canvas and behind its link.
LEMMA CanvasAndRest ==
  ASSUME NEW S, NEW C \in Seq(S), NEW B \in Nat \ {0}
  PROVE  /\ Len(C) <= B => SubSeq(C, 1, Len(C)) = C
         /\ Len(C) > B => /\ SubSeq(C, 1, B - 1) \o SubSeq(C, B, Len(C)) = C
                          /\ Len(SubSeq(C, 1, B - 1)) = B - 1
                          /\ Len(SubSeq(C, B, Len(C))) = Len(C) - (B - 1)
<1>. DEFINE K == Len(C)
<1>1. K \in Nat /\ DOMAIN C = 1..K /\ \A i \in 1..K : C[i] \in S
  BY LenProperties, ElementOfSeq, Zenon
<1>2. SubSeq(C, 1, K) = C
  <2>. DEFINE a == SubSeq(C, 1, K)
  <2>1. /\ a \in Seq(S) /\ Len(a) = IF 1 <= K THEN K - 1 + 1 ELSE 0
        /\ \A i \in 1..K - 1 + 1 : a[i] = C[1 + i - 1]
    <3>. HIDE DEF K
    <3>1. 1 \in Int /\ K \in Int
      BY <1>1
    <3>. QED  BY <1>1, <3>1, SubSeqProperties
  <2>. HIDE DEF a, K
  <2>2. Len(a) = K /\ \A i \in 1..K : a[i] = C[i]
    BY <1>1, <2>1
  <2>3. a = C
    <3>1. Len(a) = Len(C) /\ \A i \in 1..Len(C) : a[i] = C[i]
      BY <2>2, Zenon DEF K
    <3>. QED  BY <2>1, <3>1, SeqEqual, Zenon
  <2>. QED  BY <2>3, Zenon DEF a
<1>3. ASSUME K > B
      PROVE  /\ SubSeq(C, 1, B - 1) \o SubSeq(C, B, K) = C
             /\ Len(SubSeq(C, 1, B - 1)) = B - 1
             /\ Len(SubSeq(C, B, K)) = K - (B - 1)
  <2>. DEFINE m == B - 1
              a == SubSeq(C, 1, m)
              b == SubSeq(C, B, K)
  <2>0. m \in Nat /\ m \in Int /\ 1 \in Int /\ B \in Int /\ K \in Int /\ m + 1 = B /\ m <= K /\ B <= K
    BY <1>1, <1>3
  <2>. HIDE DEF m, K
  <2>1. /\ a \in Seq(S) /\ Len(a) = IF 1 <= m THEN m - 1 + 1 ELSE 0
        /\ \A i \in 1..m - 1 + 1 : a[i] = C[1 + i - 1]
    <3>1. \A i \in 1..m : C[i] \in S
      BY <1>1, <2>0
    <3>. QED  BY <2>0, <3>1, SubSeqProperties
  <2>2. /\ b \in Seq(S) /\ Len(b) = IF B <= K THEN K - B + 1 ELSE 0
        /\ \A i \in 1..K - B + 1 : b[i] = C[B + i - 1]
    <3>1. \A i \in B..K : C[i] \in S
      BY <1>1, <2>0
    <3>. QED  BY <2>0, <3>1, SubSeqProperties
  <2>. HIDE DEF a, b
  <2>3. Len(a) = m /\ \A i \in 1..m : a[i] = C[i]
    BY <2>0, <2>1
  <2>4. Len(b) = K - m /\ \A i \in 1..(K - m) : b[i] = C[m + i]
    <3>1. Len(b) = K - m
      BY <2>0, <2>2
    <3>2. ASSUME NEW i \in 1..(K - m) PROVE b[i] = C[m + i]
      <4>1. i \in 1..K - B + 1 /\ B + i - 1 = m + i
        BY <2>0
      <4>2. b[i] = C[B + i - 1]
        BY <2>2, <4>1, Zenon
      <4>. QED  BY <4>1, <4>2, Zenon
    <3>. QED  BY <3>1, <3>2, Zenon
  <2>. DEFINE c == a \o b
  <2>5. /\ c \in Seq(S) /\ Len(c) = Len(a) + Len(b)
        /\ \A i \in 1..Len(a) + Len(b) : c[i] = IF i <= Len(a) THEN a[i] ELSE b[i - Len(a)]
    BY <2>1, <2>2, ConcatProperties, ZenonT(60)
  <2>. HIDE DEF c
  <2>6. Len(c) = K
    BY <1>1, <2>0, <2>3, <2>4, <2>5
  <2>7. ASSUME NEW i \in 1..K PROVE c[i] = C[i]
    <3>0. i \in 1..Len(a) + Len(b)
      BY <1>1, <2>0, <2>3, <2>4
    <3>1. CASE i <= m
      <4>1. i \in 1..m
        BY <2>0, <3>1
      <4>. QED  BY <2>3, <2>5, <3>0, <3>1, <4>1, Zenon
    <3>2. CASE ~(i <= m)
      <4>1. i - m \in 1..(K - m) /\ m + (i - m) = i
        BY <1>1, <2>0, <3>2
      <4>2. c[i] = b[i - m]
        BY <2>3, <2>5, <3>0, <3>2, Zenon
      <4>3. b[i - m] = C[m + (i - m)]
        BY <2>4, <4>1, Zenon
      <4>. QED  BY <4>1, <4>2, <4>3, Zenon
    <3>. QED  BY <3>1, <3>2, Zenon
  <2>8. c = C
    <3>1. Len(c) = Len(C) /\ \A i \in 1..Len(C) : c[i] = C[i]
      BY <2>6, <2>7, Zenon DEF K
    <3>. QED  BY <2>5, <3>1, SeqEqual, Zenon
  <2>. QED  BY <2>3, <2>4, <2>8, Zenon DEF c, a, b, m
<1>. QED  BY <1>2, <1>3, Zenon DEF K
\* When nothing is left to write, the report covers every file.
LEMMA ReportCovers ==
  ASSUME Underway(job.files, <<>>, disk)
  PROVE  ReportCoversEveryFile
<1>1. PICK fileOf, ms, fe :
        /\ IsModules(job.files, ms)
        /\ \A x \in Sheets(fileOf, ms, fe) : x \in Listed(<<>>) \/ OnDisk(x, disk)
  BY Zenon DEF Underway
<1>2. \A x \in Sheets(fileOf, ms, fe) : OnDisk(x, disk)
  <2>1. Listed(<<>>) = {}
    BY DEF Listed
  <2>. QED  BY <1>1, <2>1, Zenon
<1>3. <<"markdown", 0>> \in DOMAIN disk /\ disk[<<"markdown", 0>>].modules = Cards(ms)
  <2>1. OnDisk(TextSheet(fileOf, ms), disk)
    BY <1>2, Zenon DEF Sheets
  <2>. QED  BY <2>1 DEF OnDisk, TextSheet
<1>4. disk[<<"modules", 0>>] = ModulesCanvas(ms, fe)
  <2>1. OnDisk(TopSheet(ms, fe), disk)
    BY <1>2, Zenon DEF Sheets
  <2>. QED  BY <2>1, Zenon DEF OnDisk, TopSheet
<1>5. Len(ms) > NodeBudget => disk[<<"overflow", 0>>] = OverflowCanvas(ms)
  <2>1. Len(ms) > NodeBudget => OnDisk(RestSheet(ms), disk)
    BY <1>2, Zenon DEF Sheets
  <2>. QED  BY <2>1, Zenon DEF OnDisk, RestSheet
<1>6. \A n \in DOMAIN ms : disk[<<"module", ms[n].id>>].files = ms[n].files
  <2>. SUFFICES ASSUME NEW n \in DOMAIN ms PROVE disk[<<"module", ms[n].id>>].files = ms[n].files
    BY Zenon
  <2>1. OnDisk(ModuleSheet(ms[n], fe), disk)
    BY <1>2, Zenon DEF Sheets, ModuleSheets
  <2>. QED  BY <2>1 DEF OnDisk, ModuleSheet, ModuleCanvas
<1>7. LinkedModules = {ms[n].id : n \in DOMAIN ms}
  <2>1. DOMAIN Cards(ms) = DOMAIN ms /\ \A n \in DOMAIN ms : Cards(ms)[n].id = ms[n].id
    BY Zenon DEF Cards
  <2>2. LinkedModules = {Cards(ms)[n].id : n \in DOMAIN Cards(ms)}
    BY <1>3, Zenon DEF LinkedModules
  <2>. QED  BY <2>1, <2>2, Zenon
<1>8. /\ \A m, n \in DOMAIN ms : ms[m].id = ms[n].id => m = n
      /\ \A n \in DOMAIN ms : ms[n].files \subseteq job.files
      /\ \A f \in job.files : \E n \in DOMAIN ms : f \in ms[n].files
      /\ \A m, n \in DOMAIN ms : ms[m].files \cap ms[n].files # {} => m = n
  BY <1>1, Zenon DEF IsModules
<1>9. ASSUME NEW f \in job.files
      PROVE  Cardinality({i \in LinkedModules : f \in disk[<<"module", i>>].files}) = 1
  <2>1. PICK n \in DOMAIN ms : f \in ms[n].files
    BY <1>8, Zenon
  <2>2. \A m \in DOMAIN ms : f \in ms[m].files => m = n
    BY <1>8, <2>1, Zenon
  <2>3. {i \in LinkedModules : f \in disk[<<"module", i>>].files} = {ms[n].id}
    BY <1>6, <1>7, <2>1, <2>2, Zenon
  <2>. QED  BY <2>3, FS_Singleton, Zenon
<1>10. UNION {disk[<<"module", i>>].files : i \in LinkedModules} = job.files
  <2>. DEFINE F(i) == disk[<<"module", i>>].files
  <2>1. \A n \in DOMAIN ms : F(ms[n].id) = ms[n].files
    BY <1>6, Zenon
  <2>. HIDE DEF F
  <2>2. \A i \in LinkedModules : F(i) \subseteq job.files
    BY <1>7, <1>8, <2>1
  <2>3. \A f \in job.files : \E i \in LinkedModules : f \in F(i)
    <3>. SUFFICES ASSUME NEW f \in job.files PROVE \E i \in LinkedModules : f \in F(i)
      BY Zenon
    <3>1. PICK n \in DOMAIN ms : f \in ms[n].files
      BY <1>8, Zenon
    <3>2. ms[n].id \in LinkedModules
      BY <1>7, Zenon
    <3>3. f \in F(ms[n].id)
      BY <2>1, <3>1, Zenon
    <3>. QED  BY <3>2, <3>3, Zenon
  <2>4. UNION {F(i) : i \in LinkedModules} = job.files
    BY <2>2, <2>3, Zenon
  <2>. QED  BY <2>4, Zenon DEF F
<1>. DEFINE C == Cards(ms)
            L == Len(ms)
            top  == disk[<<"modules", 0>>]
            rest == IF top.link = 0 THEN << >> ELSE disk[<<"overflow", 0>>]
<1>11. L \in Nat /\ C \in Seq(Listed(C)) /\ Len(C) = L
  <2>1. L \in Nat /\ DOMAIN ms = 1..L
    BY <1>1, Zenon DEF IsModules
  <2>2. DOMAIN C = 1..L /\ C = [n \in 1..L |-> C[n]]
    BY <2>1, Zenon DEF Cards
  <2>. HIDE DEF C, L
  <2>. QED  BY <2>1, <2>2, ListLen, Zenon
<1>12. NodeBudget \in Nat \ {0}
  BY ModulesAssumption, Zenon
<1>. HIDE DEF C, L
<1>13. /\ Len(C) <= NodeBudget => SubSeq(C, 1, Len(C)) = C
       /\ Len(C) > NodeBudget =>
            /\ SubSeq(C, 1, NodeBudget - 1) \o SubSeq(C, NodeBudget, Len(C)) = C
            /\ Len(SubSeq(C, 1, NodeBudget - 1)) = NodeBudget - 1
            /\ Len(SubSeq(C, NodeBudget, Len(C))) = Len(C) - (NodeBudget - 1)
  BY <1>11, <1>12, CanvasAndRest, Zenon
<1>. DEFINE shown == IF L > NodeBudget THEN NodeBudget - 1 ELSE L
<1>a. top.nodes = SubSeq(C, 1, shown) /\ top.link = L - shown
  <2>1. \E es : top = [nodes |-> SubSeq(C, 1, shown), link |-> L - shown, edges |-> es]
    BY <1>4, Zenon DEF ModulesCanvas, C, L
  <2>. DEFINE first == SubSeq(C, 1, shown)
              left == L - shown
  <2>2. \E es : top = [nodes |-> first, link |-> left, edges |-> es]
    BY <2>1, Zenon
  <2>. HIDE DEF top, first, left
  <2>3. top.nodes = first /\ top.link = left
    BY <2>2
  <2>. QED  BY <2>3, Zenon DEF first, left
<1>14. /\ Len(rest) = top.link /\ top.nodes \o rest = C
       /\ Len(top.nodes) + (IF top.link = 0 THEN 0 ELSE 1) <= NodeBudget
  <2>1. CASE L > NodeBudget
    <3>1. top.nodes = SubSeq(C, 1, NodeBudget - 1) /\ top.link = L - (NodeBudget - 1)
      BY <1>a, <2>1, ZenonT(30)
    <3>2. top.link # 0
      BY <1>11, <1>12, <2>1, <3>1
    <3>3. rest = SubSeq(C, NodeBudget, L)
      BY <1>5, <2>1, <3>2, Zenon DEF OverflowCanvas, C, L
    <3>. HIDE DEF top, rest
    <3>4. /\ SubSeq(C, 1, NodeBudget - 1) \o SubSeq(C, NodeBudget, L) = C
          /\ Len(SubSeq(C, 1, NodeBudget - 1)) = NodeBudget - 1
          /\ Len(SubSeq(C, NodeBudget, L)) = L - (NodeBudget - 1)
      BY <1>11, <1>13, <2>1, Zenon
    <3>5. Len(rest) = top.link /\ top.nodes \o rest = C /\ Len(top.nodes) = NodeBudget - 1
      BY <3>1, <3>3, <3>4, Zenon
    <3>6. (NodeBudget - 1) + 1 <= NodeBudget
      BY <1>12
    <3>. QED  BY <3>2, <3>5, <3>6, Zenon
  <2>2. CASE ~(L > NodeBudget)
    <3>1. top.nodes = SubSeq(C, 1, L) /\ top.link = L - L
      BY <1>a, <2>2, ZenonT(30)
    <3>2. top.link = 0 /\ L <= NodeBudget
      BY <1>11, <1>12, <2>2, <3>1
    <3>3. rest = <<>>
      BY <3>2, Zenon
    <3>. HIDE DEF top, rest
    <3>4. top.nodes = C
      BY <1>11, <1>13, <3>1, <3>2, Zenon
    <3>5. C \o <<>> = C /\ Len(<<>>) = 0 /\ L + 0 <= NodeBudget
      BY <1>11, <3>2, ConcatEmptySeq
    <3>. QED  BY <1>11, <3>2, <3>3, <3>4, <3>5, Zenon
  <2>. QED  BY <2>1, <2>2, Zenon
<1>. QED  BY <1>3, <1>9, <1>10, <1>14, Zenon DEF ReportCoversEveryFile, C

-----------------------------------------------------------------------------
(* The steps of a report.                                                  *)

\* A command begins with what it sees.
LEMMA ReportBegins ==
  ASSUME NEW kind \in {"report", "map"}, NEW view \in Views, Begin(kind, view)
  PROVE  ReportInv'
<1>. DEFINE fileOf == PathsSeen(kind, view)
            files  == {fileOf[n] : n \in DOMAIN fileOf}
<1>1. job'.files = files /\ job'.cursor \in {0, 1}
  BY Zenon DEF Begin
<1>2. IsFiniteSet(files) /\ files \subseteq Nat
  BY SeenFiles, Zenon
<1>. HIDE DEF files
<1>. QED  BY <1>1, <1>2 DEF ReportInv

\* A turn of the clustering loop leaves the files alone.
LEMMA ReportMoves ==
  ASSUME ReportInv, SweepInv, Move
  PROVE  ReportInv'
<1>. DEFINE f == job.order[job.cursor]
<1>0. job.kind # "none" /\ job.cursor > 0 /\ DOMAIN job = JobFields /\ job.cursor \in Int
  BY Zenon DEF SweepInv, Move, Clustering
<1>1. PICK best \in BestCommunities(job, f) :
        job' = IF job.cursor < Len(job.order)
               THEN [MoveTo(job, f, best) EXCEPT !.cursor = @ + 1]
               ELSE [MoveTo(job, f, best) EXCEPT
                       !.cursor = IF MoveTo(job, f, best).improved THEN 1 ELSE 0,
                       !.improved = FALSE]
  BY Zenon DEF Move
<1>. DEFINE moved == MoveTo(job, f, best)
<1>2. DOMAIN moved = JobFields /\ moved.kind = job.kind /\ moved.files = job.files
      /\ moved.cursor = job.cursor
  <2>1. CASE best = job.community[f]
    BY <1>0, <2>1, Zenon DEF MoveTo
  <2>2. CASE best # job.community[f]
    <3>1. moved = [job EXCEPT !.community[f] = best,
                              !.communityDegree = [@ EXCEPT ![job.community[f]] = @ - job.degree[f],
                                                            ![best] = @ + job.degree[f]],
                              !.improved = TRUE]
      BY <2>2, Zenon DEF MoveTo
    <3>. HIDE DEF moved, f
    <3>. QED  BY <1>0, <2>2, <3>1, Zenon DEF JobFields
  <2>. QED  BY <2>1, <2>2, Zenon
<1>. HIDE DEF moved, f
<1>3. job'.kind = job.kind /\ job'.files = job.files /\ job'.cursor # -1
  <2>1. CASE job.cursor < Len(job.order)
    <3>1. job' = [moved EXCEPT !.cursor = job.cursor + 1]
      BY <1>1, <1>2, <2>1, Zenon DEF moved
    <3>2. job.cursor + 1 # -1
      BY <1>0
    <3>. QED  BY <1>2, <3>1, <3>2, Zenon DEF JobFields
  <2>2. CASE ~(job.cursor < Len(job.order))
    <3>1. job' = [moved EXCEPT !.cursor = IF moved.improved THEN 1 ELSE 0, !.improved = FALSE]
      BY <1>1, <2>2, Zenon DEF moved
    <3>. QED  BY <1>2, <3>1 DEF JobFields
  <2>. QED  BY <2>1, <2>2, Zenon
<1>. QED  BY <1>0, <1>3, Zenon DEF ReportInv

\* The modules are built and the report planned.
LEMMA ReportPlanned ==
  ASSUME ReportInv, SweepInv, FoldModules
  PROVE  ReportInv'
<1>0. job.kind # "none" /\ DOMAIN job = JobFields /\ IsFiniteSet(job.files) /\ job.files \subseteq Nat
  BY Zenon DEF SweepInv, ReportInv, FoldModules, IsFolded
<1>1. CASE job.kind # "report"
  <2>1. job' = Idle
    BY <1>1, Zenon DEF FoldModules
  <2>. QED  BY <2>1, Zenon DEF ReportInv, Idle
<1>2. CASE job.kind = "report"
  <2>. DEFINE cm == Renumber(job.files, job.community)
  <2>1. job'.kind = "report" /\ job'.files = job.files
    <3>1. job' = [job EXCEPT !.cursor = -1]
      BY <1>2, Zenon DEF FoldModules
    <3>. QED  BY <1>0, <1>2, <3>1, Zenon DEF JobFields
  <2>2. PICK label : plan' = ReportFiles(job.fileOf, BuildModules(job.files, cm, label), job.fileEdges)
    BY <1>2, Zenon DEF FoldModules
  <2>3. cm \in [job.files -> Nat]
    BY <1>0, RenumberNat, Zenon
  <2>. DEFINE ms == BuildModules(job.files, cm, label)
  <2>4. IsModules(job.files, ms)
    <3>. HIDE DEF cm
    <3>. QED  BY <1>0, <2>3, BuildsModules, Zenon
  <2>. HIDE DEF ms
  <2>5. Underway(job.files, plan', disk')
    <3>1. DOMAIN ms = 1..Len(ms) /\ Len(ms) \in Nat
      BY <2>4, Zenon DEF IsModules
    <3>2. plan' = ReportFiles(job.fileOf, ms, job.fileEdges)
      BY <2>2, Zenon DEF ms
    <3>3. /\ plan' \in Seq(Sheets(job.fileOf, ms, job.fileEdges))
          /\ Listed(plan') = Sheets(job.fileOf, ms, job.fileEdges)
      BY <3>1, <3>2, PlanLists, Zenon
    <3>. QED  BY <2>4, <3>3, Zenon DEF Underway
  <2>. QED  BY <1>0, <2>1, <2>5, Zenon DEF ReportInv
<1>. QED  BY <1>1, <1>2, Zenon

\* Every step of a report keeps what is written and what is to be written.
LEMMA ReportNext ==
  ASSUME ReportInv, SweepInv, [ModulesNext]_moduleVars
  PROVE  ReportInv'
<1>1. ASSUME NEW view \in Views, NEW kind \in {"report", "map"}, Begin(kind, view) PROVE ReportInv'
  BY <1>1, ReportBegins, Zenon
<1>2. CASE Move
  BY <1>2, ReportMoves, Zenon
<1>3. CASE FoldModules
  BY <1>3, ReportPlanned, Zenon
<1>4. CASE Write
  <2>1. /\ plan # <<>> /\ job' = job /\ plan' = Tail(plan)
        /\ disk' = Put(disk, Head(plan)[1], Head(plan)[2])
    BY <1>4, Zenon DEF Write
  <2>2. Underway(job.files, plan, disk) => Underway(job.files, plan', disk')
    BY <2>1, SheetWritten, Zenon
  <2>. QED  BY <2>1, <2>2, Zenon DEF ReportInv
<1>5. CASE FinishReport \/ Stop
  BY <1>5 DEF FinishReport, Stop, ReportInv, Idle
<1>6. CASE Reindex \/ UNCHANGED moduleVars
  BY <1>6, Zenon DEF Reindex, moduleVars, ReportInv
<1>. QED  BY <1>1, <1>2, <1>3, <1>4, <1>5, <1>6, Zenon DEF ModulesNext

\* A report that was written to the end covers every file it was asked about, each
\* on the canvas of one linked module, and shows every linked module.
THEOREM ReportsAlwaysCover == ModulesSpec => []ReportCoversEveryFile
<1>. DEFINE Inv == SweepInv /\ moduleEdges \in ModuleTables /\ ReportInv
<1>1. ModulesInit => Inv
  BY DEF ModulesInit, SweepInv, ReportInv, Idle
<1>2. Inv /\ [ModulesNext]_moduleVars => Inv'
  BY SweepNext, ReportNext, Zenon
<1>3. Inv => ReportCoversEveryFile
  <2>1. CASE ~Written
    BY <2>1, Zenon DEF ReportCoversEveryFile
  <2>2. CASE ReportInv /\ Written
    <3>1. Underway(job.files, plan, disk) /\ plan = <<>>
      BY <2>2, Zenon DEF ReportInv, Written
    <3>2. Underway(job.files, <<>>, disk)
      BY <3>1, Zenon
    <3>. QED  BY <3>2, ReportCovers, Zenon
  <2>. QED  BY <2>1, <2>2, Zenon
<1>. QED  BY <1>1, <1>2, <1>3, PTL DEF ModulesSpec
===============================================================================
