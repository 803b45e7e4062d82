------------------------------- MODULE HubFront -------------------------------
(***************************************************************************)
(* The hub beside the uploads of HubRegistry: how weave-registry is        *)
(* started (hub/src/bin/weave-registry/main.rs), its accept loop and       *)
(* connections (server.rs), the readers of the store (pull and canvas in   *)
(* registry.rs, canvas.rs), the signatures of snapshots (provenance.rs)    *)
(* and the webhooks (webhooks.rs), while the worker of each repository     *)
(* commits and prunes snapshots under them and the process may die.        *)
(*                                                                         *)
(* Pushes arrive complete here.  Commit ids are numbers, whose order is    *)
(* that of the file names.  The clock of the file system is coarse: two    *)
(* blobs may have the same time.  A signature is what is signed, as only   *)
(* the holder of the key can make one.                                     *)
(***************************************************************************)
EXTENDS Naturals, Sequences, FiniteSets

CONSTANTS HubSetups,   \* [loopback, token, key, provider, flag, config], whether the clock
                       \* is [coarse] and, for a bounded instance, MAX_CONCURRENT_CONNECTIONS
                       \* [slots], the [requests] of clients, the [pushes] to each repository
                       \* ([sha, bytes, sig, retention]), the sets of addresses a URL may
                       \* resolve to [records], and how many [visits, turns, crashes]
          Repos,
          ModulesOf,   \* bytes -> modules of that snapshot: [label, files]; other bytes are no snapshot
          ViewOf,      \* credential -> [labels, repos] the CanvasAuthorizer lets it see
          Blocked,     \* addresses that are not public
          Clients

Nothing == "none"
Routes == {"webhook", "mesh", "canvas", "pull", "path", "method"}
Sent(s, repo) == {s.pushes[repo][i] : i \in DOMAIN s.pushes[repo]}

ASSUME FrontAssumption ==
    /\ IsFiniteSet(Clients) /\ Nothing \notin Clients
    /\ \A s \in HubSetups :
         /\ s.slots \in Nat
         /\ \A req \in s.requests : req.route \in Routes
         /\ DOMAIN s.pushes = Repos
         /\ \A r \in Repos : /\ s.pushes[r] \in Seq(Sent(s, r))
                            /\ \A p \in Sent(s, r) : p.sha \in Nat /\ p.retention \in Nat

VARIABLES hubSetup,
          coming,      \* repo -> pushes to come
          spool,       \* repo -> job files
          store,       \* repo -> [blobs, sigs, head], and every head there was
          drain,       \* repo -> its worker: [pc], and of its job [old]
          hook, hookTmp,   \* repo -> webhook.txt and webhook.txt.tmp
          dns,         \* the addresses the URL has now
          told,        \* notifications that were delivered
          conns,       \* client -> the thread that serves it, and the last answer
          active,      \* active_connections
          refusing,    \* the client the accept loop is turning away
          fileTime, spent
frontVars == <<hubSetup, coming, spool, store, drain, hook, hookTmp, dns, told, conns, active, refusing, fileTime, spent>>
diskVars == <<coming, spool, store, hook, hookTmp>>
netVars == <<dns, told>>
loopVars == <<active, refusing, spent>>

NoSig == <<>>
Quiet == [said |-> Nothing]
NoThread == [pc |-> "none", req |-> Nothing, todo |-> <<>>, sha |-> 0, bytes |-> 0, bands |-> {}, answer |-> Quiet]

-----------------------------------------------------------------------------
(* Starting it.                                                            *)

\* build_verifier: the length of the key, in words, that the provider takes.
KeyFits(s) == s.key = Nothing \/ s.key = "exact" \/ (s.provider = "hmac" /\ s.key = "long")

\* validate_auth_boundary.
AuthBoundary(s) == s.token # "empty" /\ (s.loopback \/ s.token # Nothing)

\* build_server refuses to start otherwise.
HubStartable(s) == AuthBoundary(s) /\ KeyFits(s)

\* resolve_canvas_exclude: the flag, or without it the configuration.
Exclude == IF hubSetup.flag # {} THEN hubSetup.flag ELSE hubSetup.config

FrontInit ==
    /\ hubSetup \in HubSetups
    /\ coming = IF HubStartable(hubSetup) THEN hubSetup.pushes ELSE [r \in Repos |-> <<>>]
    /\ spool = [r \in Repos |-> <<>>]
    /\ store = [r \in Repos |-> [blobs |-> {}, sigs |-> [s \in {} |-> NoSig], head |-> 0, was |-> {}]]
    /\ drain = [r \in Repos |-> [pc |-> "scan", old |-> 0]]
    /\ hook = [r \in Repos |-> Nothing] /\ hookTmp = [r \in Repos |-> Nothing]
    /\ dns \in hubSetup.records /\ told = {}
    /\ conns = [c \in Clients |-> NoThread]
    /\ active = 0 /\ refusing = Nothing /\ fileTime = 1
    /\ spent = [visits |-> 0, turns |-> 0, crashes |-> 0]

Charge(what) == spent[what] < hubSetup[what] /\ spent' = [spent EXCEPT ![what] = @ + 1]

-----------------------------------------------------------------------------
(* Signatures.                                                             *)

\* snapshot_message: repository, commit and payload, each with its length.
Sign(repo, sha, bytes) == <<repo, sha, bytes>>

\* finish_upload: with a verifier a push without a signature, or with one that is
\* not hex or not its own, is refused.
Verified(repo, p) == hubSetup.key = Nothing \/ p.sig = Sign(repo, p.sha, p.bytes)

\* The decision on the next push; an accepted one is in the spool from here on.
Push(repo) ==
    /\ coming[repo] # <<>>
    /\ coming' = [coming EXCEPT ![repo] = Tail(@)]
    /\ spool' = IF Verified(repo, Head(coming[repo])) THEN [spool EXCEPT ![repo] = Append(@, Head(coming[repo]))] ELSE spool
    /\ UNCHANGED <<hubSetup, store, drain, hook, hookTmp, netVars, conns, loopVars, fileTime>>

-----------------------------------------------------------------------------
(* The worker of a repository.                                             *)

Job(repo) == Head(spool[repo])
Work(repo, at, next) ==
    /\ drain[repo].pc = at
    /\ drain' = [drain EXCEPT ![repo].pc = next]
    /\ UNCHANGED <<hubSetup, coming, hook, hookTmp, conns, loopVars>>

\* commit_job writes the blob; the file's time may be that of the one before.
CommitBlob(repo) ==
    /\ spool[repo] # <<>> /\ Work(repo, "scan", "sig")
    /\ fileTime' \in IF hubSetup.coarse THEN {fileTime, fileTime + 1} ELSE {fileTime + 1}
    /\ store' = [store EXCEPT ![repo].blobs = {b \in @ : b.sha # Job(repo).sha}
                                \cup {[sha |-> Job(repo).sha, bytes |-> Job(repo).bytes, time |-> fileTime']}]
    /\ UNCHANGED <<spool, netVars>>

\* Mutant form: a signature that is there already is kept.
CommitSigOnce(repo) ==
    /\ Work(repo, "sig", "head")
    /\ LET j == Job(repo) IN
       store' = IF j.sig = NoSig \/ j.sha \in DOMAIN store[repo].sigs THEN store
                ELSE [store EXCEPT ![repo].sigs = [s \in DOMAIN @ \cup {j.sha} |-> IF s = j.sha THEN j.sig ELSE @[s]]]
    /\ UNCHANGED <<spool, netVars, fileTime>>

\* The signature that was spooled with the job, if there is one.
CommitSig(repo) ==
    /\ Work(repo, "sig", "head")
    /\ LET j == Job(repo) IN
       store' = IF j.sig = NoSig THEN store
                ELSE [store EXCEPT ![repo].sigs = [s \in DOMAIN @ \cup {j.sha} |-> IF s = j.sha THEN j.sig ELSE @[s]]]
    /\ UNCHANGED <<spool, netVars, fileTime>>

PublishHead(repo) ==
    /\ Work(repo, "head", "prune")
    /\ store' = [store EXCEPT ![repo].head = Job(repo).sha, ![repo].was = @ \cup {Job(repo).sha}]
    /\ UNCHANGED <<spool, netVars, fileTime>>

\* prune_retention, a file at a time: the oldest blob, by name when times are equal,
\* and then its signature.
Older(a, b) == a.time < b.time \/ (a.time = b.time /\ a.sha < b.sha)
PruneBlob(repo) ==
    LET blobs == store[repo].blobs
        oldest == CHOOSE b \in blobs : \A x \in blobs \ {b} : Older(b, x)
    IN /\ drain[repo].pc = "prune"
       /\ IF Cardinality(blobs) <= Job(repo).retention
          THEN drain' = [drain EXCEPT ![repo].pc = "unlink"] /\ UNCHANGED store
          ELSE /\ store' = [store EXCEPT ![repo].blobs = @ \ {oldest}]
               /\ drain' = [drain EXCEPT ![repo] = [pc |-> "pruneSig", old |-> oldest.sha]]
       /\ UNCHANGED <<hubSetup, coming, spool, hook, hookTmp, netVars, conns, loopVars, fileTime>>
PruneSig(repo) ==
    /\ Work(repo, "pruneSig", "prune")
    /\ store' = [store EXCEPT ![repo].sigs = [s \in DOMAIN @ \ {drain[repo].old} |-> @[s]]]
    /\ UNCHANGED <<spool, netVars, fileTime>>

\* The job file goes, and then the subscriber is told.
UnlinkJob(repo) ==
    /\ drain[repo].pc = "unlink"
    /\ drain' = [drain EXCEPT ![repo] = [pc |-> "notify", old |-> Job(repo).sha]]
    /\ spool' = [spool EXCEPT ![repo] = Tail(@)]
    /\ UNCHANGED <<hubSetup, coming, store, hook, hookTmp, netVars, conns, loopVars, fileTime>>

-----------------------------------------------------------------------------
(* Webhooks.                                                               *)

\* resolve_public_addr: every address has to be public.
Public(addresses) == addresses # {} /\ addresses \cap Blocked = {}

\* Mutant form: only the registration checks the addresses.
NotifyRegistered(repo) ==
    /\ Work(repo, "notify", "scan")
    /\ IF hook[repo] # Nothing
       THEN \E a \in dns : told' = told \cup {[repo |-> repo, sha |-> drain[repo].old, address |-> a]}
       ELSE UNCHANGED told
    /\ UNCHANGED <<spool, store, dns, fileTime>>

\* dispatch_webhook and notify: the URL is resolved now, and that address is used.
Notify(repo) ==
    /\ Work(repo, "notify", "scan")
    /\ IF hook[repo] # Nothing /\ Public(dns)
       THEN \E a \in dns : told' = told \cup {[repo |-> repo, sha |-> drain[repo].old, address |-> a]}
       ELSE UNCHANGED told
    /\ UNCHANGED <<spool, store, dns, fileTime>>

\* The name's owner points it elsewhere.
DnsTurns ==
    /\ Charge("turns")
    /\ dns' \in hubSetup.records \ {dns}
    /\ UNCHANGED <<hubSetup, diskVars, drain, told, conns, active, refusing, fileTime>>

-----------------------------------------------------------------------------
(* Connections.                                                            *)

\* The accept loop counts every connection, and takes the count back for the
\* ones it turns away.
Accept(c, req) ==
    /\ refusing = Nothing /\ conns[c].pc = "none"
    /\ Charge("visits")
    /\ active' = active + 1
    /\ IF active >= hubSetup.slots
       THEN refusing' = c /\ UNCHANGED conns
       ELSE conns' = [conns EXCEPT ![c] = [NoThread EXCEPT !.pc = "head", !.req = req]] /\ UNCHANGED refusing
    /\ UNCHANGED <<hubSetup, diskVars, drain, netVars, fileTime>>

\* Mutant form: a refused connection keeps its count.
RefuseKept ==
    /\ refusing # Nothing
    /\ active' = active /\ refusing' = Nothing
    /\ conns' = [conns EXCEPT ![refusing].answer = [said |-> 503]]
    /\ UNCHANGED <<hubSetup, diskVars, drain, netVars, fileTime, spent>>

Refuse ==
    /\ refusing # Nothing
    /\ active' = active - 1 /\ refusing' = Nothing
    /\ conns' = [conns EXCEPT ![refusing].answer = [said |-> 503]]
    /\ UNCHANGED <<hubSetup, diskVars, drain, netVars, fileTime, spent>>

\* A step of a connection's thread, and its last one, which gives the slot back
\* (ConnectionSlot::drop).
Goes(c, t) == conns' = [conns EXCEPT ![c] = t] /\ UNCHANGED <<active, hook, hookTmp>>
Ends(c, reply) == conns' = [conns EXCEPT ![c] = [NoThread EXCEPT !.answer = reply]] /\ active' = active - 1
Replies(c, reply) == Ends(c, reply) /\ UNCHANGED <<hook, hookTmp>>

\* The client is gone, silent until the time limit, or sends a head that is too long.
Drops(c) == conns[c].pc = "head" /\ Replies(c, Quiet)

\* handle_connection up to the route: the token, the size of the body, the path and
\* the method.  The mesh is of the repositories that can_view_repo.
Route(c) ==
    LET req == conns[c].req
        visible == SelectSeq(req.repos, LAMBDA r : r \in ViewOf[req.credential].repos)
        at(pc, todo) == Goes(c, [conns[c] EXCEPT !.pc = pc, !.todo = todo, !.sha = req.sha])
    IN /\ conns[c].pc = "head"
       /\ IF hubSetup.token # Nothing /\ ~req.token THEN Replies(c, [said |-> 401])
          ELSE IF req.large THEN Replies(c, [said |-> 413])
          ELSE CASE req.route = "webhook" -> at("resolve", req.repos)
                 [] req.route = "mesh" -> IF visible = <<>> THEN Replies(c, [said |-> 200, bands |-> {}])
                                          ELSE at("latest", visible)
                 [] req.route = "canvas" -> at("latest", req.repos)
                 [] req.route = "pull" -> at(IF req.sha = 0 THEN "latest" ELSE "blob", req.repos)
                 [] req.route = "path" -> Replies(c, [said |-> 404])
                 [] req.route = "method" -> Replies(c, [said |-> 405])

\* Registry::pull, read by read: HEAD, the blob, the signature.
Repo(c) == Head(conns[c].todo)
NextBand(c, bands) ==
    IF Len(conns[c].todo) = 1 THEN Replies(c, [said |-> 200, bands |-> bands])
    ELSE Goes(c, [conns[c] EXCEPT !.pc = "latest", !.todo = Tail(@), !.bands = bands])
Missing(c) ==
    IF conns[c].req.route = "mesh" THEN NextBand(c, conns[c].bands)
    ELSE Replies(c, [said |-> 404, asked |-> conns[c].req.sha, repo |-> Repo(c), sha |-> conns[c].sha,
                     head |-> store[Repo(c)].head])
ReadHead(c) ==
    /\ conns[c].pc = "latest"
    /\ IF store[Repo(c)].head = 0 THEN Missing(c)
       ELSE Goes(c, [conns[c] EXCEPT !.pc = "blob", !.sha = store[Repo(c)].head])
ReadBlob(c) ==
    LET found == {b \in store[Repo(c)].blobs : b.sha = conns[c].sha}
    IN /\ conns[c].pc = "blob"
       /\ IF found = {} THEN Missing(c)
          ELSE \E b \in found : Goes(c, [conns[c] EXCEPT !.pc = "sig", !.bytes = b.bytes])

\* build_module_canvas without what is excluded, and filter_canvas.
Drawn(bytes) ==
    {m \in {[label |-> x.label, files |-> x.files \ Exclude] : x \in {y \in ModulesOf[bytes] : y.label \notin Exclude}} :
        m.files # {}}
Shown(bytes, credential) == {m \in Drawn(bytes) : m.label \in ViewOf[credential].labels}

\* The signature is read, and what was pulled is sent or drawn.
ReadSig(c) ==
    LET t == conns[c]
        sigs == store[Repo(c)].sigs
        band == [repo |-> Repo(c), sha |-> t.sha, modules |-> Shown(t.bytes, t.req.credential), of |-> t.req.credential, mesh |-> t.req.route = "mesh"]
    IN /\ t.pc = "sig"
       /\ CASE t.req.route = "pull" ->
                   Replies(c, [said |-> 200, repo |-> Repo(c), sha |-> t.sha, bytes |-> t.bytes,
                               sig |-> IF t.sha \in DOMAIN sigs THEN sigs[t.sha] ELSE NoSig])
            [] t.req.route # "pull" /\ t.bytes \in DOMAIN ModulesOf -> NextBand(c, t.bands \cup {band})
            [] t.req.route = "canvas" /\ t.bytes \notin DOMAIN ModulesOf -> Replies(c, [said |-> 500])
            [] t.req.route = "mesh" /\ t.bytes \notin DOMAIN ModulesOf -> NextBand(c, t.bands)

\* set_webhook: an empty URL removes it; another one is resolved, written to the one
\* temporary name and renamed.
ResolveUrl(c) ==
    /\ conns[c].pc = "resolve"
    /\ CASE conns[c].req.url = Nothing ->
                Ends(c, [said |-> 200]) /\ hook' = [hook EXCEPT ![Repo(c)] = Nothing] /\ UNCHANGED hookTmp
         [] conns[c].req.url # Nothing /\ Public(dns) -> Goes(c, [conns[c] EXCEPT !.pc = "write"])
         [] conns[c].req.url # Nothing /\ ~Public(dns) -> Replies(c, [said |-> 500])
WriteHook(c) ==
    /\ conns[c].pc = "write"
    /\ conns' = [conns EXCEPT ![c].pc = "rename"]
    /\ hookTmp' = [hookTmp EXCEPT ![Repo(c)] = conns[c].req.url]
    /\ UNCHANGED <<active, hook>>
RenameHook(c) ==
    /\ conns[c].pc = "rename"
    /\ IF hookTmp[Repo(c)] = Nothing THEN Replies(c, [said |-> 500])
       ELSE /\ Ends(c, [said |-> 200])
            /\ hook' = [hook EXCEPT ![Repo(c)] = hookTmp[Repo(c)]]
            /\ hookTmp' = [hookTmp EXCEPT ![Repo(c)] = Nothing]

Serve(c) ==
    /\ Drops(c) \/ Route(c) \/ ReadHead(c) \/ ReadBlob(c) \/ ReadSig(c)
         \/ ResolveUrl(c) \/ WriteHook(c) \/ RenameHook(c)
    /\ UNCHANGED <<hubSetup, coming, spool, store, drain, netVars, refusing, fileTime, spent>>

\* The process dies and is started again: the files stay.
FrontCrash ==
    /\ Charge("crashes")
    /\ conns' = [c \in Clients |-> NoThread] /\ active' = 0 /\ refusing' = Nothing
    /\ drain' = [r \in Repos |-> [pc |-> "scan", old |-> 0]]
    /\ UNCHANGED <<hubSetup, diskVars, netVars, fileTime>>

FrontWork(r) ==
    Push(r) \/ CommitBlob(r) \/ CommitSig(r) \/ PublishHead(r) \/ PruneBlob(r) \/ PruneSig(r) \/ UnlinkJob(r) \/ Notify(r)
FrontStep ==
    /\ HubStartable(hubSetup)
    /\ \/ \E r \in Repos : FrontWork(r)
       \/ \E c \in Clients : Serve(c) \/ \E req \in hubSetup.requests : Accept(c, req)
       \/ Refuse \/ DnsTurns \/ FrontCrash
FrontSpec == FrontInit /\ [][FrontStep]_frontVars

-----------------------------------------------------------------------------
(* What it promises.                                                       *)

\* Every thread holds one slot and gives it back however it ends, there are never
\* more threads than slots, and a refused client costs none (server.rs:110-125).
SlotsAreReturned ==
    LET threads == {c \in Clients : conns[c].pc # "none"}
    IN /\ active = Cardinality(threads) + (IF refusing = Nothing THEN 0 ELSE 1)
       /\ Cardinality(threads) <= hubSetup.slots

\* With a verifier, once the spool of a repository is empty every snapshot that is
\* stored has a signature, and it verifies the stored bytes, whatever was pushed
\* twice and wherever the process died (registry.rs:499-517, 840-876).
StoredSignaturesVerify ==
    hubSetup.key # Nothing =>
        \A r \in Repos : spool[r] = <<>> =>
            \A b \in store[r].blobs :
                b.sha \in DOMAIN store[r].sigs /\ store[r].sigs[b.sha] = Sign(r, b.sha, b.bytes)

\* A webhook is only delivered to a public address, also when the name turned to
\* another one after it was registered, and only for a commit that is or was the
\* head (webhooks.rs:103-127, registry.rs:806-809).
ToldInPublicOfCommits == \A t \in told : t.address \notin Blocked /\ t.sha \in store[t.repo].was
=============================================================================
