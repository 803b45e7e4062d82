------------------------------- MODULE McpServer -------------------------------
(***************************************************************************)
(* `weave serve --mcp` (cmd_serve in crates/weave-graph-cli/src/main.rs;   *)
(* handler.rs, transport.rs, notes.rs and freshness.rs of                  *)
(* crates/weave-graph-mcp/src) beside the index runs and note pins of      *)
(* NoteStore.                                                              *)
(*                                                                         *)
(* The server keeps the database file it has opened.  At a message it      *)
(* compares the modification time of graph.db with the one it remembers,   *)
(* at most twice a second, and opens the file anew when they differ.  It   *)
(* serves one client at a time, and an error on a connection ends it.      *)
(* AgentTools has what the query tools answer.                             *)
(***************************************************************************)
EXTENDS NoteStore

CONSTANT Setups   \* how it may be started: [transport, remote, allow, as, required, tokens],
                  \* and its clients' requests: [post, size, bearer, kind, object, meta, tool, symbol, tier]

VARIABLES setup,
          server,    \* [pc, inode, seen (last_mtime), request], and for the properties
                     \* [raced, checked, from, pin]
          answer,    \* the one being written: [kind], and for a tool [as, inode, fresh, quiet, tree]
          cut        \* whether an index died between its rename and its commit record
serverVars == <<setup, server, answer, cut>>
serveVars == <<noteVars, serverVars>>

NoOne == "none"
NoAnswer == [kind |-> "none"]
NoRequest == [kind |-> "none"]
Off == [pc |-> "off", inode |-> 1, seen |-> 0, request |-> NoRequest, raced |-> FALSE,
        checked |-> FALSE, from |-> 0, pin |-> 0]

\* validate_loopback_bind.
LoopbackBind(s) == s.allow \/ ~s.remote

\* cmd_serve's refusals; mcp_token_subjects has made `tokens` say whether there are any.
Startable(s) ==
    /\ s.transport = "http" => LoopbackBind(s)
    /\ s.transport = "http" /\ s.remote => s.as = NoOne /\ s.tokens
    /\ s.required => s.as # NoOne

ServeInit ==
    /\ NoteInit
    /\ setup \in Setups
    /\ server = Off /\ answer = NoAnswer /\ cut = FALSE

-----------------------------------------------------------------------------
(* Starting and reloading.                                                 *)

\* open_with_mode opens the database and then looks at its time.
ServerOpen ==
    /\ server.pc = "off" /\ Startable(setup)
    /\ server' = [Off EXCEPT !.pc = "started", !.inode = path]
    /\ UNCHANGED <<noteVars, setup, answer, cut>>
ServerOpened ==
    /\ server.pc = "started"
    /\ server' = [server EXCEPT !.pc = "idle", !.seen = mtime[path], !.raced = path # server.inode]
    /\ UNCHANGED <<noteVars, setup, answer, cut>>

\* maybe_reload up to its comparison; `due` when half a second has passed.
MaybeReload(due) ==
    /\ server.pc = "message"
    /\ server' = [server EXCEPT !.pc = IF due /\ mtime[path] # server.seen THEN "reopen" ELSE "handle",
                                !.checked = due, !.from = path]
    /\ UNCHANGED <<noteVars, setup, answer, cut>>

\* The file is opened anew and its graph loaded; when that fails the old one stays.
Reopen ==
    /\ server.pc = "reopen"
    /\ server' = [server EXCEPT !.pc = "restat", !.inode = path]
    /\ UNCHANGED <<noteVars, setup, answer, cut>>
ReopenFails ==
    /\ server.pc = "reopen"
    /\ server' = [server EXCEPT !.pc = "handle", !.checked = FALSE]
    /\ UNCHANGED <<noteVars, setup, answer, cut>>

\* last_mtime is what the file's time is after that.
Restat ==
    /\ server.pc = "restat"
    /\ server' = [server EXCEPT !.pc = "handle", !.seen = mtime[path], !.raced = path # server.inode]
    /\ UNCHANGED <<noteVars, setup, answer, cut>>

-----------------------------------------------------------------------------
(* Requests.                                                               *)

Http == setup.transport = "http"

\* The guard a token stands for; a session started with --as never looks at it.
GuardOf(token) == IF setup.as # NoOne THEN setup.as
                  ELSE IF setup.tokens /\ token = "known" THEN "known" ELSE NoOne
RequireAuth == setup.tokens /\ setup.as = NoOne
AcceptsRequestToken(bearer) == ~RequireAuth \/ GuardOf(bearer) # NoOne

\* handle_message_with_token: the credential of the transport replaces _meta.
TokenOf(r) == IF ~r.object THEN NoOne ELSE IF Http /\ r.bearer # NoOne THEN r.bearer ELSE r.meta

\* handle_client up to the message; on stdio every line is one.
Receive(r) ==
    LET refused == IF ~Http THEN "none"
                   ELSE IF ~AcceptsRequestToken(r.bearer) THEN "401"
                   ELSE IF r.size = "large" THEN "413"
                   ELSE IF ~r.post \/ r.size = "empty" THEN "ok" ELSE "none"
    IN /\ server.pc = "idle"
       /\ IF refused = "none" THEN server' = [server EXCEPT !.pc = "message", !.request = r, !.pin = 0] /\ UNCHANGED answer
          ELSE answer' = [kind |-> refused] /\ UNCHANGED server
       /\ UNCHANGED <<noteVars, setup, cut>>

Reply(a, pin) ==
    /\ server' = [server EXCEPT !.pc = "write", !.pin = pin, !.request = NoRequest, !.from = 0, !.checked = FALSE]
    /\ answer' = a
    /\ UNCHANGED <<setup, cut>>

\* handle_message for everything that is no tool call.
HandleOther ==
    LET r == server.request IN
    /\ server.pc = "handle" /\ r.kind # "call"
    /\ Reply([kind |-> CASE r.kind = "garbage" -> "-32700" [] r.kind = "nameless" -> "-32602"
                         [] r.kind = "unknown" -> "-32601" [] OTHER -> "ok"], 0)
    /\ UNCHANGED noteVars

\* Mutant form: a commit with a saved index counts as indexed.
CheckFreshnessCached == last = tree \/ tree \in DOMAIN cache

\* check_freshness, with the commit as HEAD: only the recorded commit is compared.
CheckFreshness == last = tree

\* A tool's result: who it ran as, and on which database.
Result(kind) ==
    [kind |-> kind, as |-> GuardOf(TokenOf(server.request)), bearer |-> server.request.bearer, inode |-> server.inode,
     fresh |-> CheckFreshness, tree |-> tree,
     quiet |-> server.checked /\ ~server.raced /\ path = server.from /\ ~cut /\ pass.pc # "finish"]

\* weave_pin_note: into the database the server has open, without the lock.
PinNote(r) ==
    /\ Spend("pins")
    /\ \E h \in SpanHashes(disk[server.inode].nodes, r.symbol) : InsertNote(server.inode, r.symbol, r.tier, h)
    /\ Pinned(r.symbol, r.tier, "agent", server.inode # path)
    /\ Reply(Result("tool"), Len(pins) + 1)
    /\ UNCHANGED <<tree, path, mtime, cache, last, pass, clock>>

\* handle_tools_call: the query tools change nothing.
HandleCall ==
    LET r == server.request IN
    /\ server.pc = "handle" /\ r.kind = "call"
    /\ IF RequireAuth /\ GuardOf(TokenOf(r)) = NoOne
       THEN Reply([kind |-> "-32000"], 0) /\ UNCHANGED noteVars
       ELSE IF r.tool # "pin" THEN Reply(Result("tool"), 0) /\ UNCHANGED noteVars
       ELSE IF disk[server.inode].nodes[r.symbol] = 0
       THEN Reply(Result("not found"), 0) /\ UNCHANGED noteVars
       ELSE PinNote(r)

\* The answer is out, and with it the word that the note is pinned.
WriteAnswer ==
    /\ server.pc = "write"
    /\ server' = [server EXCEPT !.pc = "idle", !.pin = 0]
    /\ pins' = IF server.pin = 0 THEN pins ELSE [pins EXCEPT ![server.pin].acked = TRUE]
    /\ answer' = NoAnswer
    /\ UNCHANGED <<tree, disk, path, mtime, cache, last, pass, clock, left, setup, cut>>

\* A client that goes away ends the transport's loop, wherever it is read or written.
ClientFails ==
    /\ server.pc \in {"idle", "message", "write"}
    /\ server' = Off /\ answer' = NoAnswer
    /\ UNCHANGED <<noteVars, setup, cut>>

ServerStep ==
    \/ ServerOpen \/ ServerOpened
    \/ \E due \in BOOLEAN : MaybeReload(due)
    \/ Reopen \/ ReopenFails \/ Restat
    \/ \E r \in setup.requests : Receive(r)
    \/ HandleOther \/ HandleCall \/ WriteAnswer \/ ClientFails

NoteStep ==
    /\ NoteNext
    /\ cut' = (cut \/ (pass.pc = "finish" /\ pass' = NoPass /\ last' # pass.parsed))
    /\ UNCHANGED <<setup, server, answer>>

ServeNext == NoteStep \/ ServerStep
ServeSpec == ServeInit /\ [][ServeNext]_serveVars

-----------------------------------------------------------------------------
(* Properties.                                                             *)

\* A tool that says the index is fresh while it looked at the file in that message,
\* and no index was renamed into place since, works on the symbols of the current
\* commit (handler.rs:206-251, 616).  The exceptions are a rename that fell between
\* an opening and the look at the time after it, and an index that died before it
\* recorded its commit, or is about to.
FreshAnswersAreFresh ==
    answer.kind \in {"tool", "not found"} /\ answer.fresh /\ answer.quiet => disk[answer.inode].nodes = answer.tree
=============================================================================
