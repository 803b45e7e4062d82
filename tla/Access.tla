-------------------------------- MODULE Access --------------------------------
(***************************************************************************)
(* Who may see and waive what (crates/weave-graph-core/src/rbac.rs and     *)
(* crates/weave-graph-cli/src/{rbac,waiver,config}.rs).                    *)
(*                                                                         *)
(* `weave serve-scim` is one serial process: an identity provider sends it *)
(* provision and deprovision calls, which rewrite rbac-directory.toml, and *)
(* sync calls, which reload its snapshot.  Every other command is a process*)
(* of its own and resolves its identity from config.toml overlaid by the   *)
(* directory FILE.  fs::write truncates the file and then fills it, and a  *)
(* crash may fall in between.                                              *)
(***************************************************************************)
EXTENDS Naturals, Sequences, FiniteSets

CONSTANTS Subjects,       \* the subjects that are named anywhere
          UserTables,     \* possible [rbac.users] sections: subject -> [given, roles, scope],
                          \* empty when config.toml is missing or does not parse
          GroupMappings,  \* [rbac.group_mappings]: "group:..." role -> role
          Bodies,         \* bodies an identity provider POSTs
          Github,         \* the owner of the GitHub token: [login, orgs, teams]
          GithubRoles,    \* [rbac.github_*_roles]: login or marker -> set of roles
          ScimToken,      \* whether rbac.scim.token is set
          MaxScim         \* bound on the SCIM requests of a behaviour

VARIABLES token,      \* whether WEAVE_GITHUB_TOKEN is set for the commands
          users,      \* [rbac.users] of config.toml
          directory,  \* the content of rbac-directory.toml: subject -> set of roles
          snapshot,   \* ScimDirectory::snapshot of the running server
          scim,       \* the server: "idle", or "writing" a file it has truncated
          pending,    \* the content being written, for which call, and its status
          reply,      \* the last answer of the server
          believed,   \* the identity provider's own ledger of answered calls
          requests    \* SCIM requests so far
accessVars ==
    <<token, users, directory, snapshot, scim, pending, reply, believed, requests>>

NoSubject == "nobody"
EmptyDirectory == [s \in {} |-> {}]
NoWrite == [content |-> EmptyDirectory, status |-> 0, subject |-> NoSubject, roles |-> {}]
Put(d, s, roles) == [t \in DOMAIN d \cup {s} |-> IF t = s THEN roles ELSE d[t]]
Drop(d, s) == [t \in DOMAIN d \ {s} |-> d[t]]

\* read_rbac_users: an entry without an array of roles is left out.
ReadRbacUsers(file) ==
    [s \in {t \in DOMAIN file : file[t].given} |-> [roles |-> file[s].roles, scope |-> file[s].scope]]

AccessInit ==
    /\ token \in BOOLEAN /\ users \in {ReadRbacUsers(file) : file \in UserTables}
    /\ directory = EmptyDirectory /\ snapshot = EmptyDirectory
    /\ scim = "idle" /\ pending = NoWrite
    /\ reply = 0 /\ believed = EmptyDirectory /\ requests = 0

-----------------------------------------------------------------------------
(* Identities.                                                             *)

Anonymous == [subject |-> "anonymous", roles |-> {}, scope |-> {}]

\* The directory's entry of a subject as guard_for reads it: its groups mapped
\* to roles, and no path scope.
MappedRoles(roles) == roles \cup {GroupMappings[r] : r \in roles \cap DOMAIN GroupMappings}

\* The subjects guard_for knows: [rbac.users], overridden by the directory.
KnownUsers ==
    [s \in DOMAIN users \cup DOMAIN directory |->
        IF s \in DOMAIN directory THEN [roles |-> MappedRoles(directory[s]), scope |-> {}]
        ELSE users[s]]

\* StaticAuthProvider::resolve.
Resolve(known, s) ==
    IF s \in DOMAIN known THEN [subject |-> s, roles |-> known[s].roles, scope |-> known[s].scope]
    ELSE Anonymous

\* github_identity, when the requests in `reached` are answered: without the user
\* there is no identity, without the organisations or teams it lacks their markers.
GithubIdentity(reached) ==
    LET markers == (IF "orgs" \in reached THEN Github.orgs ELSE {})
                     \cup (IF "teams" \in reached THEN Github.teams ELSE {})
        mapped == UNION {GithubRoles[m] : m \in (markers \cup {Github.login}) \cap DOMAIN GithubRoles}
    IN [subject |-> Github.login, roles |-> markers \cup mapped, scope |-> {}]

\* guard_for: a GitHub identity that can be had wins over the subject asked for.
GuardFor(s, reached) ==
    IF token /\ "user" \in reached THEN GithubIdentity(reached)
    ELSE Resolve(KnownUsers, s)

\* in_module: a path is a sequence of components; the empty prefix holds all.
InModule(path, prefix) == Len(prefix) <= Len(path) /\ SubSeq(path, 1, Len(prefix)) = prefix

\* RbacGuard::visible, for a node [path, public, ...].
Visible(id, node) ==
    \/ /\ "internal" \in id.roles
       /\ id.scope = {} \/ \E prefix \in id.scope : InModule(node.path, prefix)
    \/ node.public

CanWaive(id) == "allow-drift" \in id.roles

\* waiver::authorize.  Without a subject only config.toml is looked at.
Authorized(s, reached) ==
    IF s = NoSubject THEN \A u \in DOMAIN users : "allow-drift" \notin users[u].roles
    ELSE CanWaive(GuardFor(s, reached))

-----------------------------------------------------------------------------
(* The SCIM server.                                                        *)

Answer(status) ==
    /\ reply' = status
    /\ UNCHANGED <<directory, scim, pending>>

Request == scim = "idle" /\ requests < MaxScim /\ requests' = requests + 1 /\ UNCHANGED <<token, users>>

\* save_directory: the file is truncated here and filled by FinishWrite.
BeginWrite(content, status, s, roles) ==
    /\ directory' = EmptyDirectory
    /\ scim' = "writing"
    /\ pending' = [content |-> content, status |-> status, subject |-> s, roles |-> roles]
    /\ UNCHANGED <<snapshot, reply, believed>>

\* provision_request: the roles of a body that parses.
BodyRoles(body) == (IF body.given THEN body.roles ELSE {"reader"}) \cup body.groups

\* POST /Users.  A body that does not parse, or an empty userName, is refused.
Provision(body) ==
    /\ Request
    /\ IF body.userName = NoSubject THEN Answer(400) /\ UNCHANGED <<snapshot, believed>>
       ELSE BeginWrite(Put(directory, body.userName, BodyRoles(body)), 201, body.userName, BodyRoles(body))

\* DELETE /Users/<subject>.
Deprovision(s) ==
    /\ Request
    /\ IF s \notin DOMAIN directory
       THEN Answer(404) /\ believed' = Drop(believed, s) /\ UNCHANGED snapshot
       ELSE BeginWrite(Drop(directory, s), 204, s, {})

\* The write is complete and the answer goes out.
FinishWrite ==
    /\ scim = "writing"
    /\ directory' = pending.content
    /\ scim' = "idle"
    /\ reply' = pending.status
    /\ believed' = IF pending.status = 201 THEN Put(believed, pending.subject, pending.roles)
                   ELSE Drop(believed, pending.subject)
    /\ pending' = NoWrite
    /\ UNCHANGED <<token, users, snapshot, requests>>

\* POST /sync.
Sync == Request /\ snapshot' = directory /\ Answer(200) /\ UNCHANGED believed

\* GET /Users/<subject>: from the snapshot.
Get(s) == Request /\ Answer(IF s \in DOMAIN snapshot THEN 200 ELSE 404) /\ UNCHANGED <<snapshot, believed>>

\* Everything else is 405, and without the token 401, whatever is asked.
Turn(status) ==
    /\ Request
    /\ status = 405 \/ ScimToken
    /\ Answer(status) /\ UNCHANGED <<snapshot, believed>>

\* The server is killed and started again; its snapshot is what the file holds.
Restart ==
    /\ requests < MaxScim
    /\ requests' = requests + 1
    /\ scim' = "idle"
    /\ snapshot' = directory
    /\ pending' = NoWrite
    /\ UNCHANGED <<token, users, directory, reply, believed>>

ScimStep ==
    \/ \E body \in Bodies : Provision(body)
    \/ \E s \in Subjects : Deprovision(s) \/ Get(s)
    \/ FinishWrite \/ Sync \/ Restart
    \/ \E status \in {401, 405} : Turn(status)
=============================================================================
