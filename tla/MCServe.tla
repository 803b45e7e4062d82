-------------------------------- MODULE MCServe --------------------------------
(* Five parts, one of which moves in a behaviour.  The server: one symbol   *)
(* that is defined, changed or gone, two notes, and an HTTP server with       *)
(* credentials, a stdio server with them and one bound to a subject.  The     *)
(* derived rows: two code files and two notes in two directories.  Opening:   *)
(* binaries of three ages, and a reader.  The hub: signed pushes and pulls     *)
(* across a crash, canvases, webhooks whose name turns, and refused clients.  *)
(* Admission: machines around each limit, resized at will.                    *)
EXTENDS McpServer, DerivedIndex, Migrations, HubFront, AdmissionBudget, TLC

VARIABLE part

MCTrees == {[s \in {"f"} |-> b] : b \in 0..2}
Request(post, size, bearer, kind, object, meta, tool, tier) ==
    [post |-> post, size |-> size, bearer |-> bearer, kind |-> kind, object |-> object, meta |-> meta,
     tool |-> tool, symbol |-> "f", tier |-> tier]
Call(bearer, meta, object, tool) == Request(TRUE, "fits", bearer, "call", object, meta, tool, "crystallized")
Plain == {Call("known", NoOne, TRUE, "pin"), Call("known", NoOne, TRUE, "ask")}
Odd ==
    {Call("none", "known", TRUE, "ask"), Call("wrong", "known", TRUE, "ask"),
     Call("known", "wrong", TRUE, "ask"), Call("known", "known", FALSE, "ask"),
     Request(TRUE, "fits", "known", "call", TRUE, NoOne, "pin", "ephemeral"),
     Request(TRUE, "large", "known", "call", TRUE, NoOne, "ask", "ephemeral"),
     Request(FALSE, "empty", "known", "ping", TRUE, NoOne, "ask", "ephemeral"),
     Request(TRUE, "fits", "known", "garbage", TRUE, NoOne, "ask", "ephemeral"),
     Request(TRUE, "fits", "known", "unknown", TRUE, NoOne, "ask", "ephemeral"),
     Request(TRUE, "fits", "known", "nameless", TRUE, NoOne, "ask", "ephemeral")}
Setup(transport, remote, as, required, tokens, requests) ==
    [transport |-> transport, remote |-> remote, allow |-> remote, as |-> as, required |-> required, tokens |-> tokens, requests |-> requests]
Usual == Setup("http", FALSE, NoOne, FALSE, TRUE, Plain)
MCSetups == {Usual, Setup("http", TRUE, NoOne, FALSE, TRUE, Odd), Setup("stdio", FALSE, NoOne, FALSE, TRUE, Odd),
             Setup("http", FALSE, "ana", TRUE, TRUE, Odd), Setup("http", TRUE, "ana", FALSE, TRUE, Odd)}
Budget(moves, npins, ticks) == [moves |-> moves, pins |-> npins, ticks |-> ticks]
MCBudgets == {Budget(4, 1, 0), Budget(1, 1, 1), Budget(3, 2, 2)}

One(s, t) == [x \in {s} |-> t]
NoCode == [x \in {} |-> 0]
MCCode == [p \in {"a/x.rs", "b/y.rs"} |-> IF p = "a/x.rs" THEN {NoCode, One("S::f", 1), One("S::f", 2)} ELSE {NoCode, One("T::f", 1)}]
Note(tags, links, headings, refs) == [there |-> TRUE, tags |-> tags, links |-> links, headings |-> headings, refs |-> refs]
Link(t, s) == [target |-> t, section |-> s]
MCNotes == [p \in {"a/n.md", "b/m.md"} |-> IF p = "a/n.md"
   THEN {NoNote, Note({"t"}, {Link("m", "Intro")}, {}, {"f"}), Note({}, {Link("m", "")}, {}, {"T::f"})}
   ELSE {NoNote, Note({"t"}, {}, {"intro"}, {}), Note({"u"}, {Link("n", "")}, {}, {})}]
MCShort == [s \in {"S::f", "T::f", "f"} |-> "f"]
MCStem == [p \in {"a/n.md", "b/m.md"} |-> IF p = "a/n.md" THEN "n" ELSE "m"]
MCDir == [p \in {"a/x.rs", "b/y.rs", "a/n.md", "b/m.md"} |-> IF p \in {"a/x.rs", "a/n.md"} THEN "a" ELSE "b"]
MCLower == [h \in {"Intro", "intro"} |-> "intro"]

MCOpeners == [p \in {"old", "new", "newer", "reader"} |-> CASE p = "old" -> 2 [] p = "new" -> 3 [] OTHER -> 4]

Pushed(sha, bytes, sig, keep) == [sha |-> sha, bytes |-> bytes, sig |-> sig, retention |-> keep]
NoPushes == [web |-> <<>>, api |-> <<>>]
\* The second has another commit's signature; commit 1 and later 2 are pushed again.
Signed == [NoPushes EXCEPT !.web = <<Pushed(2, 1, Sign("web", 2, 1), 2), Pushed(1, 2, Sign("web", 1, 1), 1),
                                     Pushed(1, 2, Sign("web", 1, 2), 1), Pushed(2, 3, Sign("web", 2, 3), 1)>>]
Two == [web |-> <<Pushed(1, 2, NoSig, 2)>>, api |-> <<Pushed(1, 3, NoSig, 1), Pushed(2, 9, NoSig, 1)>>]
M(label, files) == [label |-> label, files |-> files]
MCModulesOf == (1 :> {M("ui", {"ui/a"})}) @@ (2 :> {M("ui", {"ui/a"}), M("core", {"core/a", "core/gen"})})
                 @@ (3 :> {M("core", {"core/gen"}), M("vendor", {"vendor/x"})})
MCViewOf == [all |-> [labels |-> {"ui", "core", "vendor"}, repos |-> {"web", "api"}],
             guest |-> [labels |-> {"ui"}, repos |-> {"web"}]]
Ask(route, repos, sha, cred) ==
    [route |-> route, repos |-> repos, sha |-> sha, credential |-> cred, token |-> TRUE, large |-> FALSE, url |-> Nothing]
Reading == {Ask("pull", <<"web">>, 0, "all"), Ask("pull", <<"web">>, 2, "all")}
Drawing == {Ask("mesh", <<"web", "api">>, 0, cred) : cred \in {"all", "guest"}} \cup {Ask("canvas", <<"web">>, 0, "guest"), Ask("canvas", <<"api">>, 0, "all")}
           \cup {Ask("mesh", <<"api">>, 0, "guest")}
Hooking == {[Ask("webhook", <<"web">>, 0, "all") EXCEPT !.url = u] : u \in {"url", Nothing}}
Wrong == {[Ask("pull", <<"web">>, 0, "all") EXCEPT !.token = FALSE], [Ask("pull", <<"web">>, 0, "all") EXCEPT !.large = TRUE],
          Ask("path", <<"web">>, 0, "all"), Ask("method", <<"web">>, 0, "all")}
Bare == [loopback |-> TRUE, token |-> Nothing, key |-> Nothing, provider |-> "hmac", flag |-> {}, config |-> {}, coarse |-> FALSE,
          slots |-> 2, requests |-> {}, pushes |-> NoPushes, records |-> {{"public"}}, visits |-> 0, turns |-> 0, crashes |-> 0]
MCHubSetups ==
    {[Bare EXCEPT !.key = "exact", !.provider = "ed25519", !.requests = Reading, !.visits = 2, !.crashes = 1, !.pushes = Signed],
     [Bare EXCEPT !.coarse = TRUE, !.key = "long", !.requests = Reading, !.visits = 1, !.pushes = Signed],
     [Bare EXCEPT !.flag = {"vendor"}, !.config = {"ui"}, !.requests = Drawing, !.visits = 1, !.pushes = Two],
     [Bare EXCEPT !.config = {"core/gen"}, !.requests = Drawing, !.visits = 1, !.pushes = Two],
     [Bare EXCEPT !.requests = Hooking, !.visits = 3, !.turns = 2, !.pushes = [Two EXCEPT !.api = <<>>],
                   !.records = {{"public"}, {"public", "private"}, {"private"}}],
     [Bare EXCEPT !.loopback = FALSE, !.token = "set", !.requests = Wrong \cup Reading, !.visits = 3, !.slots = 1],
     [Bare EXCEPT !.loopback = FALSE, !.requests = Reading, !.visits = 1]}
    \cup {[Bare EXCEPT !.loopback = FALSE, !.token = t, !.key = "short", !.provider = p, !.requests = Wrong, !.visits = 1] :
            t \in {Nothing, "empty", "set"}, p \in {"hmac", "ed25519"}}

Quota(quota, period) == [quota |-> quota, period |-> period]
Box(v2, v1, host, cpu2, cpu1, cores, override) ==
    [v2 |-> v2, v1 |-> v1, host |-> host, cpu2 |-> cpu2, cpu1 |-> cpu1, cores |-> cores, override |-> override]
MCMachines ==
    {Box(v2, Absent, 2048, cpu2, NoQuota, cores, Absent) :
        v2 \in {Absent, 0, 1, 40, 256, 503, 504, 511, 512}, cpu2 \in {NoQuota, Quota(150, 100), Quota(5, 0)}, cores \in {2, 16}}
    \cup {Box(Absent, v1, host, NoQuota, cpu1, 4, override) :
        v1 \in {Absent, 64, V1Unlimited, V1Unlimited + 1}, host \in {Absent, 300}, cpu1 \in {NoQuota, Quota(0, 100), Quota(300, 100)},
        override \in {Absent, 1, 9}}

\* Odd requests beside one commit; plain ones beside many; and the notes alone.
ServePart ==
    /\ left = Budget(4, 1, 0) => setup = Usual
    /\ left = Budget(1, 1, 1) => setup # Usual
    /\ left = Budget(3, 2, 2) => ~Startable(setup)
ServeRests == /\ tree = (CHOOSE t \in MCTrees : TRUE) /\ left = Budget(3, 2, 2)
              /\ setup = CHOOSE s \in MCSetups : ~Startable(s)
DerivedRests == (\A p \in DOMAIN MCCode : codeFiles[p] = NoCode) /\ \A p \in DOMAIN MCNotes : noteFiles[p] = NoNote

HubRests == hubSetup = (CHOOSE h \in MCHubSetups : ~HubStartable(h))
AdmissionRests == box = CHOOSE m \in MCMachines : TRUE

MCInit ==
    /\ part \in {"serve", "derived", "open", "hub", "admission"}
    /\ (IF part = "admission" THEN TRUE ELSE AdmissionRests) /\ AdmissionInit
    /\ (IF part = "hub" THEN TRUE ELSE HubRests) /\ FrontInit
    /\ (IF part = "open" THEN TRUE ELSE versions = {}) /\ MigrationsInit
    /\ (IF part = "serve" THEN TRUE ELSE ServeRests) /\ ServeInit /\ (part = "serve" => ServePart)
    /\ DerivedInit /\ (part # "derived" => DerivedRests)
MCNext ==
    /\ UNCHANGED part
    /\ \/ part = "serve" /\ ServeNext /\ UNCHANGED <<derivedVars, migrationVars, frontVars, admissionVars>>
       \/ part = "derived" /\ DerivedNext /\ UNCHANGED <<serveVars, migrationVars, frontVars, admissionVars>>
       \/ part = "open" /\ MigrationsNext /\ UNCHANGED <<serveVars, derivedVars, frontVars, admissionVars>>
       \/ part = "hub" /\ FrontStep /\ UNCHANGED <<serveVars, derivedVars, migrationVars, admissionVars>>
       \/ part = "admission" /\ AdmissionNext /\ UNCHANGED <<serveVars, derivedVars, migrationVars, frontVars>>
MCSpec == MCInit /\ [][MCNext]_<<part, serveVars, derivedVars, migrationVars, frontVars, admissionVars>>
=============================================================================
