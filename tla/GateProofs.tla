------------------------------ MODULE GateProofs ------------------------------
(***************************************************************************)
(* What a gate that passes has established, for any graph, policy,         *)
(* directory, pair of repositories and set of submodules; and what reviews *)
(* of rules keep.                                                          *)
(***************************************************************************)
EXTENDS PolicyGate, Federation, SubmoduleGate, RulesReview,
        FiniteSetTheorems, SequenceTheorems, WellFoundedInduction, TLAPS

\* A set of numbers has a smallest one.
LEMMA FirstNumber ==
  ASSUME NEW S \in SUBSET Nat, S # {} PROVE \E n \in S : \A m \in S : n <= m
<1>1. PICK n \in S : \A m \in S : ~(<<m, n>> \in OpToRel(<, Nat))
  BY NatLessThanWellFounded, WFMin, Zenon
<1>2. \A m \in S : ~(m < n) /\ m \in Nat /\ n \in Nat
  BY <1>1, Zenon DEF OpToRel
<1>. QED  BY <1>2

-----------------------------------------------------------------------------
(* weave policy lint.                                                      *)

Callers == Subjects \cup {NoSubject}
LogLines == Callers \X {RuleId(policy[i]) : i \in DOMAIN policy}

\* A rule is respected by a graph, exempts one of the roles, or has the id of a
\* violation.
Covered(i, es, roles, violations) ==
    \/ Respected(policy[i], es)
    \/ policy[i].allowed \cap roles # {}
    \/ \E j \in violations : RuleId(policy[j]) = RuleId(policy[i])

\* What a lint has judged covers every rule unless something was hidden, which
\* without a subject nothing is.
Judged ==
    /\ lint.subject \in Callers
    /\ lint.violations \subseteq DOMAIN policy
    /\ lint.subject = NoSubject => ~lint.incomplete
    /\ ~lint.incomplete =>
         \A i \in DOMAIN policy, k \in DOMAIN lint.sought :
             Covered(i, lint.sought[k], lint.roles, lint.violations)

GateInv ==
    /\ KnownEnds(graph)
    /\ \A i \in DOMAIN peers : peers[i] = NoDatabase \/ KnownEnds(peers[i])
    /\ policy \in Seq({policy[i] : i \in DOMAIN policy})
    /\ log \in Seq(LogLines)
    /\ lint # Idle => Judged
    /\ PassCertifies

\* filter_view of a graph whose edges have both ends.
LEMMA WholeView ==
  ASSUME NEW es, KnownEnds(es), NEW masked \in BOOLEAN, NEW id
  PROVE  /\ ~masked => ~FilterView(es, masked, id).incomplete
         /\ ~FilterView(es, masked, id).incomplete =>
              /\ FilterView(es, masked, id).nodes = AllNodes
              /\ FilterView(es, masked, id).edges = es
BY Zenon DEF FilterView, KnownEnds

\* lint_scoped over the whole graph finds every rule that is not respected and
\* exempts nobody.
LEMMA LintFinds ==
  ASSUME NEW es, KnownEnds(es), RulesLoad, NEW roles, NEW i \in DOMAIN policy
  PROVE  \/ Respected(policy[i], es)
         \/ policy[i].allowed \cap roles # {}
         \/ i \in LintScoped(AllNodes, es, policy, roles)
<1>. SUFFICES ASSUME policy[i].allowed \cap roles = {},
                     i \notin LintScoped(AllNodes, es, policy, roles)
              PROVE  Respected(policy[i], es)
  BY Zenon
<1>1. policy[i].kind = "disallow" \/ policy[i].kind = "require"
  BY Zenon DEF RulesLoad
<1>2. (policy[i].kind = "disallow") # (Crossing(AllNodes, es, policy[i]) # {})
  BY Zenon DEF LintScoped
<1>3. Crossing(AllNodes, es, policy[i]) # {} <=>
        \E e \in es : InModule(Node[e[1]].path, policy[i].from) /\ InModule(Node[e[2]].path, policy[i].to)
  BY Zenon DEF Crossing, KnownEnds
<1>4. CASE policy[i].kind = "disallow"
  BY <1>2, <1>3, <1>4, Zenon DEF Respected
<1>5. CASE policy[i].kind = "require"
  BY <1>2, <1>3, <1>5, Zenon DEF Respected
<1>. QED  BY <1>1, <1>4, <1>5, Zenon

\* Keeping one violation of each id keeps the id.
LEMMA FirstKept ==
  ASSUME NEW ids \in SUBSET DOMAIN policy, DOMAIN policy \subseteq Nat,
         NEW federated \in BOOLEAN, NEW i \in ids
  PROVE  /\ FirstOfEach(ids, federated) \subseteq ids
         /\ \E j \in FirstOfEach(ids, federated) : RuleId(policy[j]) = RuleId(policy[i])
<1>. DEFINE same == {j \in ids : RuleId(policy[j]) = RuleId(policy[i])}
<1>1. same \in SUBSET Nat /\ same # {}
  BY Zenon
<1>2. PICK n \in same : \A m \in same : n <= m
  BY <1>1, FirstNumber, Zenon
<1>3. \A j \in ids : j < n => RuleId(policy[j]) # RuleId(policy[n])
  BY <1>1, <1>2
<1>4. n \in FirstOfEach(ids, federated)
  BY <1>2, <1>3, Zenon DEF FirstOfEach
<1>. QED  BY <1>2, <1>4, Zenon DEF FirstOfEach

\* append_waiver_log writes a line for each of the violations, and nothing else.
LEMMA LinesHold ==
  ASSUME NEW s, NEW is, IsFiniteSet(is)
  PROVE  /\ Lines(s, is) \in Seq({<<s, RuleId(policy[i])>> : i \in is})
         /\ \A i \in is : \E k \in DOMAIN Lines(s, is) : Lines(s, is)[k] = <<s, RuleId(policy[i])>>
<1>. DEFINE n == Cardinality(is)
            Q(q) == \A i \in is : \E k \in DOMAIN q : q[k] = i
            order == CHOOSE q \in [1..n -> is] : Q(q)
<1>1. n \in Nat /\ ExistsBijection(1..n, is)
  BY FS_CardinalityType, Zenon
<1>2. \E q \in [1..n -> is] : Q(q)
  BY <1>1, Zenon DEF ExistsBijection, Bijection, Surjection
<1>3. order \in [1..n -> is] /\ Q(order)
  BY <1>2, Zenon
<1>4. Lines(s, is) = [k \in DOMAIN order |-> <<s, RuleId(policy[order[k]])>>]
  BY Zenon DEF Lines
<1>. HIDE DEF order, n
<1>. DEFINE S == {<<s, RuleId(policy[i])>> : i \in is}
<1>5. Lines(s, is) \in [1..n -> S]
  BY <1>3, <1>4, Zenon
<1>6. Lines(s, is) \in Seq(S)
  BY <1>1, <1>5
<1>. QED  BY <1>3, <1>4, <1>6, ZenonT(60)

\* cmd_policy_lint reads the directory, the graphs, the policy and the log.
LEMMA StartKeeps ==
  ASSUME NEW s, NEW failOnMasked, NEW waive, NEW reason, NEW federated, NEW reached,
         StartLint(s, failOnMasked, waive, reason, federated, reached)
  PROVE  UNCHANGED accessVars /\ UNCHANGED <<graph, peers, policy>> /\ UNCHANGED log
  BY Zenon DEF StartLint

\* What cmd_policy_lint hands to report_and_gate.
LEMMA StartJudges ==
  ASSUME GateInv, NEW s \in Callers, NEW failOnMasked \in BOOLEAN, NEW waive,
         NEW reason \in BOOLEAN, NEW federated \in BOOLEAN, NEW reached,
         StartLint(s, failOnMasked, waive, reason, federated, reached)
  PROVE  \/ UNCHANGED lint /\ verdict' = [kind |-> "error"]
         \/ Judged' /\ UNCHANGED verdict
<1>. DEFINE id     == GuardFor(s, reached)
            roles  == IF s = NoSubject THEN {} ELSE id.roles
            sought == IF federated THEN peers ELSE <<graph>>
            views  == [i \in DOMAIN sought |-> FilterView(sought[i], s # NoSubject, id)]
            ids    == UNION {LintScoped(views[i].nodes, views[i].edges, policy, roles) : i \in DOMAIN views}
<1>. SUFFICES ASSUME RulesLoad, \A i \in DOMAIN sought : sought[i] # NoDatabase,
                     lint' = [phase |-> "judged", subject |-> s, failOnMasked |-> failOnMasked,
                              waive |-> waive, reason |-> reason, sought |-> sought, roles |-> roles,
                              violations |-> FirstOfEach(ids, federated),
                              incomplete |-> \E i \in DOMAIN views : views[i].incomplete]
              PROVE  Judged'
  BY Zenon DEF StartLint
<1>1. UNCHANGED policy
  BY StartKeeps, Zenon
<1>. HIDE DEF id, roles, sought, views, ids
<1>2. \A k \in DOMAIN sought : KnownEnds(sought[k])
  BY DEF GateInv, sought
<1>3. ids \subseteq DOMAIN policy /\ DOMAIN policy \subseteq Nat
  <2>1. DOMAIN policy \subseteq Nat
    BY DEF GateInv
  <2>. QED  BY <2>1, Zenon DEF LintScoped, ids
<1>4. /\ lint'.subject = s /\ lint'.sought = sought /\ lint'.roles = roles
      /\ lint'.violations = FirstOfEach(ids, federated)
      /\ lint'.incomplete = (\E i \in DOMAIN views : views[i].incomplete)
  BY Zenon
<1>5. FirstOfEach(ids, federated) \subseteq DOMAIN policy
  BY <1>3, Zenon DEF FirstOfEach
<1>v. /\ DOMAIN views = DOMAIN sought
      /\ \A k \in DOMAIN sought : views[k] = FilterView(sought[k], s # NoSubject, id)
  BY Zenon DEF views
<1>6. s = NoSubject => ~(\E i \in DOMAIN views : views[i].incomplete)
  <2>. SUFFICES ASSUME s = NoSubject, NEW k \in DOMAIN views, views[k].incomplete PROVE FALSE
    BY Zenon
  <2>1. views[k] = FilterView(sought[k], FALSE, id) /\ KnownEnds(sought[k])
    BY <1>2, <1>v, Zenon
  <2>. QED  BY <2>1, WholeView, ZenonT(60)
<1>7. ASSUME ~(\E i \in DOMAIN views : views[i].incomplete),
             NEW i \in DOMAIN policy, NEW k \in DOMAIN sought
      PROVE  Covered(i, sought[k], roles, FirstOfEach(ids, federated))
  <2>. DEFINE masked == s # NoSubject
  <2>0. /\ views[k] = FilterView(sought[k], masked, id) /\ masked \in BOOLEAN
        /\ ~views[k].incomplete /\ KnownEnds(sought[k])
    BY <1>2, <1>7, <1>v, Zenon
  <2>. HIDE DEF masked
  <2>1. views[k].nodes = AllNodes /\ views[k].edges = sought[k]
    BY <2>0, WholeView
  <2>2. \/ Respected(policy[i], sought[k])
        \/ policy[i].allowed \cap roles # {}
        \/ i \in LintScoped(AllNodes, sought[k], policy, roles)
    BY <1>2, LintFinds, Zenon
  <2>3. i \in LintScoped(AllNodes, sought[k], policy, roles) => i \in ids
    BY <1>7, <1>v, <2>1, Zenon DEF ids
  <2>4. i \in ids => \E j \in FirstOfEach(ids, federated) : RuleId(policy[j]) = RuleId(policy[i])
    BY <1>3, FirstKept
  <2>. QED  BY <2>2, <2>3, <2>4, Zenon DEF Covered
<1>. QED  BY <1>1, <1>4, <1>5, <1>6, <1>7, Zenon DEF Judged, Covered

\* report_and_gate: when it passes, every rule is respected, exempts or is in the log.
LEMMA GateCertifies ==
  ASSUME GateInv, NEW reached, GateLint(reached)
  PROVE  log' \in Seq(LogLines) /\ PassCertifies'
<1>. DEFINE waived   == {i \in lint.violations : RuleId(policy[i]) \in lint.waive}
            blocking == lint.violations \ waived
            refused  == lint.waive # {} /\ ~(Authorized(lint.subject, reached) /\ lint.reason)
            new      == Lines(lint.subject, waived)
<1>1. /\ Judged /\ UNCHANGED policy
      /\ log' = IF refused THEN log ELSE log \o new
      /\ verdict'.sought = lint.sought /\ verdict'.roles = lint.roles
      /\ verdict'.subject = lint.subject
  BY Zenon DEF GateLint, GateInv
<1>2. verdict'.kind = "pass" => /\ ~refused /\ blocking = {}
                                /\ lint.incomplete => lint.subject = NoSubject
  BY Zenon DEF GateLint
<1>3. IsFiniteSet(waived) /\ waived \subseteq DOMAIN policy
  <2>1. policy \in Seq({policy[i] : i \in DOMAIN policy})
    BY Zenon DEF GateInv
  <2>2. Len(policy) \in Nat /\ DOMAIN policy = 1..Len(policy)
    BY <2>1
  <2>3. IsFiniteSet(DOMAIN policy)
    BY <2>2, FS_Interval
  <2>. QED  BY <1>1, <2>3, FS_Subset, Zenon DEF Judged
<1>4. /\ new \in Seq(LogLines)
      /\ \A i \in waived : \E k \in DOMAIN new : new[k] = <<lint.subject, RuleId(policy[i])>>
  <2>1. {<<lint.subject, RuleId(policy[i])>> : i \in waived} \subseteq LogLines
    BY <1>1, <1>3 DEF LogLines, Judged
  <2>2. \A S, T : S \subseteq T => \A q \in Seq(S) : q \in Seq(T)
    OBVIOUS
  <2>. HIDE DEF waived
  <2>3. /\ new \in Seq({<<lint.subject, RuleId(policy[i])>> : i \in waived})
        /\ \A i \in waived : \E k \in DOMAIN new : new[k] = <<lint.subject, RuleId(policy[i])>>
    BY <1>3, LinesHold, Zenon
  <2>. HIDE DEF new
  <2>. QED  BY <2>1, <2>2, <2>3, Zenon
<1>5. log \in Seq(LogLines)
  BY Zenon DEF GateInv
<1>6. log' \in Seq(LogLines)
  BY <1>1, <1>4, <1>5
<1>7. ASSUME verdict'.kind = "pass", NEW i \in DOMAIN policy, NEW k \in DOMAIN lint.sought
      PROVE  \/ Respected(policy[i], lint.sought[k])
             \/ policy[i].allowed \cap lint.roles # {}
             \/ \E n \in DOMAIN log' : log'[n] = <<lint.subject, RuleId(policy[i])>>
  <2>1. Covered(i, lint.sought[k], lint.roles, lint.violations)
    BY <1>1, <1>2, <1>7, Zenon DEF Judged
  <2>2. ASSUME NEW j \in lint.violations, RuleId(policy[j]) = RuleId(policy[i])
        PROVE  \E n \in DOMAIN log' : log'[n] = <<lint.subject, RuleId(policy[i])>>
    <3>1. j \in waived
      BY <1>2, <1>7, Zenon
    <3>2. PICK m \in DOMAIN new : new[m] = <<lint.subject, RuleId(policy[j])>>
      BY <1>4, <3>1, Zenon
    <3>. HIDE DEF new, refused
    <3>3. log' = log \o new
      BY <1>1, <1>2, <1>7, Zenon
    <3>4. \A S : \A q, u \in Seq(S) : \A x \in DOMAIN u :
             Len(q) + x \in DOMAIN (q \o u) /\ (q \o u)[Len(q) + x] = u[x]
      OBVIOUS
    <3>5. Len(log) + m \in DOMAIN (log \o new) /\ (log \o new)[Len(log) + m] = new[m]
      BY <1>4, <1>5, <3>4, Zenon
    <3>. QED  BY <2>2, <3>2, <3>3, <3>5, Zenon
  <2>. QED  BY <2>1, <2>2, Zenon DEF Covered
<1>. HIDE DEF new, refused, waived, blocking
<1>8. PassCertifies'
  BY <1>1, <1>7, ZenonT(60) DEF PassCertifies, Respected
<1>. QED  BY <1>6, <1>8, Zenon

\* No step of a lint, of the SCIM server or of the world breaks what a verdict
\* rests on.
LEMMA NextGate == GateInv /\ [GateNext]_policyVars => GateInv'
<1>. SUFFICES ASSUME GateInv, [GateNext]_policyVars PROVE GateInv'
  BY Zenon
<1>1. UNCHANGED <<graph, peers, policy>>
  <2>1. UNCHANGED gateVars => UNCHANGED <<graph, peers, policy>>
    BY Zenon DEF gateVars
  <2>2. \A s, failOnMasked, reason, federated, waive, reached :
          StartLint(s, failOnMasked, waive, reason, federated, reached) => UNCHANGED <<graph, peers, policy>>
    BY StartKeeps, Zenon
  <2>3. \A s, reached : GateLint(reached) \/ McpLint(s, reached) \/ MeshLint => UNCHANGED <<graph, peers, policy>>
    BY Zenon DEF GateLint, McpLint, MeshLint
  <2>. QED  BY <2>1, <2>2, <2>3, Zenon DEF GateNext, policyVars
<1>2. ASSUME UNCHANGED log, UNCHANGED lint \/ lint' = Idle \/ Judged', UNCHANGED verdict \/ verdict'.kind # "pass"
      PROVE  GateInv'
  <2>1. LogLines' = LogLines
    BY <1>1, Zenon DEF LogLines
  <2>2. lint' # Idle => Judged'
    <3>1. UNCHANGED lint /\ Judged => Judged'
      BY <1>1, Zenon DEF Judged, Covered, Respected
    <3>. QED  BY <1>2, <3>1, Zenon DEF GateInv
  <2>3. PassCertifies'
    BY <1>1, <1>2, Zenon DEF GateInv, PassCertifies, Respected
  <2>. QED  BY <1>1, <1>2, <2>1, <2>2, <2>3, Zenon DEF GateInv, KnownEnds
<1>3. CASE UNCHANGED gateVars
  BY <1>2, <1>3, Zenon DEF gateVars
<1>4. ASSUME NEW s \in Callers, NEW failOnMasked \in BOOLEAN, NEW reason \in BOOLEAN,
             NEW federated \in BOOLEAN, NEW waive, NEW reached,
             StartLint(s, failOnMasked, waive, reason, federated, reached)
      PROVE  GateInv'
  <2>1. UNCHANGED log
    BY <1>4, StartKeeps, Zenon
  <2>2. verdict' = [kind |-> "error"] => verdict'.kind # "pass"
    OBVIOUS
  <2>3. \/ UNCHANGED lint /\ verdict' = [kind |-> "error"]
        \/ Judged' /\ UNCHANGED verdict
    BY <1>4, StartJudges, Zenon
  <2>. QED  BY <1>2, <2>1, <2>2, <2>3, Zenon
<1>5. ASSUME NEW reached, GateLint(reached) PROVE GateInv'
  <2>1. log' \in Seq(LogLines) /\ PassCertifies' /\ lint' = Idle
    BY <1>5, GateCertifies, Zenon DEF GateLint
  <2>2. LogLines' = LogLines
    BY <1>1, Zenon DEF LogLines
  <2>. QED  BY <1>1, <2>1, <2>2, Zenon DEF GateInv, KnownEnds
<1>6. ASSUME NEW s, NEW reached, McpLint(s, reached) PROVE GateInv'
  <2>1. UNCHANGED <<log, lint>> /\ verdict'.kind # "pass"
    BY <1>6, Zenon DEF McpLint
  <2>. QED  BY <1>2, <2>1, Zenon
<1>7. ASSUME MeshLint PROVE GateInv'
  <2>1. UNCHANGED <<log, lint>> /\ verdict'.kind # "pass"
    BY <1>7, Zenon DEF MeshLint
  <2>. QED  BY <1>2, <2>1, Zenon
<1>8. CASE UNCHANGED policyVars
  BY <1>3, <1>8, Zenon DEF policyVars
<1>9. CASE GateNext
  BY <1>3, <1>4, <1>5, <1>6, <1>7, <1>9, Zenon DEF GateNext, Callers
<1>. QED  BY <1>8, <1>9, Zenon

\* At first nothing has been judged.
LEMMA InitGate == GateInit => GateInv
<1>. SUFFICES ASSUME GateInit PROVE GateInv
  BY Zenon
<1>1. PICK r \in Repositories : graph = r.graph /\ peers = r.peers
  BY Zenon DEF GateInit
<1>2. /\ KnownEnds(graph)
      /\ \A i \in DOMAIN peers : peers[i] = NoDatabase \/ KnownEnds(peers[i])
  BY <1>1, GateAssumption, Zenon
<1>3. policy \in Seq({policy[i] : i \in DOMAIN policy})
  BY GateAssumption, Zenon DEF GateInit
<1>4. lint = Idle /\ log = <<>> /\ verdict.kind # "pass"
  BY Zenon DEF GateInit, NoVerdict
<1>5. log \in Seq(LogLines)
  BY <1>4
<1>. QED  BY <1>2, <1>3, <1>4, <1>5, Zenon DEF GateInv, PassCertifies

\* `weave policy lint` never passes over a rule: with any graph, policy, subject,
\* directory and waivers, and the directory rewritten while the lint runs, a pass
\* means that each rule is respected by the whole graph, exempts a role of the
\* caller or was waived in the log (policy.rs, waiver.rs).
THEOREM PassAlwaysCertifies == GateSpec => []PassCertifies
<1>1. GateInv => PassCertifies
  BY Zenon DEF GateInv
<1>. QED  BY <1>1, InitGate, NextGate, PTL DEF GateSpec

\* The directory file names nobody the identity provider was not told of, and what
\* is being written names at most the subject of the call besides.
LedgerInv ==
    /\ DOMAIN directory \subseteq DOMAIN believed
    /\ scim \in {"idle", "writing"}
    /\ scim = "writing" =>
         /\ pending.status \in {201, 204}
         /\ pending.status = 201 => DOMAIN pending.content \subseteq DOMAIN believed \cup {pending.subject}
         /\ pending.status = 204 => DOMAIN pending.content \subseteq DOMAIN believed \ {pending.subject}

\* The SCIM server writes only accounts it has been told of.
LEMMA NextLedger == LedgerInv /\ [GateNext]_policyVars => LedgerInv'
<1>. SUFFICES ASSUME LedgerInv, [GateNext]_policyVars PROVE LedgerInv'
  BY Zenon
<1>1. ASSUME UNCHANGED <<directory, believed, scim, pending>> PROVE LedgerInv'
  BY <1>1, Zenon DEF LedgerInv
<1>2. ASSUME NEW content, NEW status \in {201, 204}, NEW s, NEW roles, BeginWrite(content, status, s, roles),
             status = 201 => DOMAIN content \subseteq DOMAIN believed \cup {s},
             status = 204 => DOMAIN content \subseteq DOMAIN believed \ {s}
      PROVE  LedgerInv'
  <2>1. /\ DOMAIN directory' = {} /\ scim' = "writing" /\ UNCHANGED believed
        /\ pending'.content = content /\ pending'.status = status /\ pending'.subject = s
    BY <1>2, Zenon DEF BeginWrite, EmptyDirectory
  <2>. QED  BY <1>2, <2>1, Zenon DEF LedgerInv
<1>3. ASSUME NEW body \in Bodies, Provision(body) PROVE LedgerInv'
  <2>1. CASE body.userName = NoSubject
    BY <1>1, <1>3, <2>1, Zenon DEF Provision, Answer
  <2>2. CASE body.userName # NoSubject
    <3>1. BeginWrite(Put(directory, body.userName, BodyRoles(body)), 201, body.userName, BodyRoles(body))
      BY <1>3, <2>2, Zenon DEF Provision
    <3>2. DOMAIN Put(directory, body.userName, BodyRoles(body)) \subseteq DOMAIN believed \cup {body.userName}
      BY Zenon DEF Put, LedgerInv
    <3>. QED  BY <1>2, <3>1, <3>2
  <2>. QED  BY <2>1, <2>2, Zenon
<1>4. ASSUME NEW s \in Subjects, Deprovision(s) PROVE LedgerInv'
  <2>1. CASE s \notin DOMAIN directory
    <3>1. UNCHANGED <<directory, scim, pending>> /\ scim = "idle" /\ believed' = Drop(believed, s)
      BY <1>4, <2>1, Zenon DEF Deprovision, Answer, Request
    <3>2. DOMAIN believed' = DOMAIN believed \ {s}
      BY <3>1, Zenon DEF Drop
    <3>. QED  BY <2>1, <3>1, <3>2 DEF LedgerInv
  <2>2. CASE s \in DOMAIN directory
    <3>1. BeginWrite(Drop(directory, s), 204, s, {})
      BY <1>4, <2>2, Zenon DEF Deprovision
    <3>2. DOMAIN Drop(directory, s) \subseteq DOMAIN believed \ {s}
      BY Zenon DEF Drop, LedgerInv
    <3>. QED  BY <1>2, <3>1, <3>2
  <2>. QED  BY <2>1, <2>2, Zenon
<1>5. ASSUME FinishWrite PROVE LedgerInv'
  <2>1. scim = "writing" /\ directory' = pending.content /\ scim' = "idle"
    BY <1>5, Zenon DEF FinishWrite
  <2>2. CASE pending.status = 201
    <3>1. DOMAIN believed' = DOMAIN believed \cup {pending.subject}
      BY <1>5, <2>2, Zenon DEF FinishWrite, Put
    <3>. QED  BY <2>1, <2>2, <3>1, Zenon DEF LedgerInv
  <2>3. CASE pending.status = 204
    <3>1. DOMAIN believed' = DOMAIN believed \ {pending.subject}
      BY <1>5, <2>3 DEF FinishWrite, Drop
    <3>. QED  BY <2>1, <2>3, <3>1, Zenon DEF LedgerInv
  <2>. QED  BY <2>1, <2>2, <2>3, Zenon DEF LedgerInv
<1>6. ASSUME NEW s, NEW status, Sync \/ Get(s) \/ Turn(status) PROVE LedgerInv'
  BY <1>1, <1>6, Zenon DEF Sync, Get, Turn, Answer
<1>7. ASSUME Restart PROVE LedgerInv'
  BY <1>7, Zenon DEF Restart, LedgerInv
<1>8. ScimStep => LedgerInv'
  BY <1>3, <1>4, <1>5, <1>6, <1>7, ZenonT(60) DEF ScimStep
<1>9. UNCHANGED accessVars => LedgerInv'
  BY <1>1, Zenon DEF accessVars
<1>10. ScimStep \/ UNCHANGED accessVars
  <2>1. \A s, failOnMasked, reason, federated, waive, reached :
          StartLint(s, failOnMasked, waive, reason, federated, reached) => UNCHANGED accessVars
    BY StartKeeps, Zenon
  <2>2. \A s, reached : GateLint(reached) \/ McpLint(s, reached) \/ MeshLint => UNCHANGED accessVars
    BY Zenon DEF GateLint, McpLint, MeshLint
  <2>. QED  BY <2>1, <2>2, Zenon DEF GateNext, policyVars
<1>. QED  BY <1>8, <1>9, <1>10, Zenon

\* Only report_and_gate writes the waiver log, and only for who may waive now.
LEMMA WaivesWhoIsKnown ==
  ASSUME GateInv, LedgerInv, NEW reached, GateLint(reached), log' # log, ~token
  PROVE  lint.subject \in DOMAIN believed \cup DOMAIN users \cup {NoSubject}
<1>. DEFINE waived  == {i \in lint.violations : RuleId(policy[i]) \in lint.waive}
            refused == lint.waive # {} /\ ~(Authorized(lint.subject, reached) /\ lint.reason)
<1>1. ~refused /\ log' = log \o Lines(lint.subject, waived)
  BY Zenon DEF GateLint
<1>2. waived # {}
  <2>. SUFFICES ASSUME waived = {} PROVE FALSE
    BY Zenon
  <2>. HIDE DEF waived
  <2>1. Lines(lint.subject, waived) \in Seq({<<lint.subject, RuleId(policy[i])>> : i \in waived})
    BY LinesHold, FS_EmptySet, Zenon
  <2>2. \A q \in Seq({}) : q = <<>>
    OBVIOUS
  <2>3. Lines(lint.subject, waived) = <<>>
    BY <2>1, <2>2, Zenon
  <2>4. log \in Seq(LogLines)
    BY Zenon DEF GateInv
  <2>5. log \o <<>> = log
    BY <2>4
  <2>. QED  BY <1>1, <2>3, <2>5, Zenon
<1>3. Authorized(lint.subject, reached)
  BY <1>1, <1>2, Zenon
<1>4. CASE lint.subject # NoSubject
  <2>1. CanWaive(Resolve(KnownUsers, lint.subject))
    BY <1>3, <1>4, Zenon DEF Authorized, GuardFor
  <2>2. lint.subject \in DOMAIN KnownUsers
    BY <2>1, Zenon DEF CanWaive, Resolve, Anonymous
  <2>. QED  BY <2>2, Zenon DEF KnownUsers, LedgerInv
<1>. QED  BY <1>4, Zenon

\* Whatever the identity provider does while a lint runs, and with the directory
\* file cut short by a crash of the server: without a GitHub token, only a subject
\* the provider or config.toml still knows adds a line to the waiver log.
THEOREM OnlyTheKnownWaive == GateSpec => GoneNeverWaives
<1>1. GateInit => GateInv /\ LedgerInv
  BY InitGate, Zenon DEF GateInit, AccessInit, LedgerInv, EmptyDirectory
<1>2. GateInv /\ LedgerInv /\ [GateNext]_policyVars
        => [log' # log /\ ~token => lint.subject \in DOMAIN believed \cup DOMAIN users \cup {NoSubject}]_policyVars
  <2>. SUFFICES ASSUME GateInv, LedgerInv, GateNext, log' # log, ~token
                PROVE  lint.subject \in DOMAIN believed \cup DOMAIN users \cup {NoSubject}
    BY Zenon DEF policyVars, gateVars
  <2>1. \A s, failOnMasked, reason, federated, waive, reached :
          StartLint(s, failOnMasked, waive, reason, federated, reached) => UNCHANGED log
    BY StartKeeps, Zenon
  <2>2. \A s, reached : McpLint(s, reached) \/ MeshLint => UNCHANGED log
    BY Zenon DEF McpLint, MeshLint
  <2>3. UNCHANGED gateVars => UNCHANGED log
    BY Zenon DEF gateVars
  <2>4. \E reached : GateLint(reached)
    BY <2>1, <2>2, <2>3, Zenon DEF GateNext
  <2>. QED  BY <2>4, WaivesWhoIsKnown, Zenon
<1>. QED  BY <1>1, <1>2, NextGate, NextLedger, PTL DEF GateSpec, GoneNeverWaives

-----------------------------------------------------------------------------
(* weave link and weave check-contracts.                                   *)

IsMap(m) == m = [s \in DOMAIN m |-> m[s]]
AfterExpect == {"expectB", "readA", "writeA", "fillA", "readB", "writeB", "fillB", "persistA", "persistB"}
AfterLoad == {"expectA"} \cup AfterExpect

\* A running link: what it recorded of the partner is what it loaded, and the edges
\* it will store are at least the references to exported symbols that were indexed.
LinkInv ==
    /\ link.pc \in {"idle", "loadB"} \cup AfterLoad
    /\ link.pc = "idle" => link = AtRest
    /\ link.pc \in AfterLoad =>
         /\ DOMAIN link = {"pc", "map", "calls", "index", "table", "cross"}
         /\ IsMap(link.map[RepoB])
         /\ link.calls[RepoA] \cap link.index[RepoB] \cap DOMAIN link.map[RepoB] \subseteq link.cross[RepoA]
    /\ link.pc \in AfterExpect => expect[RepoA] = [there |-> TRUE, map |-> link.map[RepoB]]
    /\ link.pc = "persistB" => fed[RepoA] = [there |-> TRUE, edges |-> link.cross]

\* Without a link that runs or was cut short, what is recorded is what the last one
\* agreed on.
AgreedInv ==
    link = AtRest /\ ~halfLinked /\ agreed[RepoA].there =>
        /\ expect[RepoA].there /\ expect[RepoA].map = agreed[RepoA].map
        /\ IsMap(agreed[RepoA].map)
        /\ fed[RepoA].there
        /\ agreed[RepoA].relied \cap DOMAIN agreed[RepoA].map \subseteq fed[RepoA].edges[RepoA]

\* The check under way compares with what its base agreed on.
JobInv == check.pc = "judge" /\ check.job.base.there =>
            check.job.expected.there /\ check.job.expected.map = check.job.base.map

FederationInv ==
    /\ DOMAIN expect = Repo /\ DOMAIN fed = Repo
    /\ LinkInv /\ AgreedInv /\ JobInv /\ StrictPassVouches

\* A contract is made of symbols of the source.
LEMMA MapsAreMaps == \A src : IsMap(ContractMap(src)) /\ DOMAIN ContractMap(src) \subseteq DOMAIN src
BY Zenon DEF IsMap, ContractMap

\* Contracts without a difference are equal.
LEMMA NoDiffSame ==
  ASSUME NEW then, NEW now, DiffContracts(then, now) = {}, IsMap(then), IsMap(now)
  PROVE  then = now
<1>1. DOMAIN then = DOMAIN now /\ \A s \in DOMAIN then : then[s] = now[s]
  BY Zenon DEF DiffContracts
<1>. QED  BY <1>1, Zenon DEF IsMap

\* The two repositories are each other's partners.
LEMMA Partners == RepoA \in Repo /\ RepoB \in Repo /\ Other(RepoA) = RepoB /\ RepoB # RepoA
BY FederationAssumption, Zenon DEF Repo, Other

\* A step of a link keeps what was loaded.
SameLoad ==
    /\ DOMAIN link' = DOMAIN link /\ link'.map = link.map /\ link'.calls = link.calls
    /\ link'.index = link.index /\ link'.cross = link.cross

\* A step of a link after the expectation is written keeps what the link agreed
\* on.
LEMMA LinkGoesOn ==
  ASSUME FederationInv, link.pc \in AfterLoad, SameLoad, link'.pc \in AfterExpect,
         expect'[RepoA] = [there |-> TRUE, map |-> link.map[RepoB]],
         link'.pc = "persistB" => fed'[RepoA] = [there |-> TRUE, edges |-> link.cross]
  PROVE  LinkInv' /\ AgreedInv'
<1>1. link'.pc # "idle" /\ link' # AtRest
  BY DEF AfterExpect, AtRest
<1>. QED  BY <1>1, Zenon DEF FederationInv, SameLoad, LinkInv, AgreedInv, AfterLoad

\* Moving the pc of a running link.
LEMMA LinkMoves ==
  ASSUME FederationInv, link.pc \in AfterLoad, NEW next, NEW table,
         \/ link' = [link EXCEPT !.pc = next]
         \/ link' = [link EXCEPT !.pc = next, !.table = table]
  PROVE  SameLoad /\ link'.pc = next
BY Zenon DEF FederationInv, LinkInv, SameLoad

\* Every step of a link does.
LEMMA LinkStepKeeps ==
  ASSUME FederationInv, LinkStep
  PROVE  DOMAIN expect' = Repo /\ DOMAIN fed' = Repo /\ LinkInv' /\ AgreedInv'
<1>0. DOMAIN expect = Repo /\ DOMAIN fed = Repo /\ LinkInv
  BY Zenon DEF FederationInv
<1>1. CASE LinkLoadB
  <2>1. /\ link'.pc = "expectA" /\ DOMAIN link' = {"pc", "map", "calls", "index", "table", "cross"}
        /\ link'.map[RepoB] = ContractMap(source[RepoB])
        /\ link'.calls[RepoA] = link.a.calls /\ link'.index[RepoB] = index[RepoB]
        /\ link'.cross[RepoA] = CrossRepoEdges(link.a.calls, source[RepoB], index[RepoB])
        /\ UNCHANGED <<expect, fed>>
    BY <1>1, Partners, Zenon DEF LinkLoadB, LoadedContractMap
  <2>2. link.a.calls \cap index[RepoB] \cap DOMAIN ContractMap(source[RepoB])
          \subseteq CrossRepoEdges(link.a.calls, source[RepoB], index[RepoB])
    BY MapsAreMaps, Zenon DEF CrossRepoEdges
  <2>3. LinkInv'
    <3>1. IsMap(link'.map[RepoB])
      BY <2>1, MapsAreMaps, Zenon
    <3>2. link'.calls[RepoA] \cap link'.index[RepoB] \cap DOMAIN link'.map[RepoB] \subseteq link'.cross[RepoA]
      BY <2>1, <2>2, Zenon
    <3>3. link'.pc # "idle" /\ link'.pc \notin AfterExpect /\ link'.pc # "persistB"
          /\ link'.pc \in {"idle", "loadB"} \cup AfterLoad
      BY <2>1, Zenon DEF AfterLoad, AfterExpect
    <3>. QED  BY <2>1, <3>1, <3>2, <3>3, Zenon DEF LinkInv
  <2>4. AgreedInv'
    <3>1. link'.pc # AtRest.pc
      BY <2>1, Zenon DEF AtRest
    <3>2. link' # AtRest
      BY <3>1, Zenon
    <3>. QED  BY <3>2, Zenon DEF AgreedInv, AtRest
  <2>. QED  BY <1>0, <2>1, <2>3, <2>4, Zenon
<1>2. CASE Record(RepoA, "expectA", "expectB")
  <2>1. /\ link.pc = "expectA" /\ link' = [link EXCEPT !.pc = "expectB"] /\ UNCHANGED fed
        /\ DOMAIN expect' = Repo /\ expect'[RepoA] = [there |-> TRUE, map |-> link.map[RepoB]]
    BY <1>0, <1>2, Partners, Zenon DEF Record
  <2>2. link.pc \in AfterLoad
    BY <2>1, Zenon DEF AfterLoad
  <2>3. SameLoad /\ link'.pc = "expectB"
    BY <2>1, <2>2, LinkMoves, Zenon
  <2>. QED  BY <1>0, <2>1, <2>2, <2>3, LinkGoesOn, Zenon DEF AfterExpect
<1>3. CASE Record(RepoB, "expectB", "readA")
  <2>1. /\ link.pc = "expectB" /\ link' = [link EXCEPT !.pc = "readA"] /\ UNCHANGED fed
        /\ DOMAIN expect' = Repo /\ expect'[RepoA] = expect[RepoA]
    BY <1>0, <1>3, Partners, Zenon DEF Record
  <2>2. link.pc \in AfterLoad /\ link.pc \in AfterExpect
    BY <2>1, Zenon DEF AfterLoad, AfterExpect
  <2>3. SameLoad /\ link'.pc = "readA"
    BY <2>1, <2>2, LinkMoves, Zenon
  <2>4. expect'[RepoA] = [there |-> TRUE, map |-> link.map[RepoB]]
    BY <1>0, <2>1, <2>2, Zenon DEF LinkInv
  <2>. QED  BY <1>0, <2>1, <2>2, <2>3, <2>4, LinkGoesOn, Zenon DEF AfterExpect
<1>4. ASSUME UNCHANGED <<expect, fed>>, link.pc \in AfterExpect, NEW next \in AfterExpect \ {"persistB"}, NEW table,
             \/ link' = [link EXCEPT !.pc = next]
             \/ link' = [link EXCEPT !.pc = next, !.table = table]
      PROVE  DOMAIN expect' = Repo /\ DOMAIN fed' = Repo /\ LinkInv' /\ AgreedInv'
  <2>1. link.pc \in AfterLoad
    BY <1>4, Zenon DEF AfterLoad
  <2>2. SameLoad /\ link'.pc = next
    BY <1>4, <2>1, LinkMoves, Zenon
  <2>3. expect'[RepoA] = [there |-> TRUE, map |-> link.map[RepoB]]
    BY <1>0, <1>4, Zenon DEF LinkInv
  <2>. QED  BY <1>0, <1>4, <2>1, <2>2, <2>3, LinkGoesOn, Zenon
<1>5. ASSUME NEW r, NEW pc \in AfterExpect, NEW write \in AfterExpect \ {"persistB"},
             NEW next \in AfterExpect \ {"persistB"}, ConfigRead(r, pc, write, next)
      PROVE  DOMAIN expect' = Repo /\ DOMAIN fed' = Repo /\ LinkInv' /\ AgreedInv'
  <2>1. /\ UNCHANGED <<expect, fed>> /\ link.pc \in AfterExpect
        /\ \/ link' = [link EXCEPT !.pc = next]
           \/ \E table : link' = [link EXCEPT !.pc = write, !.table = table]
    BY <1>5, Zenon DEF ConfigRead
  <2>. QED  BY <1>4, <2>1, Zenon
<1>6. ASSUME NEW r, NEW write \in AfterExpect \ {"persistB"}, NEW fill \in AfterExpect \ {"persistB"},
             NEW next \in AfterExpect \ {"persistB"}, ConfigWrite(r, write, fill, next)
      PROVE  DOMAIN expect' = Repo /\ DOMAIN fed' = Repo /\ LinkInv' /\ AgreedInv'
  <2>1. /\ UNCHANGED <<expect, fed>> /\ link.pc \in AfterExpect
        /\ link' = [link EXCEPT !.pc = fill] \/ link' = [link EXCEPT !.pc = next]
    BY <1>6, Zenon DEF ConfigWrite
  <2>. QED  BY <1>4, <2>1, Zenon
<1>7. CASE Persist(RepoA, "persistA", "persistB")
  <2>1. /\ link.pc = "persistA" /\ link' = [link EXCEPT !.pc = "persistB"] /\ UNCHANGED expect
        /\ DOMAIN fed' = Repo /\ fed'[RepoA] = [there |-> TRUE, edges |-> link.cross]
    BY <1>0, <1>7, Partners, Zenon DEF Persist
  <2>2. link.pc \in AfterLoad /\ link.pc \in AfterExpect
    BY <2>1, Zenon DEF AfterLoad, AfterExpect
  <2>3. SameLoad /\ link'.pc = "persistB"
    BY <2>1, <2>2, LinkMoves, Zenon
  <2>4. expect'[RepoA] = [there |-> TRUE, map |-> link.map[RepoB]]
    BY <1>0, <2>1, <2>2, Zenon DEF LinkInv
  <2>. QED  BY <1>0, <2>1, <2>2, <2>3, <2>4, LinkGoesOn, Zenon DEF AfterExpect
<1>8. CASE Persist(RepoB, "persistB", "idle")
  <2>1. /\ link.pc = "persistB" /\ link' = AtRest /\ UNCHANGED expect
        /\ DOMAIN fed' = Repo /\ fed'[RepoA] = fed[RepoA]
        /\ agreed'[RepoA].map = link.map[RepoB] /\ agreed'[RepoA].there
        /\ agreed'[RepoA].relied = link.calls[RepoA] \cap link.index[RepoB]
    BY <1>0, <1>8, Partners, Zenon DEF Persist
  <2>2. link.pc \in AfterLoad /\ link.pc \in AfterExpect
    BY <2>1, Zenon DEF AfterLoad, AfterExpect
  <2>3. /\ expect[RepoA].there /\ expect[RepoA].map = link.map[RepoB]
        /\ fed[RepoA].there /\ fed[RepoA].edges = link.cross
    BY <1>0, <2>1, <2>2 DEF LinkInv
  <2>4. LinkInv'
    BY <2>1, Zenon DEF LinkInv, AtRest, AfterLoad, AfterExpect
  <2>5. AgreedInv'
    BY <1>0, <2>1, <2>2, <2>3, Zenon DEF AgreedInv, LinkInv
  <2>. QED  BY <1>0, <2>1, <2>4, <2>5, Zenon
<1>9. ConfigRead(RepoA, "readA", "writeA", "readB") \/ ConfigRead(RepoB, "readB", "writeB", "persistA")
        => DOMAIN expect' = Repo /\ DOMAIN fed' = Repo /\ LinkInv' /\ AgreedInv'
  BY <1>5, Zenon DEF AfterExpect
<1>10. ConfigWrite(RepoA, "writeA", "fillA", "readB") \/ ConfigWrite(RepoB, "writeB", "fillB", "persistA")
        => DOMAIN expect' = Repo /\ DOMAIN fed' = Repo /\ LinkInv' /\ AgreedInv'
  BY <1>6, Zenon DEF AfterExpect
<1>. QED  BY <1>1, <1>2, <1>3, <1>7, <1>8, <1>9, <1>10, Zenon DEF LinkStep

\* The verdict on a check whose base still stands.
LEMMA JudgeVouches ==
  ASSUME FederationInv, CheckJudge
  PROVE  StrictPassVouches'
<1>. DEFINE job == check.job
            actual == RepoContractMap(RepoB)
            diff == DiffContracts(job.expected.map, actual)
            blocking == IF job.scoped THEN InImportScope(diff) ELSE diff
<1>. SUFFICES ASSUME finding'.kind = "ok", finding'.job.strict, ~finding'.job.waived, finding'.base.there
              PROVE  LET then == finding'.base.map
                         now  == finding'.actual
                         kept == {s \in DOMAIN then : s \in DOMAIN now /\ now[s] = then[s]}
                     IN IF finding'.job.scoped THEN finding'.base.relied \cap DOMAIN then \subseteq kept
                        ELSE now = then
  BY Zenon DEF StrictPassVouches
<1>1. /\ check.pc = "judge" /\ finding'.job = job /\ finding'.actual = actual
      /\ finding'.base = IF Base = job.base THEN Base ELSE Absent
  BY Zenon DEF CheckJudge
<1>2. job.expected.there => blocking = {}
  BY <1>1, Zenon DEF CheckJudge
<1>3. Base = job.base /\ finding'.base = Base
  BY <1>1 DEF Absent
<1>4. link = AtRest /\ ~halfLinked /\ Base = agreed[RepoA]
  BY <1>3 DEF Base, Absent
<1>5. agreed[RepoA].there /\ finding'.base = agreed[RepoA]
  BY <1>3, <1>4, Zenon
<1>6. job.expected.there /\ job.expected.map = agreed[RepoA].map
  BY <1>1, <1>3, <1>4, <1>5, Zenon DEF FederationInv, JobInv
<1>7. /\ IsMap(agreed[RepoA].map) /\ fed[RepoA].there
      /\ agreed[RepoA].relied \cap DOMAIN agreed[RepoA].map \subseteq fed[RepoA].edges[RepoA]
  BY <1>4, <1>5, Zenon DEF FederationInv, AgreedInv
<1>8. IsMap(actual)
  BY MapsAreMaps, Zenon DEF RepoContractMap
<1>9. CASE ~job.scoped
  <2>1. diff = {}
    BY <1>2, <1>6, <1>9, Zenon
  <2>2. actual = agreed[RepoA].map
    BY <1>6, <1>7, <1>8, <2>1, NoDiffSame, Zenon
  <2>. QED  BY <1>1, <1>5, <1>9, <2>2, Zenon
<1>10. CASE job.scoped
  <2>1. diff \cap fed[RepoA].edges[RepoA] = {}
    BY <1>2, <1>6, <1>7, <1>10, Zenon DEF InImportScope
  <2>2. ASSUME NEW s \in agreed[RepoA].relied \cap DOMAIN agreed[RepoA].map
        PROVE  s \in DOMAIN actual /\ actual[s] = agreed[RepoA].map[s]
    <3>1. s \notin DiffContracts(agreed[RepoA].map, actual)
      BY <1>6, <1>7, <2>1, Zenon
    <3>. QED  BY <3>1, Zenon DEF DiffContracts
  <2>. QED  BY <1>1, <1>5, <1>10, <2>2, Zenon
<1>. QED  BY <1>9, <1>10, Zenon

\* What a strict pass rests on survives links, checks, edits and kills.
LEMMA NextFederation == FederationInv /\ [FederationNext]_federationVars => FederationInv'
<1>. SUFFICES ASSUME FederationInv, [FederationNext]_federationVars PROVE FederationInv'
  BY Zenon
<1>1. ASSUME UNCHANGED linked PROVE DOMAIN expect' = Repo /\ DOMAIN fed' = Repo /\ LinkInv' /\ AgreedInv'
  BY <1>1, Zenon DEF linked, FederationInv, LinkInv, AgreedInv, IsMap
<1>2. ASSUME UNCHANGED checking PROVE JobInv' /\ StrictPassVouches'
  BY <1>2, Zenon DEF checking, FederationInv, JobInv, StrictPassVouches
<1>3. CASE LinkStep
  <2>1. UNCHANGED checking
    BY <1>3, Zenon DEF LinkStep, LinkLoadB, Record, ConfigRead, ConfigWrite, Persist
  <2>. QED  BY <1>2, <1>3, <2>1, LinkStepKeeps, Zenon DEF FederationInv
<1>4. CASE \E named \in BOOLEAN : LinkStart(named)
  <2>1. /\ link'.pc = "loadB" /\ link' # AtRest
        /\ UNCHANGED <<expect, fed>> /\ UNCHANGED checking
    <3>1. /\ \E a : link' = [pc |-> "loadB", a |-> a]
          /\ UNCHANGED <<expect, fed>> /\ UNCHANGED checking
      BY <1>4, Zenon DEF LinkStart
    <3>. QED  BY <3>1 DEF AtRest
  <2>2. LinkInv' /\ AgreedInv'
    BY <2>1, Zenon DEF LinkInv, AgreedInv, AfterLoad, AfterExpect
  <2>. QED  BY <1>2, <2>1, <2>2, Zenon DEF FederationInv
<1>5. CASE LinkKilled
  <2>1. link' = AtRest /\ halfLinked' /\ UNCHANGED <<expect, fed>> /\ UNCHANGED checking
    BY <1>5, Zenon DEF LinkKilled
  <2>2. LinkInv' /\ AgreedInv'
    BY <2>1, Zenon DEF LinkInv, AgreedInv, AtRest, AfterLoad, AfterExpect
  <2>. QED  BY <1>2, <2>1, <2>2, Zenon DEF FederationInv
<1>6. CASE SetKeyWrite \/ \E r \in Repo : SetKeyRead(r) \/ Edit(r)
  <2>1. UNCHANGED linked /\ UNCHANGED checking
    BY <1>6, Zenon DEF SetKeyWrite, SetKeyRead, Edit
  <2>. QED  BY <1>1, <1>2, <2>1, Zenon DEF FederationInv
<1>7. ASSUME NEW scoped \in BOOLEAN, NEW warnOnly \in BOOLEAN, NEW override, NEW w,
             CheckStart(scoped, warnOnly, override, w)
      PROVE  FederationInv'
  <2>0. UNCHANGED linked
    BY <1>7, Zenon DEF CheckStart
  <2>1. JobInv'
    <3>1. \/ UNCHANGED check
          \/ check'.job.base = Base /\ check'.job.expected = expect[RepoA]
      BY <1>7 DEF CheckStart
    <3>2. Base.there => expect[RepoA].there /\ expect[RepoA].map = Base.map
      BY Zenon DEF Base, Absent, FederationInv, AgreedInv
    <3>. QED  BY <3>1, <3>2, Zenon DEF JobInv, FederationInv
  <2>2. StrictPassVouches'
    <3>1. finding' = [kind |-> "error"] \/ finding' = [kind |-> "skipped"] \/ UNCHANGED finding
      BY <1>7, Zenon DEF CheckStart
    <3>. QED  BY <3>1 DEF StrictPassVouches, FederationInv
  <2>. QED  BY <1>1, <2>0, <2>1, <2>2, Zenon DEF FederationInv
<1>8. CASE CheckJudge
  <2>1. UNCHANGED linked /\ check' = AtRest
    BY <1>8, Zenon DEF CheckJudge
  <2>2. JobInv'
    BY <2>1, Zenon DEF JobInv, AtRest
  <2>. QED  BY <1>1, <1>8, <2>1, <2>2, JudgeVouches, Zenon DEF FederationInv
<1>9. CASE UNCHANGED federationVars
  <2>1. UNCHANGED linked /\ UNCHANGED checking
    BY <1>9, Zenon DEF federationVars, linked, checking
  <2>. QED  BY <1>1, <1>2, <2>1, Zenon DEF FederationInv
<1>. QED  BY <1>3, <1>4, <1>5, <1>6, <1>7, <1>8, <1>9, Zenon DEF FederationNext

\* A strict `weave check-contracts` that passes without a waiver vouches for the last
\* completed link, whatever was edited, indexed, set or cut short in the meantime:
\* the expectation row, linked_repos and the federated graph are written apart, but
\* what the check compares is what that link agreed on.
THEOREM StrictPassAlwaysVouches == FederationSpec => []StrictPassVouches
<1>1. FederationInit => FederationInv
  <2>. SUFFICES ASSUME FederationInit PROVE FederationInv
    BY Zenon
  <2>1. DOMAIN expect = Repo /\ DOMAIN fed = Repo /\ link = AtRest /\ check = AtRest /\ finding.kind # "ok"
        /\ ~agreed[RepoA].there
    BY Partners, Zenon DEF FederationInit, NoFinding, Absent
  <2>. QED  BY <2>1, Zenon DEF FederationInv, LinkInv, AgreedInv, JobInv, StrictPassVouches, AtRest, AfterLoad, AfterExpect
<1>2. FederationInv => StrictPassVouches
  BY Zenon DEF FederationInv
<1>. QED  BY <1>1, <1>2, NextFederation, PTL DEF FederationSpec

-----------------------------------------------------------------------------
(* weave verify.                                                           *)

SubStates == {"clean", "bumped", "bumped and dirty", "dirty", "uninitialized"}

\* The graph as it was indexed: a call is bound once or unresolved, and what it is
\* bound to has a name of that submodule.
GraphOK(g) ==
    /\ \A c \in g.calls : c[1] \in ParentFiles
    /\ \A c \in g.calls \ g.unresolved : \E e \in g.edges : e.file = c[1] /\ e.name = c[2]
    /\ \A e, d \in g.edges : e.file = d.file /\ e.name = d.name => e = d
    /\ \A e \in g.edges : e.sub \in Subs /\ e.name \in NameSpace(e.sub)

TreeOK ==
    /\ DOMAIN checkedOut = Subs /\ \A s \in Subs : checkedOut[s] \in Holdings(s)
    /\ state \in [Subs -> SubStates]
    /\ refs \in CallTables

SubOK ==
    /\ TreeOK
    /\ DOMAIN baseline = Subs
    /\ \A s \in Subs : baseline[s].there => DOMAIN baseline[s].map \subseteq NameSpace(s)
    /\ GraphOK(subGraph)

SubInv == SubOK /\ PassVouchesForTheBaseline /\ (subOutcome.kind = "pass" => round = NoRound)

\* A submodule defines only names of its own.
LEMMA NamesIn == ASSUME TreeOK, NEW s \in Subs PROVE Names(s) \subseteq NameSpace(s)
BY Zenon DEF TreeOK, Names, NameSpace

\* The contract of a submodule is about exported symbols it holds.
LEMMA ContractIn ==
  ASSUME TreeOK, NEW s \in Subs
  PROVE  /\ DOMAIN SubmoduleContract(s) \subseteq NameSpace(s)
         /\ \A n \in DOMAIN SubmoduleContract(s) :
              /\ n \in DOMAIN checkedOut[s]
              /\ checkedOut[s][n] = [signature |-> SubmoduleContract(s)[n], exported |-> TRUE]
<1>1. DOMAIN SubmoduleContract(s) \subseteq Names(s)
  BY Zenon DEF SubmoduleContract
<1>2. ASSUME NEW n \in DOMAIN SubmoduleContract(s)
      PROVE  /\ n \in DOMAIN checkedOut[s]
             /\ checkedOut[s][n] = [signature |-> SubmoduleContract(s)[n], exported |-> TRUE]
  <2>1. n \in DOMAIN checkedOut[s] /\ checkedOut[s] \in Holdings(s)
    BY <1>1, Zenon DEF Names, TreeOK
  <2>2. /\ checkedOut[s][n] = [signature |-> checkedOut[s][n].signature, exported |-> checkedOut[s][n].exported]
        /\ checkedOut[s][n].exported \in BOOLEAN
    BY <2>1, SubmoduleAssumption, Zenon
  <2>3. checkedOut[s][n].exported /\ SubmoduleContract(s)[n] = checkedOut[s][n].signature
    BY Zenon DEF SubmoduleContract
  <2>4. checkedOut[s][n].exported = TRUE
    BY <2>2, <2>3, Zenon
  <2>. QED  BY <2>1, <2>2, <2>3, <2>4, Zenon
<1>. QED  BY <1>1, <1>2, NamesIn, Zenon

\* Indexing binds each call to the submodule that defines the name.
LEMMA IndexedOK == ASSUME TreeOK PROVE GraphOK(Indexed)
<1>. DEFINE bound == {x \in [call : refs, sub : Subs] : x.call[2] \in Names(x.sub)}
            edge(b) == [file |-> b.call[1], sub |-> b.sub, name |-> b.call[2],
                        exported |-> checkedOut[b.sub][b.call[2]].exported]
<1>1. /\ Indexed.edges = {edge(b) : b \in bound}
      /\ Indexed.unresolved = {c \in refs : Defining(c[2]) = {}}
      /\ Indexed.calls = refs
  BY Zenon DEF Indexed
<1>2. \A c \in refs : c[1] \in ParentFiles
  BY SubmoduleAssumption, Zenon DEF TreeOK
<1>3. ASSUME NEW c \in refs, Defining(c[2]) # {}
      PROVE  \E e \in Indexed.edges : e.file = c[1] /\ e.name = c[2]
  <2>1. PICK s \in Subs : c[2] \in Names(s)
    BY <1>3, Zenon DEF Defining
  <2>2. [call |-> c, sub |-> s] \in bound
    BY <1>3, <2>1, Zenon
  <2>3. edge([call |-> c, sub |-> s]).file = c[1] /\ edge([call |-> c, sub |-> s]).name = c[2]
    BY Zenon
  <2>. HIDE DEF edge, bound
  <2>. QED  BY <1>1, <2>2, <2>3, Zenon
<1>4. \A b \in bound : b.sub \in Subs /\ b.call \in refs /\ b.call[2] \in NameSpace(b.sub)
  BY NamesIn, Zenon
<1>5. ASSUME NEW b \in bound, NEW x \in bound, b.call[1] = x.call[1], b.call[2] = x.call[2]
      PROVE  edge(b) = edge(x)
  <2>1. b.sub = x.sub
    BY <1>4, <1>5, SubmoduleAssumption, ZenonT(60)
  <2>. QED  BY <1>5, <2>1, Zenon
<1>6. \A b \in bound : edge(b).file = b.call[1] /\ edge(b).name = b.call[2] /\ edge(b).sub = b.sub
  BY Zenon
<1>. HIDE DEF edge, bound
<1>7. \A e, d \in Indexed.edges : e.file = d.file /\ e.name = d.name => e = d
  <2>. SUFFICES ASSUME NEW e \in Indexed.edges, NEW d \in Indexed.edges, e.file = d.file, e.name = d.name
                PROVE  e = d
    BY Zenon
  <2>1. PICK b \in bound : e = edge(b)
    BY <1>1, Zenon
  <2>2. PICK x \in bound : d = edge(x)
    BY <1>1, Zenon
  <2>. QED  BY <1>5, <1>6, <2>1, <2>2, Zenon
<1>8. \A e \in Indexed.edges : e.sub \in Subs /\ e.name \in NameSpace(e.sub)
  BY <1>1, <1>4, <1>6, ZenonT(60)
<1>. QED  BY <1>1, <1>2, <1>3, <1>7, <1>8, Zenon DEF GraphOK

\* What a passing verification of everything has looked at.
LEMMA VerifyVouches ==
  ASSUME SubOK, NEW targets, NEW only \in BOOLEAN, Verify(targets, only)
  PROVE  PassVouchesForTheBaseline'
<1>. SUFFICES ASSUME subOutcome'.kind = "pass", ~subOutcome'.only, subOutcome'.targets = ParentFiles,
                     settings.rejectPhantoms, settings.qualifyChanged, settings.rejectDirty, settings.exempt = {},
                     NEW c \in subGraph.calls, NEW s \in Subs
              PROVE  /\ Cardinality({e \in subGraph.edges : e.file = c[1] /\ e.name = c[2]}) = 1
                     /\ state[s] \in {"clean", "bumped", "bumped and dirty"}
                     /\ baseline[s].there /\ c[2] \in DOMAIN baseline[s].map =>
                          /\ c[2] \in DOMAIN checkedOut[s]
                          /\ checkedOut[s][c[2]] = [signature |-> baseline[s].map[c[2]], exported |-> TRUE]
  <2>1. UNCHANGED <<checkedOut, state, subGraph, baseline, settings>>
    BY Zenon DEF Verify
  <2>. QED  BY <2>1, ZenonT(60) DEF PassVouchesForTheBaseline
<1>1. settings # BrokenConfig /\ only = FALSE /\ targets = ParentFiles
  BY Zenon DEF Verify
<1>2. Phantoms(ParentFiles) = {}
  BY <1>1, Zenon DEF Verify
<1>3. UNION {Stale(x) : x \in {y \in Subs : ~Unprovable(y)}} = {}
  BY <1>1, Zenon DEF Verify
<1>4. \A x \in Subs : SubmoduleState(x) # "uninitialized" /\ SubmoduleState(x) # "dirty"
  BY <1>1, Zenon DEF Verify
<1>5. state[s] \in {"clean", "bumped", "bumped and dirty"} /\ ~Unprovable(s)
  BY <1>4, Zenon DEF SubmoduleState, SubOK, TreeOK, SubStates, Unprovable
<1>6. Stale(s) = {}
  BY <1>3, <1>5, Zenon
<1>7. PICK e \in subGraph.edges : e.file = c[1] /\ e.name = c[2]
  BY <1>2, Zenon DEF Phantoms, SubOK, GraphOK
<1>8. Cardinality({d \in subGraph.edges : d.file = c[1] /\ d.name = c[2]}) = 1
  <2>1. {d \in subGraph.edges : d.file = c[1] /\ d.name = c[2]} = {e}
    BY <1>7, Zenon DEF SubOK, GraphOK
  <2>. QED  BY <2>1, FS_Singleton, ZenonT(60)
<1>9. ASSUME baseline[s].there, c[2] \in DOMAIN baseline[s].map
      PROVE  /\ c[2] \in DOMAIN checkedOut[s]
             /\ checkedOut[s][c[2]] = [signature |-> baseline[s].map[c[2]], exported |-> TRUE]
  <2>1. e.sub = s
    BY <1>7, <1>9, SubmoduleAssumption, ZenonT(60) DEF SubOK, GraphOK
  <2>2. c[2] \in Imported(s)
    BY <1>7, <2>1, Zenon DEF Imported
  <2>3. c[2] \in DOMAIN SubmoduleContract(s) /\ SubmoduleContract(s)[c[2]] = baseline[s].map[c[2]]
    <3>1. CASE baseline[s].map = SubmoduleContract(s)
      BY <1>9, <3>1, Zenon
    <3>2. CASE baseline[s].map # SubmoduleContract(s)
      <4>1. InScope(s).removed = {} /\ InScope(s).changed = {}
        BY <1>6, <1>9, <3>2, Zenon DEF Stale
      <4>. QED  BY <1>9, <2>2, <4>1, Zenon DEF InScope
    <3>. QED  BY <3>1, <3>2, Zenon
  <2>4. TreeOK
    BY Zenon DEF SubOK
  <2>5. /\ c[2] \in DOMAIN checkedOut[s]
        /\ checkedOut[s][c[2]] = [signature |-> SubmoduleContract(s)[c[2]], exported |-> TRUE]
    BY <2>3, <2>4, ContractIn, Zenon
  <2>. QED  BY <2>3, <2>5, Zenon
<1>. QED  BY <1>5, <1>8, <1>9, Zenon

\* No round, verification, edit or re-index breaks what a pass vouches for.
LEMMA NextSub == SubInv /\ [SubNext]_subVars => SubInv'
<1>. SUFFICES ASSUME SubInv, [SubNext]_subVars PROVE SubInv'
  BY Zenon
<1>a. ASSUME SubOK', subOutcome'.kind # "pass" PROVE SubInv'
  BY <1>a, Zenon DEF SubInv, PassVouchesForTheBaseline
<1>b. ASSUME UNCHANGED <<checkedOut, state, refs, subGraph, baseline>> PROVE SubOK'
  BY <1>b, Zenon DEF SubInv, SubOK, TreeOK
<1>c. NoOutcome.kind # "pass"
  BY Zenon DEF NoOutcome
<1>1. CASE RoundStart
  BY <1>1, <1>a, <1>b, <1>c, Zenon DEF RoundStart
<1>2. CASE RoundOne
  <2>. DEFINE s == Submodules[round.next]
  <2>1. round # NoRound
    <3>1. round.next \in DOMAIN Submodules
      BY <1>2, Zenon DEF RoundOne
    <3>2. \A S : \A q \in Seq(S) : 0 \notin DOMAIN q
      OBVIOUS
    <3>3. NoRound.next = 0
      BY Zenon DEF NoRound
    <3>. QED  BY <3>1, <3>2, <3>3, SubmoduleAssumption, Zenon
  <2>2. subOutcome'.kind # "pass"
    BY <1>2, <2>1, Zenon DEF RoundOne, SubInv
  <2>3. s \in Subs
    BY <1>2, Zenon DEF RoundOne, Subs
  <2>4. /\ UNCHANGED <<checkedOut, state, refs, subGraph>>
        /\ \/ UNCHANGED baseline
           \/ baseline' = [baseline EXCEPT ![s] = [there |-> TRUE, map |-> SubmoduleContract(s)]]
    BY <1>2, Zenon DEF RoundOne
  <2>. HIDE DEF s
  <2>5. /\ DOMAIN baseline' = Subs
        /\ \A t \in Subs : \/ baseline'[t] = baseline[t]
                           \/ baseline'[t].map = SubmoduleContract(t)
    BY <2>3, <2>4 DEF SubInv, SubOK
  <2>6. SubOK'
    BY <2>4, <2>5, ContractIn, Zenon DEF SubInv, SubOK, TreeOK
  <2>. QED  BY <1>a, <2>2, <2>6, Zenon
<1>3. CASE RoundFails
  <2>1. subOutcome'.kind # "pass"
    BY <1>3, Zenon DEF RoundFails
  <2>. QED  BY <1>3, <1>a, <1>b, <2>1, Zenon DEF RoundFails
<1>4. CASE RoundEnds
  <2>1. subOutcome'.kind # "pass"
    BY <1>4, Zenon DEF RoundEnds
  <2>. QED  BY <1>4, <1>a, <1>b, <2>1, Zenon DEF RoundEnds
<1>5. ASSUME NEW targets, NEW only \in BOOLEAN, Verify(targets, only) PROVE SubInv'
  <2>1. UNCHANGED <<checkedOut, state, refs, subGraph, baseline, round>> /\ round = NoRound
    BY <1>5, Zenon DEF Verify
  <2>. QED  BY <1>5, <1>b, <2>1, VerifyVouches, Zenon DEF SubInv
<1>6. ASSUME NEW s \in Subs, Touch(s) PROVE SubInv'
  <2>1. PICK c \in Contents[s] : checkedOut' = [checkedOut EXCEPT ![s] = c]
    BY <1>6, Zenon DEF Touch
  <2>2. PICK st \in States : state' = [state EXCEPT ![s] = st]
    BY <1>6, Zenon DEF Touch
  <2>3. UNCHANGED <<refs, subGraph, baseline>> /\ subOutcome' = NoOutcome
    BY <1>6, Zenon DEF Touch
  <2>4. state' \in [Subs -> SubStates]
    BY <2>2, SubmoduleAssumption, Zenon DEF SubInv, SubOK, TreeOK, SubStates
  <2>5. DOMAIN checkedOut' = Subs /\ \A t \in Subs : checkedOut'[t] \in Holdings(t)
    BY <2>1, Zenon DEF SubInv, SubOK, TreeOK, Holdings
  <2>6. SubOK'
    BY <2>3, <2>4, <2>5, Zenon DEF SubInv, SubOK, TreeOK
  <2>. QED  BY <1>a, <1>c, <2>3, <2>6, Zenon
<1>7. CASE EditParent
  <2>1. /\ refs' \in CallTables /\ UNCHANGED <<checkedOut, state, subGraph, baseline>>
        /\ subOutcome' = NoOutcome
    BY <1>7, Zenon DEF EditParent
  <2>2. SubOK'
    BY <2>1, Zenon DEF SubInv, SubOK, TreeOK
  <2>. QED  BY <1>a, <1>c, <2>1, <2>2, Zenon
<1>8. CASE Reindexing
  <2>1. /\ subGraph' = Indexed /\ UNCHANGED <<checkedOut, state, refs, baseline>>
        /\ subOutcome' = NoOutcome
    BY <1>8, Zenon DEF Reindexing
  <2>2. SubOK'
    BY <2>1, IndexedOK, Zenon DEF SubInv, SubOK, TreeOK
  <2>. QED  BY <1>a, <1>c, <2>1, <2>2, Zenon
<1>9. CASE UNCHANGED subVars
  BY <1>9, <1>b, Zenon DEF subVars, SubInv, PassVouchesForTheBaseline
<1>. QED  BY <1>1, <1>2, <1>3, <1>4, <1>5, <1>6, <1>7, <1>8, <1>9, Zenon DEF SubNext

\* A passing `weave verify` with every check on vouches for the indexed calls: each
\* is bound once, and meets the signature of the recorded baseline, for any number
\* of submodules and files, and in whatever order they were changed, re-indexed and
\* their baselines moved.
THEOREM PassAlwaysVouches == SubSpec => []PassVouchesForTheBaseline
<1>1. SubInit => SubInv
  <2>. SUFFICES ASSUME SubInit PROVE SubInv
    BY Zenon
  <2>1. /\ DOMAIN checkedOut = Subs /\ \A s \in Subs : checkedOut[s] \in Holdings(s)
        /\ state \in [Subs -> SubStates] /\ refs \in CallTables
    BY SubmoduleAssumption, Zenon DEF SubInit, Holdings, SubStates
  <2>2. DOMAIN baseline = Subs /\ \A s \in Subs : ~baseline[s].there
    BY Zenon DEF SubInit, NoBaseline
  <2>3. TreeOK
    BY <2>1, Zenon DEF TreeOK
  <2>4. SubOK
    BY <2>2, <2>3, IndexedOK, Zenon DEF SubOK, SubInit
  <2>5. subOutcome.kind # "pass"
    BY Zenon DEF SubInit, NoOutcome
  <2>. QED  BY <2>4, <2>5, Zenon DEF SubInv, PassVouchesForTheBaseline
<1>2. SubInv => PassVouchesForTheBaseline
  BY Zenon DEF SubInv
<1>. QED  BY <1>1, <1>2, NextSub, PTL DEF SubSpec

-----------------------------------------------------------------------------
(* RulesReview: nothing that was decided is lost while saves do not        *)
(* overlap.  A run between its two writes holds all that was decided; once *)
(* two are there, or one is and the file is not empty, an overlap can only *)
(* be noticed, never undone.                                               *)

\* A run in progress: what it would save holds what it read, and is not empty.
RunOK(q) ==
    \/ q = NoReview
    \/ \E pc, old, new :
         /\ pc \in {"save", "fill", "show"} /\ q = [pc |-> pc, read |-> old, state |-> new]
         /\ pc # "show" => Texts(old) \subseteq Texts(new) /\ Texts(new) # {}

Filling == {r \in Reviewers : review[r].pc = "fill"}
Doomed == \E r \in Filling : saved # NoRules \/ \E q \in Filling : q # r

RulesInv ==
    /\ review \in [Reviewers -> {review[r] : r \in Reviewers}] /\ \A r \in Reviewers : RunOK(review[r])
    /\ ~overlap =>
         \/ Filling = {} /\ decided \subseteq Texts(saved)
         \/ \E r \in Reviewers : Filling = {r} /\ saved = NoRules /\ decided \subseteq Texts(review[r].state)
         \/ Doomed

\* Decisions are added to what was read, and a selection names at least one text.
LEMMA DecisionsAdd ==
  ASSUME NEW old, NEW list, NEW confirm \in Selections, NEW reject \in Selections,
         confirm # <<>> \/ reject # <<>>,
         NEW new, new = RejectAll(ConfirmAll(old, list, confirm), list, reject)
  PROVE  Texts(old) \subseteq Texts(new) /\ Texts(new) # {}
<1>1. Texts(new) = Texts(old) \cup Chosen(list, confirm) \cup Chosen(list, reject)
  BY Zenon DEF Texts, RejectAll, ConfirmAll
<1>2. ASSUME NEW spec \in Selections, spec # <<>> PROVE Chosen(list, spec) # {}
  <2>1. 1 \in DOMAIN spec
    BY <1>2, RulesAssumption
  <2>. QED  BY <2>1, Zenon DEF Chosen
<1>. QED  BY <1>1, <1>2, Zenon

\* The file is empty and nobody has begun.
LEMMA RulesInitInv == RulesInit => RulesInv
<1>. SUFFICES ASSUME RulesInit PROVE RulesInv
  BY Zenon
<1>1. \A r \in Reviewers : review[r] = NoReview
  BY Zenon DEF RulesInit
<1>2. Filling = {}
  BY <1>1 DEF Filling, NoReview
<1>. QED  BY <1>1, <1>2, Zenon DEF RulesInit, RulesInv, RunOK

\* What a run is before and after a step of it that only moves it on.
LEMMA RunMoves ==
  ASSUME RulesInv, NEW r \in Reviewers, review[r].pc \in {"save", "fill"},
         NEW pc \in {"save", "fill", "show"}, review' = [review EXCEPT ![r].pc = pc]
  PROVE  /\ DOMAIN review' = Reviewers /\ review' \in [Reviewers -> {review'[q] : q \in Reviewers}]
         /\ \A q \in Reviewers : q # r => review'[q] = review[q]
         /\ review'[r].pc = pc /\ review'[r].state = review[r].state
         /\ Texts(review[r].read) \subseteq Texts(review[r].state) /\ Texts(review[r].state) # {}
         /\ RunOK(review'[r])
<1>1. PICK p, old, new :
        /\ p \in {"save", "fill", "show"} /\ review[r] = [pc |-> p, read |-> old, state |-> new]
        /\ p # "show" => Texts(old) \subseteq Texts(new) /\ Texts(new) # {}
  BY DEF RulesInv, RunOK, NoReview
<1>2. review'[r] = [pc |-> pc, read |-> old, state |-> new]
  BY <1>1 DEF RulesInv
<1>3. review[r].pc = p /\ review[r].read = old /\ review[r].state = new
  BY <1>1
<1>4. Texts(old) \subseteq Texts(new) /\ Texts(new) # {}
  <2>1. p # "show"
    BY <1>3, Zenon
  <2>. QED  BY <1>1, <2>1, Zenon
<1>5. RunOK(review'[r])
  BY <1>2, <1>4, Zenon DEF RunOK
<1>. QED  BY <1>2, <1>3, <1>4, <1>5, Zenon DEF RulesInv

\* A run that starts reads the file, and is not filling it.
LEMMA ReviewInv ==
  ASSUME RulesInv, NEW r \in Reviewers, NEW confirm \in Selections, NEW reject \in Selections,
         Review(r, confirm, reject)
  PROVE  RulesInv'
<1>. DEFINE waiting == Pending(documents, saved)
            new == RejectAll(ConfirmAll(saved, waiting, confirm), waiting, reject)
            pc == IF confirm = <<>> /\ reject = <<>> THEN "show" ELSE "save"
<1>0. saved' = saved /\ overlap' = overlap /\ decided' = decided /\ review[r] = NoReview
  BY Zenon DEF Review
<1>1. review'[r] = NoReview \/ review'[r] = [pc |-> pc, read |-> saved, state |-> new]
  BY Zenon DEF Review, RulesInv
<1>2. /\ review' \in [Reviewers -> {review'[q] : q \in Reviewers}]
      /\ \A q \in Reviewers : q # r => review'[q] = review[q]
  BY Zenon DEF Review, RulesInv
<1>3. RunOK(review'[r])
  <2>1. pc # "show" => Texts(saved) \subseteq Texts(new) /\ Texts(new) # {}
    BY DecisionsAdd, Zenon
  <2>. HIDE DEF new, waiting
  <2>. QED  BY <1>1, <2>1, Zenon DEF RunOK
<1>4. Filling' = Filling /\ \A q \in Filling : review'[q] = review[q]
  <2>1. review[r].pc # "fill" /\ review'[r].pc # "fill"
    <3>. HIDE DEF new, waiting
    <3>. QED  BY <1>0, <1>1 DEF NoReview
  <2>. QED  BY <1>2, <2>1, Zenon DEF Filling
<1>5. \A q \in Reviewers : RunOK(review'[q])
  BY <1>2, <1>3, Zenon DEF RulesInv
<1>. HIDE DEF new, waiting, pc
<1>6. ASSUME ~overlap
      PROVE  \/ Filling' = {} /\ decided' \subseteq Texts(saved')
             \/ \E q \in Reviewers : Filling' = {q} /\ saved' = NoRules /\ decided' \subseteq Texts(review'[q].state)
             \/ Doomed'
  BY <1>0, <1>4, <1>6, Zenon DEF RulesInv, Doomed
<1>. QED  BY <1>0, <1>2, <1>5, <1>6, Zenon DEF RulesInv

\* A run that truncates the file holds what it read of it.
LEMMA TruncateInv ==
  ASSUME RulesInv, NEW r \in Reviewers, Truncate(r)
  PROVE  RulesInv'
<1>0. /\ saved' = NoRules /\ decided' = decided /\ review[r].pc = "save"
      /\ ~overlap' => ~overlap /\ saved = review[r].read
  BY Zenon DEF Truncate
<1>1. /\ review' \in [Reviewers -> {review'[q] : q \in Reviewers}]
      /\ \A q \in Reviewers : q # r => review'[q] = review[q]
      /\ review'[r].pc = "fill" /\ review'[r].state = review[r].state
      /\ Texts(review[r].read) \subseteq Texts(review[r].state) /\ RunOK(review'[r])
  BY <1>0, RunMoves, Zenon DEF Truncate
<1>2. Filling' = Filling \cup {r} /\ r \notin Filling
  BY <1>0, <1>1, Zenon DEF Filling
<1>3. \A q \in Reviewers : RunOK(review'[q])
  BY <1>1, Zenon DEF RulesInv
<1>4. ASSUME ~overlap'
      PROVE  \/ \E q \in Reviewers : Filling' = {q} /\ saved' = NoRules /\ decided' \subseteq Texts(review'[q].state)
             \/ Doomed'
  <2>1. CASE Filling = {}
    <3>1. decided \subseteq Texts(saved)
      BY <1>0, <1>4, <2>1, Zenon DEF RulesInv, Doomed
    <3>. QED  BY <1>0, <1>1, <1>2, <1>4, <2>1, <3>1, Zenon
  <2>2. CASE Filling # {}
    BY <1>2, <2>2 DEF Doomed
  <2>. QED  BY <2>1, <2>2, Zenon
<1>. QED  BY <1>1, <1>3, <1>4, Zenon DEF RulesInv

\* A run that fills an empty file puts all that was decided there.
LEMMA FillInv ==
  ASSUME RulesInv, NEW r \in Reviewers, Fill(r)
  PROVE  RulesInv'
<1>0. /\ saved' = review[r].state /\ decided' = decided \cup Texts(review[r].state) /\ review[r].pc = "fill"
      /\ ~overlap' => ~overlap /\ saved = NoRules
  BY Zenon DEF Fill
<1>1. /\ review' \in [Reviewers -> {review'[q] : q \in Reviewers}]
      /\ \A q \in Reviewers : q # r => review'[q] = review[q]
      /\ review'[r].pc = "show" /\ Texts(review[r].state) # {} /\ RunOK(review'[r])
  BY <1>0, RunMoves, Zenon DEF Fill
<1>2. Filling' = Filling \ {r} /\ r \in Filling
  BY <1>0, <1>1, Zenon DEF Filling
<1>3. \A q \in Reviewers : RunOK(review'[q])
  BY <1>1, Zenon DEF RulesInv
<1>4. saved' # NoRules
  BY <1>0, <1>1 DEF NoRules, Texts
<1>5. ASSUME ~overlap'
      PROVE  (Filling' = {} /\ decided' \subseteq Texts(saved')) \/ Doomed'
  <2>1. CASE Filling = {r}
    <3>1. decided \subseteq Texts(review[r].state)
      BY <1>0, <1>5, <2>1, Zenon DEF RulesInv, Doomed
    <3>. QED  BY <1>0, <1>2, <2>1, <3>1, Zenon
  <2>2. CASE Filling # {r}
    <3>1. PICK q \in Filling : q # r
      BY <1>2, <2>2, Zenon
    <3>. QED  BY <1>2, <1>4, <3>1, Zenon DEF Doomed
  <2>. QED  BY <2>1, <2>2, Zenon
<1>. QED  BY <1>1, <1>3, <1>5, Zenon DEF RulesInv

\* A run that ends, or is killed other than between its two writes, changes nothing.
LEMMA EndsInv ==
  ASSUME RulesInv, NEW r \in Reviewers, Show(r) \/ Killed(r)
  PROVE  RulesInv'
<1>0. /\ saved' = saved /\ decided' = decided /\ review' = [review EXCEPT ![r] = NoReview]
      /\ ~overlap' => ~overlap /\ review[r].pc # "fill"
  <2>1. CASE Show(r)
    BY <2>1, Zenon DEF Show
  <2>2. CASE Killed(r)
    BY <2>2, Zenon DEF Killed
  <2>. QED  BY <2>1, <2>2, Zenon
<1>1. /\ review' \in [Reviewers -> {review'[q] : q \in Reviewers}]
      /\ \A q \in Reviewers : q # r => review'[q] = review[q]
      /\ review'[r] = NoReview
  BY <1>0, Zenon DEF RulesInv
<1>2. \A q \in Reviewers : RunOK(review'[q])
  BY <1>1 DEF RulesInv, RunOK
<1>3. ASSUME ~overlap' PROVE Filling' = Filling /\ \A q \in Filling : review'[q] = review[q]
  BY <1>0, <1>1, <1>3, Zenon DEF Filling, NoReview
<1>4. ASSUME ~overlap'
      PROVE  \/ Filling' = {} /\ decided' \subseteq Texts(saved')
             \/ \E q \in Reviewers : Filling' = {q} /\ saved' = NoRules /\ decided' \subseteq Texts(review'[q].state)
             \/ Doomed'
  BY <1>0, <1>3, <1>4, Zenon DEF RulesInv, Doomed
<1>. QED  BY <1>1, <1>2, <1>4, Zenon DEF RulesInv

\* Decisions are only lost to an overlapping or an interrupted save, whatever the
\* documents, the reviewers and the order in which they work (rules.rs, save_state).
THEOREM DecisionsAlwaysKept == RulesSpec => []DecisionsAreKept
<1>1. RulesInv /\ [RulesNext]_rulesVars => RulesInv'
  <2>. SUFFICES ASSUME RulesInv, [RulesNext]_rulesVars PROVE RulesInv'
    BY Zenon
  <2>1. CASE EditDocuments \/ UNCHANGED rulesVars
    <3>1. saved' = saved /\ decided' = decided /\ review' = review /\ overlap' = overlap
      BY <2>1, Zenon DEF EditDocuments, rulesVars
    <3>. QED  BY <3>1 DEF RulesInv, RunOK, Filling, Doomed
  <2>. QED  BY <2>1, ReviewInv, TruncateInv, FillInv, EndsInv, Zenon DEF RulesNext
<1>2. RulesInv => DecisionsAreKept
  BY Zenon DEF RulesInv, DecisionsAreKept, Filling, Doomed
<1>. QED  BY <1>1, <1>2, RulesInitInv, PTL DEF RulesSpec
=============================================================================
