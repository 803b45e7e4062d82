----------------------------- MODULE RepoHistory -----------------------------
(***************************************************************************)
(* What the hub promises about one repository: the accepted snapshots form *)
(* one line, each built on the one before it or sent without a base, and   *)
(* the snapshot served as latest is always one that was accepted.          *)
(***************************************************************************)
EXTENDS Naturals, Sequences

CONSTANTS Shas, None

VARIABLES accepted,   \* the accepted pushes [sha, base], oldest first
          latest      \* what a pull of "latest" resolves to

Init == accepted = <<>> /\ latest = None

\* A push with a base is accepted only on top of that base.
Accept(sha, base) ==
  /\ \/ base = None
     \/ accepted = <<>>
     \/ accepted[Len(accepted)].sha = base
  /\ accepted' = Append(accepted, [sha |-> sha, base |-> base])
  /\ UNCHANGED latest

Serve(i) == latest' = accepted[i].sha /\ UNCHANGED accepted

Next ==
  \/ \E sha \in Shas, base \in Shas \cup {None} : Accept(sha, base)
  \/ \E i \in 1..Len(accepted) : Serve(i)

Spec == Init /\ [][Next]_<<accepted, latest>>
=============================================================================
