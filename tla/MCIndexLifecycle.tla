-------------------------- MODULE MCIndexLifecycle --------------------------
(***************************************************************************)
(* Two files and three commits: b edits x, c deletes x and edits y.        *)
(***************************************************************************)
EXTENDS IndexLifecycle

CONSTANTS x, y, a, b, c

MCFiles == {x, y}
MCVersions == {1, 2}
MCCommits == {a, b, c}
MCTreeOf ==
  [k \in MCCommits |->
     CASE k = a -> [f \in MCFiles |-> 1]
       [] k = b -> [f \in MCFiles |-> IF f = x THEN 2 ELSE 1]
       [] k = c -> [f \in MCFiles |-> IF f = x THEN Gone ELSE 2]]
MCExtractors == {1, 2}

\* What the runs let the world do.
Tidy == {"watch", "upgrade", "timeout"}
Chaos == {"edit", "race", "crash", "torn", "fail", "upgrade", "watch",
          "late", "timeout", "pull", "overlap"}
=============================================================================
