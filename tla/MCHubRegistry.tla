---------------------------- MODULE MCHubRegistry ----------------------------
(***************************************************************************)
(* In a line of pushes the first client publishes c1, the second c2 on     *)
(* top of c1 and the third c3 on top of c1: the last two compete.  Twins   *)
(* publish the same commit.                                                *)
(***************************************************************************)
EXTENDS HubRegistry

CONSTANTS k1, k2, k3, c1, c2, c3

Three == {k1, k2, k3}
Two == {k1, k2}
MCShas == {c1, c2, c3}
Line(pushers) ==
  [x \in pushers |-> CASE x = k1 -> c1 [] x = k2 -> c2 [] x = k3 -> c3]
LineOfThree == Line(Three)
LineOfTwo == Line(Two)
Twins == [x \in Two |-> c1]
BaseOfThree == [x \in Three |-> IF x = k1 THEN None ELSE c1]
BaseOfTwo == [x \in Two |-> IF x = k1 THEN None ELSE c1]
NoBase == [x \in Two |-> None]

Calm == {}
Storm == {"crash", "idle", "lossy", "expire", "rate"}
=============================================================================
