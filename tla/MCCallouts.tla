----------------------------- MODULE MCCallouts -----------------------------
(***************************************************************************)
(* Instances of Callouts: one node with two members and two callouts, and  *)
(* three nodes with members on the two peers of a callout's origin.        *)
(***************************************************************************)
EXTENDS Callouts

CONSTANTS s1, s2, c1, c2

MCStreams == {s1, s2}
MCCallouts == {c1, c2}
MCNodes == {1, 2, 3}

Place(a, b) == [s \in MCStreams |-> IF s = s1 THEN a ELSE b]
Make(a, b) == [c \in MCCallouts |-> IF c = c1 THEN a ELSE b]

MCSetup ==
  { [home |-> Place(1, None), origin |-> Make(1, 1), faults |-> 1],
    [home |-> Place(1, 1), origin |-> Make(1, None), faults |-> 1],
    [home |-> Place(2, 3), origin |-> Make(1, None), faults |-> 1],
    [home |-> Place(2, None), origin |-> Make(1, None), faults |-> 2] }

====
