----------------------------- MODULE MCAsyncPump -----------------------------
(* Instances of AsyncPump for TLC. *)
EXTENDS AsyncPump, TLC

CONSTANTS f1, f2, f3, t1, t2, p1, p2, x1, x2

TwoFrames == {f1, f2}
ThreeFrames == {f1, f2, f3}
OneTask == {t1}
TwoTasks == {t1, t2}
TwoParsers == {p1, p2}
TwoXfers == {x1, x2}

Symmetry ==
  Permutations(Frames) \cup Permutations(Consumers)
    \cup Permutations(Parsers) \cup Permutations(Xfers)
=============================================================================
