---------------------------- MODULE MCHeltecNode ----------------------------
(* Instances of HeltecNode for TLC. *)
EXTENDS HeltecNode, TLC

CONSTANTS f1, f2, m1, m2

TwoFreqs == {f1, f2}
TwoMods == {m1, m2}
Wide == {<<f2, m2>>}
TwoLists == {<<>>, <<f2, f1>>}
Soon == {1}
=============================================================================
