------------------------------ MODULE MCCmdLink ------------------------------
(* Instances of CmdLink for TLC. *)
EXTENDS CmdLink, TLC

CONSTANTS c1, c2, v1, v2, lora, gfsk

TwoCallers == {c1, c2}
OneCaller == {c1}
TwoValues == {v1, v2}
OneValue == {v1}
TwoPhys == {lora, gfsk}

Symmetry == Permutations(Callers) \cup Permutations(Values)
=============================================================================
