------------------------------ MODULE MCSyncPump ------------------------------
(* Instances of SyncPump for TLC. *)
EXTENDS SyncPump, TLC

CONSTANTS f1, f2, f3, t1, t2, r1, r2

TwoFrames == {f1, f2}
ThreeFrames == {f1, f2, f3}
OneTask == {t1}
TwoTasks == {t1, t2}
OneReader == {r1}
TwoReaders == {r1, r2}

Symmetry ==
  Permutations(Frames) \cup Permutations(Consumers) \cup Permutations(Readers)
=============================================================================
