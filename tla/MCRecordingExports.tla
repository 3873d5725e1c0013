-------------------------- MODULE MCRecordingExports --------------------------
(* Instances of RecordingExports for TLC. *)
EXTENDS RecordingExports, TLC

CONSTANTS r1, r2, s1, s2, c1, c2

OneWorker == {r1}
TwoWorkers == {r1, r2}
OneSweep == {s1}
TwoSweeps == {s1, s2}
OneClient == {c1}
TwoClients == {c1, c2}
\* Bound: what two runs make of one file is not followed; the properties promise nothing of it.
Unshared == ~ shared
Symmetry == Permutations(TwoWorkers)
================================================================================
