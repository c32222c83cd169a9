------------------------- MODULE MCDistributedScan -------------------------
(* Instances of DistributedScan for TLC. *)
EXTENDS DistributedScan, TLC

CONSTANTS s1, s2, w1, w2, h1, c1

OneScan == {s1}
TwoScans == {s1, s2}
OneWorker == {w1}
OneSteady == {w1}
OnePoison == {s2}
TwoWorkers == {w1, w2}
OneLauncher == {h1}
OneCanceller == {c1}
Nobody == {}
WorkerSymmetry == Permutations(TwoWorkers)
=============================================================================
