---------------------------- MODULE MCLocalScan ----------------------------
(* Instances of LocalScan for TLC. *)
EXTENDS LocalScan

CONSTANTS s1, s2, s3, h1, h2, c1, c2

TwoScans == {s1, s2}
ThreeScans == {s1, s2, s3}
OneScan == {s1}
OneLauncher == {h1}
TwoLaunchers == {h1, h2}
OneCanceller == {c1}
TwoCancellers == {c1, c2}
Nobody == {}
Symmetry == Permutations(ThreeScans) \cup Permutations(TwoLaunchers)
            \cup Permutations(TwoCancellers)
=============================================================================
