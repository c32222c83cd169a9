-------------------------- MODULE MCReliableQueue --------------------------
(* Instances of ReliableQueue for TLC. *)
EXTENDS ReliableQueue

CONSTANTS w1, w2, j1, j2, j3

TwoWorkers == {w1, w2}
TwoJobs == {j1, j2}
ThreeJobs == {j1, j2, j3}
OneSteady == {w1}
OnePoison == {j2}
Nothing == {}

\* Workers and tokens are interchangeable wherever none is singled out.
Symmetry == Permutations(TwoWorkers) \cup Permutations(Jobs)
=============================================================================
