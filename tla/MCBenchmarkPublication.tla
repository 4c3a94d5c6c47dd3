----------------------- MODULE MCBenchmarkPublication -----------------------
(***************************************************************************)
(* Two CI jobs of the first release, a third one run by hand with the      *)
(* one-time token, and an operator; two jobs and two publications happen.  *)
(***************************************************************************)
EXTENDS BenchmarkPublication

CONSTANTS j1, j2, j3, o1

TwoKinds == <<"auto", "pdf">>
OneCommit == [j \in Jobs |-> 1]
Symmetry == Permutations(Jobs \ OneTime)
=============================================================================
