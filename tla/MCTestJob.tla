----------------------------- MODULE MCTestJob -----------------------------
(* Finite instances of TestJob: the runs of one pull request are alike. *)
EXTENDS TestJob, TLC

RunSymmetry == Permutations(Runs)
=============================================================================
