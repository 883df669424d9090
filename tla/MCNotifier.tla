----------------------------- MODULE MCNotifier -----------------------------
(* Finite instances of Notifier, bounded by MaxEvents and MaxFaults. *)
EXTENDS Notifier, TLC

JobSymmetry == Permutations(Jobs)
=============================================================================
