---------------------------- MODULE MCDashboard ----------------------------
(* Up to three jobs: the oldest two are over, the youngest is yet to be created. *)
EXTENDS Dashboard

MCStart == [j \in Jobs |-> CASE j = 1 -> "succeeded" [] j = 2 -> "failed" [] j = 3 -> Absent]
=============================================================================
