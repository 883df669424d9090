---------------------------- MODULE MCAgentLoop ----------------------------
(* Prices for AgentLoop: the fallback is the cheaper model, so a run may come to
   its budget or to its last iteration first. *)
EXTENDS AgentLoop

MCCosts == <<{2}, {1}>>
=============================================================================
