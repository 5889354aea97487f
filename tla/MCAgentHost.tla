---------------------------- MODULE MCAgentHost ----------------------------
(* Small instances of AgentHost. *)
EXTENDS AgentHost, TLC

CONSTANTS a, b, q1, q2, q3, p

RequestSymmetry == Permutations(Requests)
=============================================================================
