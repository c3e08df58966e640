-------------------------- MODULE MCAgentInstance --------------------------
EXTENDS AgentInstance, TLC

(* Ports are interchangeable. *)
PortSymmetry == Permutations(Ports)
=============================================================================
