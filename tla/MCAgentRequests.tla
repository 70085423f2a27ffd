--------------------------- MODULE MCAgentRequests ---------------------------
(* Instances of AgentRequests for TLC. *)
EXTENDS AgentRequests, TLC

\* Agents and messages are interchangeable in the safety runs.
Symmetry == Permutations(Agents) \cup Permutations(Messages)

=============================================================================
