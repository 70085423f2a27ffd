-------------------------- MODULE MCProactiveAnswers --------------------------
(* Instances of ProactiveAnswers for TLC. *)
EXTENDS ProactiveAnswers, TLC

Symmetry == Permutations(Agents) \cup Permutations(Texts)
=============================================================================
