---------------------------- MODULE MCImprovement ----------------------------
(* Constants of the instances of Improvement that TLC checks.              *)
EXTENDS ImprovementProperties, TLC

Symmetric == Permutations(Operators) \union Permutations(Shas)
=============================================================================
