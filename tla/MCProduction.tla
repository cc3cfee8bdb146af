---------------------------- MODULE MCProduction ----------------------------
(* One production environment, two releases: constants for TLC. *)
EXTENDS ProductionProperties, TLC

Owned(n) == [e \in Envs |->
    {[autonomous |-> FALSE, approvers |-> {"owner"}, concurrency |-> 1, rollbacks |-> n]}]
Twice == Owned(2)
Symmetric == Permutations(Callers) \cup Permutations(Bundles)
=============================================================================
