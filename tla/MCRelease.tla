----------------------------- MODULE MCRelease -----------------------------
(* One staging and one production environment: constants for TLC. *)
EXTENDS ReleaseProperties, TLC

Registered == [e \in Envs |->
    {[autonomous |-> e \notin ProductionEnvs, approvers |-> {"owner"},
      concurrency |-> 1, rollbacks |-> MaxRollbacks]}]
Symmetric == Permutations(Callers) \cup Permutations(Bundles)
=============================================================================
