----------------------------- MODULE MCSupervisor -----------------------------
(* Constants of the instances of Supervisor that TLC checks.               *)
EXTENDS SupervisorProperties, TLC

OneProject == [m \in Missions |-> CHOOSE p \in Projects : TRUE]
OneSignature == [r \in Triggers |-> "signature"]

Symmetric == Permutations(Callers) \union Permutations(Backlog)
=============================================================================
