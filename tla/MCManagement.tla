----------------------------- MODULE MCManagement -----------------------------
(* Constants of the instances of Management that TLC checks.               *)
EXTENDS ManagementProperties, TLC

OwnNames == [c \in Callers |-> c]

SameInbox == [p \in Planes |-> Items]
Bound == [intake |-> 1, management |-> 2]

Symmetric == Permutations(Callers)
=============================================================================
