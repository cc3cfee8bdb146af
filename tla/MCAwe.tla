------------------------------- MODULE MCAwe -------------------------------
(* Two tasks of one slot: constants for TLC. *)
EXTENDS AweProperties, TLC

OneSlot == {"codex-max"}
SameSlot == [t \in Tasks |-> "codex-max"]
Harness == [s \in Slots |-> "codex"]

\* Task 2 certifies task 1.
Second == [t \in Tasks |-> IF t = 1 THEN {2} ELSE {}]
Symmetric == Permutations(Workers)
=============================================================================
