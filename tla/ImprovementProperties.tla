----------------------- MODULE ImprovementProperties -----------------------
(***************************************************************************)
(* What the improvement plane promises of a lineage, whoever works on it.  *)
(***************************************************************************)
EXTENDS Improvement

(* Every row, policy, objective and decision keeps its type.               *)
ImprovementTypeOK ==
    /\ policy \in Policies
    /\ objectives \in [Objectives -> [digest : 0..MaxRevisions, active : BOOLEAN]]
    /\ experiments \in [Objectives -> [Generations -> Row]]
    /\ missions \subseteq Objectives \X Generations
    /\ shown \subseteq Objectives \X Generations
    /\ revisions \in 0..MaxRevisions
    /\ \A p \in Operators :
         /\ desk[p].verb \in Verbs \union {None}
         /\ desk[p].verb # None => /\ desk[p].objective \in Objectives
                                   /\ desk[p].generation \in Generations

(* Recursion is a chain: a later generation exists only behind one that is *)
(* closed, and it starts from the very commit that one produced.  At most  *)
(* the last generation of a lineage is open.                               *)
LineageChained ==
    \A o \in Objectives, g \in Generations :
        g > 1 /\ Exp(o, g).known =>
            /\ Exp(o, g - 1).known
            /\ Exp(o, g - 1).disposition # None
            /\ Exp(o, g).baseline = Exp(o, g - 1).candidate

(* Nothing is accepted, or staged in an environment, that was not at some  *)
(* moment recorded as better than its baseline.                            *)
AcceptedWasShown ==
    \A o \in Objectives, g \in Generations :
        Exp(o, g).disposition = "accepted" \/ Exp(o, g).promotion # {}
            => <<o, g>> \in shown
=============================================================================
