----------------------- MODULE SupervisorProperties -----------------------
(***************************************************************************)
(* What the supervisor promises over many cycles, their overlaps and their *)
(* deaths.                                                                 *)
(***************************************************************************)
EXTENDS Supervisor

SupervisorTypeOK ==
    /\ MaintenanceTypeOK
    /\ control \in ControlStates
    /\ halting \in [Owners -> {None, "engage", "release"}]
    /\ cycles \in Seq([outcome : {"open"} \union Outcomes \union RecoveryOutcomes,
                       live : BOOLEAN])
    /\ \A c \in Callers :
         /\ worker[c].cycle \in 0..Len(cycles)
         /\ worker[c].at = "away" <=> worker[c].cycle = 0
         /\ worker[c].control \in ControlStates
         /\ worker[c].scope \subseteq Projects
         /\ worker[c].queue \subseteq worker[c].scope
         /\ worker[c].due \subseteq Triggers
         /\ worker[c].item \in Missions \union {None}
         /\ worker[c].left \in 0..PerCycle
         /\ worker[c].class \in Classifications
    /\ health \in [Projects -> [failures : Nat, suppressed : BOOLEAN,
                                escalated : BOOLEAN]]
    /\ open \in [Projects -> BOOLEAN]
    /\ moves \in 0..MaxMoves /\ faults \in 0..MaxFaults

(* The rows of supervisor_cycles are a cycle ledger: one open cycle at     *)
(* most, each settled once, and what a recovery recorded of an abandoned   *)
(* cycle is never rewritten by the invocation that comes back to close it. *)
Ledger == INSTANCE CycleLedger
            WITH rows <- [i \in DOMAIN cycles |-> cycles[i].outcome],
                 Recoveries <- RecoveryOutcomes
CyclesSettledOnce == Ledger!LedgerSpec

(* The run of infrastructure failures counted against a project is         *)
(* bounded, however many cycles overlap: at twice the threshold the        *)
(* project is escalated, and only the cycles that had already read their   *)
(* scope go on adding to it.  That is one cycle, and one more for every    *)
(* lease that was lost.  It bounds the run, not the missions spent: any    *)
(* other outcome begins a new run.  So does a retry, of which the comment  *)
(* in classify_outcome says that it moves nothing; and the first failure   *)
(* of the new run writes escalated back to 0.                              *)
EscalationBounds ==
    \A p \in Projects :
        health[p].failures <= 2 * Threshold - 1 + PerCycle * (1 + faults)
=============================================================================
