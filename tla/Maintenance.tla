---------------------------- MODULE Maintenance ----------------------------
(***************************************************************************)
(* The maintenance plane (maintenance.py) over the tables it reads: a      *)
(* trigger names a recorded production failure, its admission opens a      *)
(* repair, the repair becomes one ordinary mission, and a candidate the    *)
(* evaluator passed may be staged in an environment nobody has to approve. *)
(*                                                                         *)
(* A verb of the plane reads the repair in one transaction and writes it   *)
(* in a later one.  "desk" is what an operator read and has not yet acted  *)
(* on; the supervisor has local state of its own (module Supervisor).      *)
(* Missions are seen from outside: what a work_once may leave behind, not  *)
(* how it gets there (module Controller).                                  *)
(***************************************************************************)
EXTENDS Naturals, FiniteSets

CONSTANTS Projects, Triggers, Backlog, Operators, None,
          ProjectOf,             \* trigger or backlog mission -> project
          SignatureOf,           \* trigger -> the failure it repeats
          RepairBudget,          \* repairs under one policy version
          Concurrency,           \* repairs open at once in a project
          AttemptCeiling,        \* repairs of one signature
          SuppressionThreshold   \* unrecovered repairs of one signature

VARIABLES repairs, missions, projectState, portfolioStop, desk

maintenanceVars == <<repairs, missions, projectState, portfolioStop, desk>>

Missions == Triggers \union Backlog     \* a repair's mission is named by its key

(* "unrecovered" stands for escalated, suppressed and abandoned, which     *)
(* every decision treats alike.                                            *)
Dispositions == {"recovered", "unrecovered"}
RepairStates == {"absent", "admitted", "mission_created", "candidate_validated",
                 "recovery_staged", "closed"}
(* "working" is a leased mission before the dispatch boundary, "past" one  *)
(* beyond it, "ended" stands for refused, failed, cancelled, escalated.    *)
MissionStates == {"absent", "admitted", "working", "past", "completed", "ended"}
Leases == {"free", "held", "orphaned"}
Settled == {"completed", "ended"}

NoRepair == [state |-> "absent", disposition |-> None, mission |-> FALSE,
             passed |-> FALSE]

Idle == [verb |-> None, trigger |-> None]

MaintenanceTypeOK ==
    /\ repairs \in [Triggers -> [state : RepairStates,
                                 disposition : Dispositions \union {None},
                                 mission : BOOLEAN,
                                 passed : BOOLEAN]]
    /\ missions \in [Missions -> [state : MissionStates, lease : Leases]]
    /\ projectState \in [Projects -> {"enabled", "paused"}]
    /\ portfolioStop \in BOOLEAN
    /\ desk \in [Operators -> [verb : {None, "stage", "close"},
                               trigger : Triggers \union {None}]]

MaintenanceInit ==
    /\ repairs = [r \in Triggers |-> NoRepair]
    /\ missions = [m \in Missions |->
                     [state |-> IF m \in Backlog THEN "admitted" ELSE "absent",
                      lease |-> "free"]]
    /\ projectState = [p \in Projects |-> "enabled"]
    /\ portfolioStop = FALSE
    /\ desk = [o \in Operators |-> Idle]

Known(r) == repairs[r].state # "absent"
OpenRepair(r) == Known(r) /\ repairs[r].disposition = None
Alike(r) == {q \in Triggers : Known(q) /\ SignatureOf[q] = SignatureOf[r]}

(* _admission: every bound of the policy, in the transaction that writes.  *)
(* The recorded fact, the classes in scope and the cooldown are left open. *)
Admissible(r) ==
    LET p == ProjectOf[r]
        ofProject == {q \in Triggers : Known(q) /\ ProjectOf[q] = p}
    IN /\ ~portfolioStop
       /\ projectState[p] = "enabled"
       /\ Cardinality(ofProject) < RepairBudget
       /\ Cardinality({q \in ofProject : OpenRepair(q)}) < Concurrency
       /\ Cardinality(Alike(r)) < AttemptCeiling
       /\ Cardinality({q \in Alike(r) : repairs[q].disposition # "recovered"})
            < SuppressionThreshold

(* admit_trigger: the same failure replayed is the same repair.            *)
AdmitTrigger(r) ==
    /\ ~Known(r)
    /\ Admissible(r)
    /\ repairs' = [repairs EXCEPT ![r].state = "admitted"]
    /\ UNCHANGED <<missions, projectState, portfolioStop, desk>>

-----------------------------------------------------------------------------
(* create_repair_mission, in the two transactions that change something.   *)

(* controller.submit: the key names the trigger, so a mission submitted    *)
(* before a crash is found again.                                          *)
Submitted(r) ==
    IF missions[r].state = "absent"
    THEN [missions EXCEPT ![r].state = "admitted"]
    ELSE missions

(* The reference is written where nobody has closed the repair since.      *)
Bound(r) ==
    IF repairs[r].disposition = None
    THEN [repairs EXCEPT ![r].mission = TRUE, ![r].state = "mission_created"]
    ELSE repairs

(* record_mission_outcome writes the state it read ("seen"), or the state  *)
(* of a repair whose candidate passed; nothing asks whether the repair was *)
(* closed in between.                                                      *)
OutcomeRecorded(r, seen, state, passed) ==
    [repairs EXCEPT
        ![r].passed = passed,
        ![r].state = IF state = "completed" /\ passed
                     THEN "candidate_validated" ELSE seen]

-----------------------------------------------------------------------------
(* stage_recovery and close at an operator's desk.                         *)

Stageable(r) == OpenRepair(r) /\ repairs[r].passed

(* stage_recovery reads the repair and has the release admitted: the       *)
(* environment is ungated and of the same project.                         *)
StageBegin(o, r) ==
    /\ desk[o] = Idle
    /\ Stageable(r)
    /\ ~portfolioStop
    /\ desk' = [desk EXCEPT ![o] = [verb |-> "stage", trigger |-> r]]
    /\ UNCHANGED <<repairs, missions, projectState, portfolioStop>>

StageWrite(o) ==
    LET r == desk[o].trigger
    IN /\ desk[o].verb = "stage"
       /\ repairs' = [repairs EXCEPT ![r].state = "recovery_staged"]
       /\ desk' = [desk EXCEPT ![o] = Idle]
       /\ UNCHANGED <<missions, projectState, portfolioStop>>

CloseBegin(o, r) ==
    /\ desk[o] = Idle
    /\ OpenRepair(r)
    /\ desk' = [desk EXCEPT ![o] = [verb |-> "close", trigger |-> r]]
    /\ UNCHANGED <<repairs, missions, projectState, portfolioStop>>

CloseWrite(o) ==
    LET r == desk[o].trigger
    IN /\ desk[o].verb = "close"
       /\ \E d \in Dispositions:
            repairs' = [repairs EXCEPT ![r].disposition = d, ![r].state = "closed"]
       /\ desk' = [desk EXCEPT ![o] = Idle]
       /\ UNCHANGED <<missions, projectState, portfolioStop>>

(* The operator's process dies between its two transactions.               *)
DeskLost(o) ==
    /\ desk[o] # Idle
    /\ desk' = [desk EXCEPT ![o] = Idle]
    /\ UNCHANGED <<repairs, missions, projectState, portfolioStop>>
=============================================================================
