---------------------------- MODULE Supervisor ----------------------------
(***************************************************************************)
(* The operations supervisor (supervisor.py) over the maintenance plane    *)
(* and the mission table.                                                  *)
(*                                                                         *)
(* An invocation ("caller") performs one cycle: it claims the cycle,       *)
(* reads which projects it may touch, turns admitted repairs into          *)
(* missions, advances missions up to a ceiling and closes.  Every step     *)
(* below is one transaction or one work_once, and a caller may die, or     *)
(* lose the lease of its cycle, between any two.  The Owner moves the      *)
(* control state in one transaction and the portfolio stop in another.     *)
(***************************************************************************)
EXTENDS Maintenance, Sequences

CONSTANTS Callers, Owners,
          PerCycle,       \* missions_per_cycle
          Admissions,     \* maintenance_admissions
          Threshold,      \* failure_threshold
          MaxCycles,      \* bound: cycles ever claimed
          MaxMoves,       \* bound: decisions of the Owner
          MaxFaults       \* bound: deaths and leases that run out

VARIABLES control,     \* supervisor_control.state
          halting,     \* an Owner's call between its two transactions
          cycles,      \* supervisor_cycles, by sequence
          worker,      \* what each invocation holds in memory
          health,      \* supervisor_health
          open,        \* policy enabled and its execution window open
          moves, faults

ownerVars == <<control, halting, open, moves>>
ownVars == <<control, halting, cycles, worker, health, open, moves, faults>>
vars == <<repairs, missions, projectState, portfolioStop, desk,
          control, halting, cycles, worker, health, open, moves, faults>>

ASSUME SupervisorAssumption ==
    /\ PerCycle \in Nat \ {0} /\ Admissions \in Nat /\ Threshold \in Nat \ {0}
    /\ MaxCycles \in Nat /\ MaxMoves \in Nat /\ MaxFaults \in Nat
    /\ None \notin Missions

ControlStates == {"stopped", "running", "paused", "draining", "emergency_stopped"}

AllowedControl ==
    [stopped |-> {"running", "emergency_stopped"},
     running |-> {"paused", "draining", "stopped", "emergency_stopped"},
     paused |-> {"running", "draining", "stopped", "emergency_stopped"},
     draining |-> {"running", "paused", "stopped", "emergency_stopped"},
     emergency_stopped |-> {"stopped"}]

Operating == {"running", "draining"}
Outcomes == {"completed", "idle", "refused"}
RecoveryOutcomes == {"recovered_replayable", "recovered_uncertain"}

(* classify_outcome, on the row a work_once returned.                      *)
Classifications == {"none", "progressed", "retrying", "infrastructure", "ceiling",
                    "settled"}

Away == [at |-> "away", cycle |-> 0, control |-> "stopped", scope |-> {}, queue |-> {}, due |-> {},
         promoted |-> 0, left |-> 0, item |-> None, state |-> "absent",
         class |-> "none", seen |-> "absent"]

(* The loop over missions, with nothing in hand.                           *)
Resting(w) == [w EXCEPT !.at = "promote", !.item = None, !.state = "absent",
                        !.class = "none", !.seen = "absent"]

Healthy == [failures |-> 0, suppressed |-> FALSE, escalated |-> FALSE]

Init ==
    /\ MaintenanceInit
    /\ control = "stopped"
    /\ halting = [w \in Owners |-> None]
    /\ cycles = <<>>
    /\ worker = [c \in Callers |-> Away]
    /\ health = [p \in Projects |-> Healthy]
    /\ open = [p \in Projects |-> TRUE]
    /\ moves = 0
    /\ faults = 0

-----------------------------------------------------------------------------
(* The Owner.                                                              *)

(* transition: the control state and its record.                           *)
Transition(w, to) ==
    /\ moves < MaxMoves /\ moves' = moves + 1
    /\ halting[w] = None
    /\ to \in AllowedControl[control]
    /\ control' = to
    /\ halting' = [halting EXCEPT ![w] =
                     IF to = "emergency_stopped" THEN "engage"
                     ELSE IF control = "emergency_stopped" THEN "release" ELSE None]
    /\ UNCHANGED <<maintenanceVars, cycles, worker, health, open, faults>>

(* store.emergency_stop, the second transaction of the same call.          *)
SettleStop(w) ==
    /\ halting[w] # None
    /\ portfolioStop' = (halting[w] = "engage")
    /\ halting' = [halting EXCEPT ![w] = None]
    /\ UNCHANGED <<repairs, missions, projectState, desk,
                   control, cycles, worker, health, open, moves, faults>>

OwnerDies(w) ==
    /\ halting[w] # None
    /\ faults < MaxFaults
    /\ halting' = [halting EXCEPT ![w] = None]
    /\ faults' = faults + 1
    /\ UNCHANGED <<maintenanceVars, control, cycles, worker, health, open, moves>>

(* hold: the project state the scheduler and the planes read.              *)
Hold(p) ==
    /\ moves < MaxMoves /\ moves' = moves + 1
    /\ projectState' = [projectState EXCEPT ![p] =
                          IF @ = "enabled" THEN "paused" ELSE "enabled"]
    /\ UNCHANGED <<repairs, missions, portfolioStop, desk,
                   control, halting, cycles, worker, health, open, faults>>

(* set_enabled, or the hour of the execution window passing.               *)
OpenOrClose(p) ==
    /\ moves < MaxMoves /\ moves' = moves + 1
    /\ open' = [open EXCEPT ![p] = ~@]
    /\ UNCHANGED <<maintenanceVars, control, halting, cycles, worker, health, faults>>

(* clear_health updates a row; it creates none.                            *)
ClearHealth(p) ==
    /\ moves < MaxMoves /\ moves' = moves + 1
    /\ health' = [health EXCEPT ![p] = Healthy]
    /\ UNCHANGED <<maintenanceVars, control, halting, cycles, worker, open, faults>>

(* suppressed_until passes.                                                *)
SuppressionEnds(p) ==
    /\ health[p].suppressed
    /\ health' = [health EXCEPT ![p].suppressed = FALSE]
    /\ UNCHANGED <<maintenanceVars, control, halting, cycles, worker, open, moves, faults>>

-----------------------------------------------------------------------------
(* The cycle.                                                              *)

IsOpenCycle(i) == cycles[i].outcome = "open"

(* _recovery_outcome_locked: may a provider still be running?              *)
RecoveryOutcome ==
    IF \E m \in Missions : missions[m].state = "past"
    THEN "recovered_uncertain" ELSE "recovered_replayable"

(* _claim_cycle: refused while somebody's lease lasts; what is left open   *)
(* beyond its lease is settled in the same transaction.                    *)
ClaimCycle(c) ==
    /\ worker[c].at = "away"
    /\ Len(cycles) < MaxCycles
    /\ \A i \in DOMAIN cycles : IsOpenCycle(i) => ~cycles[i].live
    /\ cycles' = Append([i \in DOMAIN cycles |->
                           IF IsOpenCycle(i)
                           THEN [outcome |-> RecoveryOutcome, live |-> FALSE]
                           ELSE cycles[i]],
                        [outcome |-> "open", live |-> TRUE])
    /\ worker' = [worker EXCEPT ![c] =
                    [Away EXCEPT !.at = IF control \in Operating THEN "recover"
                                        ELSE "close",
                                 !.cycle = Len(cycles) + 1,
                                 !.control = control]]
    /\ UNCHANGED <<maintenanceVars, ownerVars, health, faults>>

(* _renew_cycle, the heartbeat: an open row is renewed, run out or not.     *)
(* One who finds its row settled raises when its work is done, and then    *)
(* closes nothing.                                                         *)
Renew(c) ==
    LET i == worker[c].cycle
    IN /\ worker[c].at # "away"
       /\ IsOpenCycle(i) /\ ~cycles[i].live
       /\ cycles' = [cycles EXCEPT ![i].live = TRUE]
       /\ UNCHANGED <<maintenanceVars, ownerVars, worker, health, faults>>

(* store.recover_stale: leases of the dead that have run out by now.       *)
RecoverStale(c) ==
    /\ worker[c].at = "recover"
    /\ \E stale \in SUBSET {m \in Missions : missions[m].lease = "orphaned"}:
         missions' = [m \in Missions |->
             IF m \notin stale THEN missions[m]
             ELSE [state |-> IF missions[m].state = "working" THEN "admitted"
                             ELSE missions[m].state,
                   lease |-> "free"]]
    /\ worker' = [worker EXCEPT ![c].at = "scope"]
    /\ UNCHANGED <<repairs, projectState, portfolioStop, desk,
                   ownerVars, cycles, health, faults>>

Uncertain == {m \in Missions : missions[m].state = "past" /\ missions[m].lease = "free"}

EligibleEscalated(p) == /\ open[p]
                        /\ projectState[p] = "enabled"
                        /\ ~health[p].suppressed

(* _eligible_projects.                                                     *)
Eligible(p) == /\ open[p]
               /\ projectState[p] = "enabled"
               /\ ~health[p].escalated
               /\ ~health[p].suppressed

BudgetInclusive(c, scope) ==
    IF scope # {} \/ worker[c].control = "draining" THEN PerCycle + 1 ELSE 0

Budget(c, scope) == IF scope # {} \/ worker[c].control = "draining" THEN PerCycle ELSE 0

(* The uncertain missions and the scope are read once; the rest of the     *)
(* cycle acts on them.                                                     *)
ReadScope(c) ==
    LET scope == {p \in Projects : Eligible(p)}
        promote == worker[c].control = "running" /\ Uncertain = {}
    IN /\ worker[c].at = "scope"
       /\ worker' = [worker EXCEPT
            ![c].scope = scope,
            ![c].queue = IF promote THEN scope ELSE {},
            ![c].left = Budget(c, scope),
            ![c].at = "promote"]
       /\ UNCHANGED <<maintenanceVars, ownerVars, cycles, health, faults>>

(* _promote_repairs: what is due in the next project.                      *)
PromoteProject(c, p) ==
    /\ worker[c].at = "promote"
    /\ worker[c].due = {}
    /\ p \in worker[c].queue
    /\ worker' = [worker EXCEPT
         ![c].queue = @ \ {p},
         ![c].promoted = 0,
         ![c].due = {r \in Triggers : /\ ProjectOf[r] = p
                                      /\ OpenRepair(r)
                                      /\ repairs[r].state = "admitted"
                                      /\ ~repairs[r].mission}]
    /\ UNCHANGED <<maintenanceVars, ownerVars, cycles, health, faults>>

(* _promote_each, one repair: refused at the ceiling, or because somebody  *)
(* closed it since it was due, or its mission is submitted.                *)
Promote(c, r) ==
    LET refused == worker[c].promoted >= Admissions \/ repairs[r].disposition # None
        bound == repairs[r].mission
    IN /\ worker[c].at = "promote"
       /\ r \in worker[c].due
       /\ worker' = [worker EXCEPT
            ![c].due = @ \ {r},
            ![c].promoted = IF worker[c].due = {r} THEN 0
                            ELSE IF refused THEN @ ELSE @ + 1,
            ![c].item = IF refused \/ bound THEN None ELSE r,
            ![c].at = IF refused \/ bound THEN "promote" ELSE "submit"]
       /\ UNCHANGED <<maintenanceVars, ownerVars, cycles, health, faults>>

SubmitRepair(c) ==
    /\ worker[c].at = "submit"
    /\ missions' = Submitted(worker[c].item)
    /\ worker' = [worker EXCEPT ![c].at = "bind"]
    /\ UNCHANGED <<repairs, projectState, portfolioStop, desk,
                   ownerVars, cycles, health, faults>>

BindRepair(c) ==
    /\ worker[c].at = "bind"
    /\ repairs' = Bound(worker[c].item)
    /\ worker' = [worker EXCEPT ![c].at = "promote", ![c].item = None]
    /\ UNCHANGED <<missions, projectState, portfolioStop, desk,
                   ownerVars, cycles, health, faults>>

-----------------------------------------------------------------------------
(* _advance: work_once on the scope read at the top.                       *)

Resumable == Uncertain
Fresh(c) == {m \in Missions : /\ missions[m].state = "admitted"
                              /\ missions[m].lease = "free"
                              /\ ~portfolioStop
                              /\ worker[c].control # "draining"
                              /\ ProjectOf[m] \in worker[c].scope
                              /\ projectState[ProjectOf[m]] = "enabled"}

(* The scheduler: what may already have run comes before anything new.     *)
Selectable(c) == IF Resumable # {} THEN Resumable ELSE Fresh(c)

Advancing(c) == /\ worker[c].at = "promote"
                /\ worker[c].queue = {} /\ worker[c].due = {}

StartWork(c, m) ==
    /\ Advancing(c) /\ worker[c].left > 0
    /\ m \in Selectable(c)
    /\ missions' = [missions EXCEPT
         ![m] = [state |-> IF @.state = "admitted" THEN "working" ELSE @.state,
                 lease |-> "held"]]
    /\ worker' = [worker EXCEPT ![c].at = "work", ![c].item = m]
    /\ UNCHANGED <<repairs, projectState, portfolioStop, desk,
                   ownerVars, cycles, health, faults>>

(* Nothing to run, or the ceiling of the cycle reached.                    *)
EndAdvance(c) ==
    /\ Advancing(c)
    /\ worker[c].left = 0 \/ Selectable(c) = {}
    /\ worker' = [worker EXCEPT ![c].at = "close"]
    /\ UNCHANGED <<maintenanceVars, ownerVars, cycles, health, faults>>

(* The mission reaches the provider.                                       *)
CrossBoundary(c) ==
    /\ worker[c].at = "work"
    /\ missions[worker[c].item].state = "working"
    /\ missions' = [missions EXCEPT ![worker[c].item].state = "past"]
    /\ UNCHANGED <<repairs, projectState, portfolioStop, desk, ownVars>>

(* What work_once may return: the state left behind and what it means.     *)
Returns(state) ==
    IF state = "working"
    THEN {<<"admitted", "retrying">>, <<"ended", "infrastructure">>,
          <<"ended", "ceiling">>, <<"ended", "settled">>}
    ELSE {<<"completed", "progressed">>, <<"past", "progressed">>,
          <<"ended", "infrastructure">>, <<"ended", "settled">>}

FinishWork(c) ==
    LET m == worker[c].item
    IN /\ worker[c].at = "work"
       /\ \E r \in Returns(missions[m].state):
            /\ missions' = [missions EXCEPT ![m] = [state |-> r[1], lease |-> "free"]]
            /\ worker' = [worker EXCEPT ![c].at = "health", ![c].state = r[1],
                                        ![c].class = r[2], ![c].left = @ - 1]
       /\ UNCHANGED <<repairs, projectState, portfolioStop, desk,
                      ownerVars, cycles, health, faults>>

(* _record_health: what it writes of a project in the cycle's scope.       *)
HealthAfter(h, class) ==
    IF class # "infrastructure"
    THEN [h EXCEPT !.failures = 0, !.suppressed = FALSE]
    ELSE [failures |-> h.failures + 1,
          suppressed |-> h.failures + 1 >= Threshold,
          escalated |-> h.failures + 1 >= 2 * Threshold]

RecordHealth(c) ==
    LET p == ProjectOf[worker[c].item]
    IN /\ worker[c].at = "health"
       /\ health' = IF p \in worker[c].scope
                    THEN [health EXCEPT ![p] = HealthAfter(@, worker[c].class)]
                    ELSE health
       /\ worker' = [worker EXCEPT ![c] =
                       IF worker[c].item \in Triggers /\ worker[c].state \in Settled
                       THEN [@ EXCEPT !.at = "read", !.class = "none"]
                       ELSE Resting(@)]
       /\ UNCHANGED <<maintenanceVars, ownerVars, cycles, faults>>

(* _record_work_outcome: the repair is read, then written.                 *)
ReadRepair(c) ==
    /\ worker[c].at = "read"
    /\ worker' = [worker EXCEPT ![c].at = "record",
                                ![c].seen = repairs[worker[c].item].state]
    /\ UNCHANGED <<maintenanceVars, ownerVars, cycles, health, faults>>

(* A completed mission's evaluator passed; another may have ended before   *)
(* it ran, at it, or after it (its evidence was refused).                  *)
Verdicts(state) == IF state = "completed" THEN {TRUE} ELSE BOOLEAN

RecordOutcome(c) ==
    LET w == worker[c]
    IN /\ w.at = "record"
       /\ \E v \in Verdicts(w.state):
            repairs' = OutcomeRecorded(w.item, w.seen, w.state, v)
       /\ worker' = [worker EXCEPT ![c] = Resting(@)]
       /\ UNCHANGED <<missions, projectState, portfolioStop, desk,
                      ownerVars, cycles, health, faults>>

ClosedWhatever(i, o) == [cycles EXCEPT ![i] = [outcome |-> o, live |-> FALSE]]

(* _close_cycle: only a row that is still open is written.                 *)
Closed(i, o) == IF IsOpenCycle(i) THEN [cycles EXCEPT ![i] = [outcome |-> o, live |-> FALSE]]
                ELSE cycles

CloseCycle(c) ==
    /\ worker[c].at = "close"
    /\ cycles' = Closed(worker[c].cycle,
                        IF worker[c].control \in Operating THEN "completed" ELSE "idle")
    /\ worker' = [worker EXCEPT ![c] = Away]
    /\ UNCHANGED <<maintenanceVars, ownerVars, health, faults>>

(* An exception closes the cycle as refused; a death closes nothing.  The  *)
(* mission being worked on keeps a lease nobody renews.                    *)
Orphaned(c) ==
    IF worker[c].at = "work"
    THEN [missions EXCEPT ![worker[c].item].lease = "orphaned"] ELSE missions

Abandon(c) ==
    /\ worker[c].at \notin {"away", "close"}
    /\ faults < MaxFaults
    /\ faults' = faults + 1
    /\ missions' = Orphaned(c)
    /\ \/ cycles' = Closed(worker[c].cycle, "refused")
       \/ UNCHANGED cycles
    /\ worker' = [worker EXCEPT ![c] = Away]
    /\ UNCHANGED <<repairs, projectState, portfolioStop, desk,
                   ownerVars, health>>

(* A cycle's lease runs out: its caller died or its heartbeat stalled.     *)
CycleLeaseEnds(i) ==
    LET held == \E c \in Callers : worker[c].cycle = i
    IN /\ IsOpenCycle(i) /\ cycles[i].live
       /\ held => faults < MaxFaults
       /\ faults' = IF held THEN faults + 1 ELSE faults
       /\ cycles' = [cycles EXCEPT ![i].live = FALSE]
       /\ UNCHANGED <<maintenanceVars, ownerVars, worker, health>>

-----------------------------------------------------------------------------
CycleStep(c) ==
    \/ ClaimCycle(c) \/ Renew(c) \/ RecoverStale(c) \/ ReadScope(c)
    \/ \E p \in Projects : PromoteProject(c, p)
    \/ \E r \in Triggers : Promote(c, r)
    \/ SubmitRepair(c) \/ BindRepair(c)
    \/ \E m \in Missions : StartWork(c, m)
    \/ EndAdvance(c) \/ CrossBoundary(c) \/ FinishWork(c) \/ RecordHealth(c)
    \/ ReadRepair(c) \/ RecordOutcome(c) \/ CloseCycle(c)

OwnerStep ==
    \/ \E w \in Owners : \/ \E to \in ControlStates : Transition(w, to)
                         \/ SettleStop(w) \/ OwnerDies(w)
    \/ \E p \in Projects : Hold(p) \/ OpenOrClose(p) \/ ClearHealth(p)
                           \/ SuppressionEnds(p)

MaintenanceStep ==
    /\ \/ \E r \in Triggers : AdmitTrigger(r)
       \/ \E o \in Operators : \/ \E r \in Triggers : StageBegin(o, r) \/ CloseBegin(o, r)
                               \/ StageWrite(o) \/ CloseWrite(o) \/ DeskLost(o)
    /\ UNCHANGED ownVars

Fault == \/ \E c \in Callers : Abandon(c)
         \/ \E i \in DOMAIN cycles : CycleLeaseEnds(i)

Next == (\E c \in Callers : CycleStep(c)) \/ OwnerStep \/ MaintenanceStep \/ Fault

Spec == Init /\ [][Next]_vars
=============================================================================
