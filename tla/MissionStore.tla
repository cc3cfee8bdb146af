--------------------------- MODULE MissionStore ---------------------------
(***************************************************************************)
(* The durable mission ledger of factory_controller/store.py.              *)
(*                                                                         *)
(* Every public verb of MissionStore is one BEGIN IMMEDIATE transaction,   *)
(* so every verb is one atomic state change here.  The verbs a Controller  *)
(* calls while it holds a lease (claim, transition, retry, defer,          *)
(* begin_step, complete_step, record_run) are action fragments over the    *)
(* rows, composed with the Controller's own program counter in module      *)
(* Controller; the verbs an operator or a background poll calls (submit,   *)
(* cancel, recover_stale, add_dependency, record_reconciliation,           *)
(* resume_pre_provider) are whole actions on the rows.                     *)
(*                                                                         *)
(* Abstractions.  A lease token (a fresh uuid4) is the number of leases    *)
(* ever granted on the mission, 0 standing for NULL.  Wall-clock expiry is *)
(* the flag expired[m], raised by the passing of time and lowered by a     *)
(* renewal.  The routing legs of the runs table are kept as what the code  *)
(* asks of them: is there any leg, did every leg prove that no process     *)
(* started, and which profile served the last one that did not.            *)
(***************************************************************************)
EXTENDS Integers, FiniteSets

CONSTANTS
    Missions,      \* mission identities
    Profiles,      \* execution profiles a mission declares as candidates
    MaxAttempts,   \* RetryPolicy.max_attempts, the column max_attempts
    None           \* SQL NULL: no mission, no profile

ASSUME StoreAssumption ==
    /\ MaxAttempts \in Nat \ {0}
    /\ None \notin Missions
    /\ None \notin Profiles

VARIABLES
    state,           \* missions.state; "absent" before submit
    lease,           \* missions.lease_token, 0 is NULL
    expired,         \* missions.lease_expires_at <= now
    serial,          \* how many leases the mission was ever granted
    attempts,        \* missions.attempt_count
    deferrals,       \* missions.deferrals
    cancelRequested, \* missions.cancel_requested
    steps,           \* the steps table: status and recorded output
    routed,          \* the profile in the recorded input of the open dispatch step
    freeLeg,         \* some leg has process_started = 0
    keptLeg,         \* some leg has process_started NULL or 1
    servedBy,        \* the profile of the last such leg
    bound,           \* a context_bindings row exists
    proof,           \* a replay_reconciliations row exists
    edges            \* the dependencies table

leaseVars == <<lease, expired, serial>>
missionVars == <<state, attempts, deferrals, cancelRequested>>
legVars == <<freeLeg, keptLeg, servedBy>>
repairVars == <<bound, proof>>
storeVars == <<leaseVars, missionVars, legVars, repairVars, steps, routed, edges>>

-----------------------------------------------------------------------------
(* The state vocabulary.                                                    *)

TERMINAL == {"completed", "refused", "failed", "cancelled"}

RECOVERABLE == {"dispatched", "candidate_verified", "evaluated", "evidence_sealed"}

States == {"absent", "admitted", "dispatching", "escalated"} \cup RECOVERABLE \cup TERMINAL

ALLOWED_TRANSITIONS == [s \in States |->
    CASE s = "dispatching"        -> {"dispatched", "admitted", "refused", "failed", "cancelled"}
      [] s = "dispatched"         -> {"candidate_verified", "refused", "failed", "escalated"}
      [] s = "candidate_verified" -> {"evaluated", "refused", "failed", "escalated"}
      [] s = "evaluated"          -> {"evidence_sealed", "refused", "failed", "escalated"}
      [] s = "evidence_sealed"    -> {"completed", "escalated"}
      [] s = "escalated"          -> {"failed", "cancelled"}
      [] OTHER                    -> {}]

\* resume_pre_provider may reopen these.
TERMINAL_RECOVERABLE == {"refused", "failed", "escalated"}

-----------------------------------------------------------------------------
(* Durable steps.  A step row is absent ("none"), STARTED, or COMPLETED with *)
(* the output it recorded:                                                   *)
(*   ok         the step's positive output (a candidate, verified, passed,   *)
(*              accepted)                                                    *)
(*   bad        a negative output that proves nothing about a process        *)
(*   stale      a context refusal STALE_HEAD                                 *)
(*   blocked    a dispatch the layer answered with status "blocked"          *)
(*   unstarted  a dispatch refusal whose receipt proves that no process ran  *)
(*   sealed     a dispatch refused as a diverged replay, with the candidate  *)
(*              its provider sealed in the envelope                          *)
(*   retryable  an evidence refusal flagged retryable                        *)

ContextSteps == {"context", "context-recovery"}
DISPATCH_STEP_NAMES == {"dispatch", "dispatch-recovery", "dispatch-reconcile"}
StepNames == ContextSteps \cup DISPATCH_STEP_NAMES \cup {"verify", "evaluate", "evidence"}

Outputs == {"ok", "bad", "stale", "blocked", "unstarted", "sealed", "retryable"}
StepStatus == {"none", "started"} \cup Outputs

\* The name of the dispatch step that describes the current attempt.
effective_dispatch_step(m, reconciled) ==
    IF steps[m]["dispatch-reconcile"] # "none" \/ reconciled THEN "dispatch-reconcile"
    ELSE IF \/ steps[m]["dispatch-recovery"] # "none"
            \/ steps[m]["dispatch"] = "unstarted"
         THEN "dispatch-recovery"
         ELSE "dispatch"

\* The settled row resume and reconciliation reason about: the effective one,
\* or the original when the effective identity has no row yet.
CurrentRecord(m) ==
    LET name == effective_dispatch_step(m, FALSE)
    IN  IF steps[m][name] = "none" THEN steps[m]["dispatch"] ELSE steps[m][name]

NoLeg(m) == ~freeLeg[m] /\ ~keptLeg[m]

DispatchStarted(m) == \E s \in DISPATCH_STEP_NAMES : steps[m][s] = "started"

\* A started dispatch with no durable proof that it was harmless.
uncertain_dispatch(m) == DispatchStarted(m) /\ (NoLeg(m) \/ keptLeg[m])

-----------------------------------------------------------------------------
(* The dependency graph.                                                    *)

ON_FAILURE == {"block", "cancel", "ignore"}
Edge == [of : Missions, on : Missions, on_failure : ON_FAILURE, released : BOOLEAN]

\* b is reached from a: every set that holds a and is closed under E holds b.
Reaches(E, a, b) ==
    \A S \in SUBSET Missions :
        (a \in S /\ \A e \in E : e.of \in S => e.on \in S) => b \in S

\* Mutant: the search walks from the wrong end of the new edge.
cycle_path_reversed(m, d) == Reaches(edges, m, d)

\* portfolio.cycle_path: the edge m -> d closes a cycle when d reaches m.
cycle_path(m, d) == Reaches(edges, d, m)

Failed(d) == state[d] \in TERMINAL \ {"completed"}

\* Mutant: a dependent is ready once every edge was released.
ReadyOnRelease(m) == \A e \in edges : e.of = m => e.released

\* portfolio.dependency_reading = "ready".
Ready(m) ==
    \A e \in edges : e.of = m =>
        \/ state[e.on] = "completed"
        \/ Failed(e.on) /\ e.on_failure = "ignore"

\* _release_dependencies_locked, once per edge.
Released(m) ==
    {IF e.on = m /\ ~e.released THEN [e EXCEPT !.released = TRUE] ELSE e : e \in edges}

\* _propagate_failure_locked: the dependents whose policy is "cancel".
Cancelling(m) ==
    {d \in Missions : /\ state[d] \notin TERMINAL
                      /\ \E e \in edges : e.of = d /\ e.on = m /\ e.on_failure = "cancel"}

-----------------------------------------------------------------------------
(* What the scheduler may hand out.  Priorities, budgets, concurrency caps,  *)
(* project state, the emergency stop and capacity only ever remove           *)
(* candidates; they are left open.                                           *)

\* Mutant: a dispatch of unknown outcome is not offered for recovery.
CandidateAfterBoundary(m) ==
    lease[m] = 0 /\ ~cancelRequested[m] /\ state[m] \in {"admitted"} \cup RECOVERABLE

Candidate(m) ==
    /\ lease[m] = 0
    /\ ~cancelRequested[m]
    /\ \/ state[m] \in {"admitted"} \cup RECOVERABLE
       \/ state[m] = "dispatching" /\ uncertain_dispatch(m)

Resume(m) == Candidate(m) /\ state[m] # "admitted"

\* A resume goes ahead of every gate, and as long as one waits nothing fresh is
\* admitted.
Schedulable(m) ==
    \/ Resume(m)
    \/ /\ Candidate(m)
       /\ Ready(m)
       /\ \A x \in Missions : ~Resume(x)

-----------------------------------------------------------------------------
(* Verbs of a lease holder, as fragments.                                    *)

\* Mutant: the attempt number serves as the token, so a resume reuses it.
GrantLeaseByAttempt(m) ==
    /\ lease[m] = 0
    /\ serial' = [serial EXCEPT ![m] = @ + 1]
    /\ attempts' = [attempts EXCEPT ![m] = IF state[m] = "admitted" THEN @ + 1 ELSE @]
    /\ lease' = [lease EXCEPT ![m] = attempts'[m]]
    /\ expired' = [expired EXCEPT ![m] = FALSE]
    /\ state' = [state EXCEPT ![m] = IF @ = "admitted" THEN "dispatching" ELSE @]
    /\ UNCHANGED <<deferrals, cancelRequested, legVars, repairVars, steps, routed, edges>>

\* The guarded UPDATE of claim: a new token, and for a fresh attempt the move
\* to dispatching and the attempt row.
GrantLease(m) ==
    /\ lease[m] = 0
    /\ serial' = [serial EXCEPT ![m] = @ + 1]
    /\ lease' = [lease EXCEPT ![m] = serial[m] + 1]
    /\ expired' = [expired EXCEPT ![m] = FALSE]
    /\ state' = [state EXCEPT ![m] = IF @ = "admitted" THEN "dispatching" ELSE @]
    /\ attempts' = [attempts EXCEPT ![m] = IF state[m] = "admitted" THEN @ + 1 ELSE @]
    /\ UNCHANGED <<deferrals, cancelRequested, legVars, repairVars, steps, routed, edges>>

ClearLease(m) ==
    /\ lease' = [lease EXCEPT ![m] = 0]
    /\ expired' = [expired EXCEPT ![m] = FALSE]
    /\ UNCHANGED serial

KeepLease == UNCHANGED leaseVars

\* The rows written by transition: the mission itself, and at a terminal state
\* its dependents.
TransitionRows(m, new) ==
    LET struck == IF new \in TERMINAL \ {"completed"} THEN Cancelling(m) ELSE {}
    IN  /\ state' = [x \in Missions |->
                        IF x = m THEN new
                        ELSE IF x \in struck /\ state[x] = "admitted" /\ lease[x] = 0
                             THEN "cancelled" ELSE state[x]]
        /\ cancelRequested' = [x \in Missions |-> cancelRequested[x] \/ x \in struck]
        /\ edges' = IF new = "completed" THEN Released(m) ELSE edges
        /\ UNCHANGED <<attempts, deferrals, legVars, repairVars, steps, routed>>

CanTransition(m, new) == new \in ALLOWED_TRANSITIONS[state[m]]

\* retry: a deferral does not count against the budget of attempts.
RetryRows(m) ==
    /\ state' = [state EXCEPT ![m] =
                    IF attempts[m] - deferrals[m] >= MaxAttempts THEN "escalated" ELSE "admitted"]
    /\ ClearLease(m)
    /\ UNCHANGED <<attempts, deferrals, cancelRequested, legVars, repairVars, steps, routed, edges>>

\* defer: only from dispatching, and only when every leg proved nothing ran.
CanDefer(m) == state[m] = "dispatching" /\ ~keptLeg[m]

\* Mutant: the deferral is taken off the allowance.
DeferRowsDown(m) ==
    /\ state' = [state EXCEPT ![m] = "admitted"]
    /\ deferrals' = [deferrals EXCEPT ![m] = @ - 1]
    /\ ClearLease(m)
    /\ UNCHANGED <<attempts, cancelRequested, legVars, repairVars, steps, routed, edges>>

DeferRows(m) ==
    /\ state' = [state EXCEPT ![m] = "admitted"]
    /\ deferrals' = [deferrals EXCEPT ![m] = @ + 1]
    /\ ClearLease(m)
    /\ UNCHANGED <<attempts, cancelRequested, legVars, repairVars, steps, routed, edges>>

\* begin_step inserts the row once; a row that exists is returned as it is.
\* The recorded input of a dispatch step names the profile it was routed to.
BeginRows(m, s, p) ==
    /\ steps' = [steps EXCEPT ![m][s] = IF @ = "none" THEN "started" ELSE @]
    /\ routed' = [routed EXCEPT ![m] =
                    IF s \in DISPATCH_STEP_NAMES /\ steps[m][s] = "none" THEN p ELSE @]
    /\ UNCHANGED <<missionVars, legVars, repairVars, edges>>

CompleteRows(m, s, output) ==
    /\ steps' = [steps EXCEPT ![m][s] = output]
    /\ UNCHANGED <<leaseVars, missionVars, legVars, repairVars, routed, edges>>

\* record_run appends one leg.  It takes no lease token.
RecordRows(m, p, free) ==
    /\ freeLeg' = [freeLeg EXCEPT ![m] = @ \/ free]
    /\ keptLeg' = [keptLeg EXCEPT ![m] = @ \/ ~free]
    /\ servedBy' = [servedBy EXCEPT ![m] = IF free THEN @ ELSE p]
    /\ UNCHANGED <<leaseVars, missionVars, repairVars, steps, routed, edges>>

-----------------------------------------------------------------------------
(* Verbs of the operator and of the background poll.                         *)

InitStore ==
    /\ state = [m \in Missions |-> "absent"]
    /\ lease = [m \in Missions |-> 0]
    /\ expired = [m \in Missions |-> FALSE]
    /\ serial = [m \in Missions |-> 0]
    /\ attempts = [m \in Missions |-> 0]
    /\ deferrals = [m \in Missions |-> 0]
    /\ cancelRequested = [m \in Missions |-> FALSE]
    /\ steps = [m \in Missions |-> [s \in StepNames |-> "none"]]
    /\ routed = [m \in Missions |-> None]
    /\ freeLeg = [m \in Missions |-> FALSE]
    /\ keptLeg = [m \in Missions |-> FALSE]
    /\ servedBy = [m \in Missions |-> None]
    /\ bound = [m \in Missions |-> FALSE]
    /\ proof = [m \in Missions |-> FALSE]
    /\ edges = {}

submit(m) ==
    /\ state[m] = "absent"
    /\ state' = [state EXCEPT ![m] = "admitted"]
    /\ UNCHANGED <<leaseVars, attempts, deferrals, cancelRequested, legVars, repairVars,
                   steps, routed, edges>>

\* Terminal missions are left alone, a mission past the boundary refuses with
\* CANCELLATION_AFTER_SIDE_EFFECT, an admitted one is cancelled at once, and for
\* any other the flag is raised for the running attempt to observe.
cancel(m) ==
    /\ state[m] \in {"admitted", "dispatching", "escalated"}
    /\ ~cancelRequested[m] \/ state[m] = "admitted"
    /\ state' = [state EXCEPT ![m] = IF @ = "admitted" THEN "cancelled" ELSE @]
    /\ cancelRequested' = [cancelRequested EXCEPT ![m] = TRUE]
    /\ UNCHANGED <<leaseVars, attempts, deferrals, legVars, repairVars, steps, routed, edges>>

\* Mutant: every leased mission is taken for stale.
StaleWhileLive(m) == lease[m] # 0 /\ state[m] \notin TERMINAL

Stale(m) == lease[m] # 0 /\ expired[m] /\ state[m] \notin TERMINAL

\* Mutant: a mission past the boundary is re-admitted like any other.
RecoveredToAdmission(m) ==
    IF cancelRequested[m] THEN "cancelled"
    ELSE IF state[m] = "dispatching" /\ uncertain_dispatch(m) THEN "dispatching"
    ELSE "admitted"

RecoveredState(m) ==
    IF cancelRequested[m] THEN "cancelled"
    ELSE IF state[m] = "dispatching" /\ uncertain_dispatch(m) THEN "dispatching"
    ELSE IF state[m] \in RECOVERABLE THEN state[m]
    ELSE "admitted"

\* One transaction over every expired lease of an unsettled mission.
recover_stale ==
    /\ \E m \in Missions : Stale(m)
    /\ state' = [m \in Missions |-> IF Stale(m) THEN RecoveredState(m) ELSE state[m]]
    /\ lease' = [m \in Missions |-> IF Stale(m) THEN 0 ELSE lease[m]]
    /\ expired' = [m \in Missions |-> IF Stale(m) THEN FALSE ELSE expired[m]]
    /\ UNCHANGED <<serial, attempts, deferrals, cancelRequested, legVars, repairVars,
                   steps, routed, edges>>

\* Mutant: an edge declared late waits for an event that has already happened.
add_dependency_unreleased(m, d, policy) ==
    /\ state[m] # "absent" /\ state[d] # "absent"
    /\ ~cycle_path(m, d)
    /\ \A e \in edges : ~(e.of = m /\ e.on = d)
    /\ edges' = edges \cup {[of |-> m, on |-> d, on_failure |-> policy, released |-> FALSE]}
    /\ UNCHANGED <<leaseVars, missionVars, legVars, repairVars, steps, routed>>

\* INSERT OR IGNORE on the pair, released at once if the prerequisite completed.
add_dependency(m, d, policy) ==
    /\ state[m] # "absent" /\ state[d] # "absent"
    /\ ~cycle_path(m, d)
    /\ \A e \in edges : ~(e.of = m /\ e.on = d)
    /\ edges' = edges \cup {[of |-> m, on |-> d, on_failure |-> policy,
                             released |-> (state[d] = "completed")]}
    /\ UNCHANGED <<leaseVars, missionVars, legVars, repairVars, steps, routed>>

\* Outputs whose envelope may name a candidate, whatever became of the dispatch.
NamesCandidate == {"ok", "bad", "blocked", "sealed"}

\* A proof derived from the sealed response, bound to the candidate the envelope
\* of the settled dispatch names.  Append-only; there is no guard on the state,
\* nor on how the dispatch ended.
record_reconciliation(m) ==
    /\ state[m] # "absent"
    /\ ~proof[m]
    /\ CurrentRecord(m) \in NamesCandidate
    /\ proof' = [proof EXCEPT ![m] = TRUE]
    /\ UNCHANGED <<leaseVars, missionVars, legVars, bound, steps, routed, edges>>

\* Why a stopped, already bound revision mission may run again.
_pre_provider_recovery_class(m) ==
    IF CurrentRecord(m) = "unstarted" THEN ~keptLeg[m]
    ELSE CurrentRecord(m) = "sealed" /\ proof[m]

\* The first resume rebinds a mission its context refused as STALE_HEAD; later
\* ones need an eligible recovery class.
resume_pre_provider(m) ==
    /\ state[m] \in TERMINAL_RECOVERABLE
    /\ ~cancelRequested[m] /\ lease[m] = 0
    /\ \/ bound[m] /\ _pre_provider_recovery_class(m)
       \/ /\ ~bound[m]
          /\ steps[m]["context"] = "stale" /\ steps[m]["dispatch"] = "none" /\ NoLeg(m)
    /\ bound' = [bound EXCEPT ![m] = TRUE]
    /\ state' = [state EXCEPT ![m] = "admitted"]
    /\ UNCHANGED <<leaseVars, attempts, deferrals, cancelRequested, legVars, proof,
                   steps, routed, edges>>

=============================================================================
