---------------------------- MODULE Controller ----------------------------
(***************************************************************************)
(* The Controller of factory_controller/engine.py: workers that poll the   *)
(* mission ledger and drive a claimed mission through context, dispatch,   *)
(* verify, evaluate and evidence, one durable step at a time.              *)
(*                                                                         *)
(* A worker is one call of work_once.  Between two store transactions it   *)
(* runs on what it read and on what the adapter answered, all of it in     *)
(* job[w]; anything may happen to the rows meanwhile.  The execution layer *)
(* behind the adapter is external: a call may start a provider process,    *)
(* and its answer comes back, or never does.                               *)
(***************************************************************************)
EXTENDS MissionStore

CONSTANTS
    Workers,       \* Controller processes (work_once loops)
    Answers,       \* the answers the execution layer may give to a dispatch
    Env,           \* what the environment may do, see EnvVerbs
    MaxFaults,     \* bound: crashes and stalls
    MaxDeferrals,  \* bound: capacity deferrals of one mission, see PastBound
    MaxLeases      \* bound: leases granted on one mission

\* Settled answers complete the step; the other ones leave it STARTED.
\*   retry            retryable_error, nothing proved
\*   retryUnstarted   retryable_error with process_started false
\*   unavailable      provider_unavailable with process_started false
\*   unavailableAfter provider_unavailable that may have run
\*   unavailableCode  provider_unavailable with process_started false under a
\*                    refusal code that names an unknowable outcome
\*   timeout          the adapter raised RetryableFailure: no receipt at all
SettledAnswers == {"ok", "bad", "blocked", "unstarted", "sealed"}
UnavailableAnswers == {"unavailable", "unavailableAfter", "unavailableCode"}
DispatchAnswers == SettledAnswers \cup UnavailableAnswers
                     \cup {"retry", "retryUnstarted", "timeout"}

\* Answers whose receipt says process_started false.
FreeAnswers == {"unstarted", "retryUnstarted", "unavailable", "unavailableCode"}

EnvVerbs == {"crash",    \* a worker process dies
             "stall",    \* a live worker misses its renewals
             "cancel",   \* the operator cancels
             "depend",   \* the operator declares dependencies
             "repair",   \* resume_pre_provider and record_reconciliation
             "gate",     \* capacity and budget gates close
             "ceiling",  \* a mission exceeds its reported token ceiling
             "byId"}     \* work_intake and management claim a named mission

ASSUME ControllerAssumption ==
    /\ Answers \subseteq DispatchAnswers
    /\ Env \subseteq EnvVerbs
    /\ MaxFaults \in Nat /\ MaxDeferrals \in Nat /\ MaxLeases \in Nat

VARIABLES
    job,        \* what each worker is doing
    processes,  \* history: provider processes started for the mission
    faults      \* crashes and stalls so far

vars == <<storeVars, job, processes, faults>>

PC == {"idle", "claimed", "begin", "route", "send", "calling", "record", "check", "settle",
       "finish", "retryable", "nonretryable", "defer"}

Stages == {"context", "dispatch", "verify", "evaluate", "evidence"}

\* fresh: a selection; reconcile: the recorded route, recover_only; recover: the
\* profile of the committed leg, recover_only.
Modes == {"none", "fresh", "reconcile", "recover"}

Job == [pc : PC, on : Missions \cup {None}, tok : Nat, resume_state : States,
        stage : Stages, step : StepNames, attempted : SUBSET (Profiles \cup {None}),
        profile : Profiles \cup {None}, mode : Modes, ran : BOOLEAN,
        heard : {"none"} \cup Outputs \cup DispatchAnswers]

Idle == [pc |-> "idle", on |-> None, tok |-> 0, resume_state |-> "absent",
         stage |-> "context", step |-> "context", attempted |-> {},
         profile |-> None, mode |-> "none", ran |-> FALSE, heard |-> "none"]

Init == InitStore /\ job = [w \in Workers |-> Idle]
                  /\ processes = [m \in Missions |-> 0] /\ faults = 0

At(w, pc) == job[w].pc = pc
Mission(w) == job[w].on
Holds(w) == lease[Mission(w)] = job[w].tok

Goto(w, pc) == job' = [job EXCEPT ![w].pc = pc]
Return(w) == job' = [job EXCEPT ![w] = Idle]
Enter(w, stage) ==
    job' = [job EXCEPT ![w].pc = IF stage = "dispatch" THEN "route" ELSE "begin",
                       ![w].stage = stage, ![w].heard = "none"]

NoEffect == UNCHANGED <<processes, faults>>

\* LeaseLostError leaves work_once: nothing is written.
LeaseLost(w) == /\ ~Holds(w) /\ Return(w) /\ UNCHANGED storeVars /\ NoEffect

\* transition: fenced by the token, refused with ValueError by the transition
\* table (the exception leaves work_once and the lease stays), applied otherwise.
TransitionTo(w, new, release) ==
    LET m == Mission(w) IN
    /\ Holds(w) /\ CanTransition(m, new)
    /\ TransitionRows(m, new)
    /\ IF release THEN ClearLease(m) ELSE KeepLease

InvalidTransition(w, new) ==
    Holds(w) /\ ~CanTransition(Mission(w), new) /\ Return(w) /\ UNCHANGED storeVars

\* A transition that ends this work_once.
EndWith(w, new) ==
    /\ \/ TransitionTo(w, new, TRUE) /\ Return(w)
       \/ InvalidTransition(w, new)
    /\ NoEffect

-----------------------------------------------------------------------------
(* Claiming.                                                                *)

Lease(w, m) ==
    /\ At(w, "idle")
    /\ serial[m] < MaxLeases
    /\ GrantLease(m)
    /\ job' = [job EXCEPT ![w] = [Idle EXCEPT !.pc = "claimed", !.on = m, !.tok = lease'[m],
                                             !.resume_state = state'[m]]]
    /\ NoEffect

\* The scheduler picks inside the claiming transaction.
Claim(w, m) == Schedulable(m) /\ Lease(w, m)

\* claim(mission_id=...) skips the scheduler, and with it every test of the state
\* and of cancel_requested.
ClaimNamed(w, m) == "byId" \in Env /\ state[m] # "absent" /\ Lease(w, m)

\* The first read after the claim.
ObserveCancel(w) ==
    /\ At(w, "claimed")
    /\ IF cancelRequested[Mission(w)]
       THEN EndWith(w, "cancelled") \/ LeaseLost(w)
       ELSE Enter(w, "context") /\ UNCHANGED storeVars /\ NoEffect

-----------------------------------------------------------------------------
(* One durable step other than dispatch.                                    *)

\* A rebound mission re-asks for its context under a second identity.
ContextStep(m) ==
    IF bound[m] /\ steps[m]["context"] = "stale" THEN "context-recovery" ELSE "context"

StepName(w) == IF job[w].stage = "context" THEN ContextStep(Mission(w)) ELSE job[w].stage

AfterStep(stage) == IF stage = "verify" THEN "check" ELSE "settle"

StepOutputs(stage) ==
    CASE stage = "context"  -> {"ok", "bad", "stale"}
      [] stage = "evidence" -> {"ok", "bad", "retryable"}
      [] OTHER              -> {"ok", "bad"}

\* A COMPLETED row is returned and never re-run.
Replay(w) ==
    LET s == StepName(w) IN
    /\ At(w, "begin") /\ Holds(w)
    /\ steps[Mission(w)][s] \in Outputs
    /\ job' = [job EXCEPT ![w].pc = AfterStep(job[w].stage), ![w].step = s,
                          ![w].heard = steps[Mission(w)][s]]
    /\ UNCHANGED storeVars /\ NoEffect

\* begin_step, then the renewal that precedes the adapter call.
BeginStep(w) ==
    LET m == Mission(w)
        s == StepName(w)
    IN  /\ At(w, "begin") /\ Holds(w)
        /\ steps[m][s] \notin Outputs
        /\ BeginRows(m, s, None)
        /\ expired' = [expired EXCEPT ![m] = FALSE]
        /\ UNCHANGED <<lease, serial>>
        /\ job' = [job EXCEPT ![w].pc = "calling", ![w].step = s]
        /\ NoEffect

\* Mutant: complete_step without its lease predicate.
AnswerStepUnfenced(w) ==
    /\ At(w, "calling") /\ job[w].stage # "dispatch"
    /\ \E a \in StepOutputs(job[w].stage) :
          /\ CompleteRows(Mission(w), job[w].step, a)
          /\ job' = [job EXCEPT ![w].pc = AfterStep(job[w].stage), ![w].heard = a]
    /\ NoEffect

\* The adapter answers and complete_step records it.
AnswerStep(w) ==
    /\ At(w, "calling") /\ job[w].stage # "dispatch" /\ Holds(w)
    /\ \E a \in StepOutputs(job[w].stage) :
          /\ CompleteRows(Mission(w), job[w].step, a)
          /\ job' = [job EXCEPT ![w].pc = AfterStep(job[w].stage), ![w].heard = a]
    /\ NoEffect

\* The adapter raises RetryableFailure, or a context broker is unavailable.
\* Nothing is recorded.
AdapterFails(w) ==
    /\ At(w, "calling") /\ "timeout" \in Answers
    /\ Goto(w, "retryable")
    /\ UNCHANGED storeVars /\ NoEffect

\* The heartbeat of a live worker, fenced by the token only.
Heartbeat(w) ==
    /\ At(w, "calling") /\ Holds(w) /\ expired[Mission(w)]
    /\ expired' = [expired EXCEPT ![Mission(w)] = FALSE]
    /\ UNCHANGED <<lease, serial, missionVars, legVars, repairVars, steps, routed, edges, job>>
    /\ NoEffect

\* The token ceiling is re-read on every pass, before and after the boundary.
RefuseContext(w) ==
    /\ "ceiling" \in Env
    /\ At(w, "begin") /\ job[w].stage = "context" /\ keptLeg[Mission(w)]
    /\ Goto(w, "nonretryable")
    /\ UNCHANGED storeVars /\ NoEffect

-----------------------------------------------------------------------------
(* Dispatch.                                                                *)

\* _dispatch reads the legs and the step row once, on entry; afterwards it only
\* walks the candidates it has not attempted.
Entering(w) == job[w].attempted = {}

\* Past the boundary the committed leg decides, never a selection.
PastBoundary(w) ==
    Entering(w) /\ (job[w].resume_state # "dispatching" \/ keptLeg[Mission(w)])

DispatchName(m) == effective_dispatch_step(m, proof[m])

\* Mutant: an interrupted call is never reconciled.
NeverUnresolved(w) == FALSE

\* STARTED with no leg at all: the one case the recorded route is reused for.
Unresolved(w) ==
    LET m == Mission(w)
    IN  Entering(w) /\ steps[m][DispatchName(m)] = "started" /\ NoLeg(m)

\* What _dispatch decided on the rows as it read them; the step name is read once.
Decide(w, mode, p) ==
    /\ job' = [job EXCEPT ![w].pc = "send", ![w].mode = mode, ![w].profile = p,
                          ![w].step = IF Entering(w) THEN DispatchName(Mission(w)) ELSE @]
    /\ UNCHANGED storeVars /\ NoEffect

\* _recover: resume on the profile that served, never reroute.
Recover(w) ==
    LET m == Mission(w) IN
    /\ At(w, "route") /\ PastBoundary(w)
    /\ Decide(w, "recover", IF keptLeg[m] THEN servedBy[m] ELSE None)

\* The route recorded before an interrupted call is asked again, recover_only.
Reconcile(w) ==
    /\ At(w, "route") /\ ~PastBoundary(w) /\ Unresolved(w)
    /\ Decide(w, "reconcile", routed[Mission(w)])

MaySelect(w) == At(w, "route") /\ ~PastBoundary(w) /\ ~Unresolved(w)

\* A mission that declares no candidate leaves the choice to the layer, which is
\* asked again as long as it proves that nothing ran; otherwise one profile the
\* loop has not attempted is tried.  Which one is the policy's business.
Selectable(w) == IF Profiles = {} THEN {None} ELSE Profiles \ job[w].attempted

Select(w, p) == MaySelect(w) /\ p \in Selectable(w) /\ Decide(w, "fresh", p)

\* The dispatch row was settled before: its output is the answer.
ReplayDispatch(w) ==
    LET recorded == steps[Mission(w)][job[w].step] IN
    /\ At(w, "send") /\ Holds(w) /\ recorded \in Outputs
    /\ job' = [job EXCEPT ![w].pc = "record", ![w].ran = FALSE, ![w].heard = recorded]
    /\ UNCHANGED storeVars /\ NoEffect

\* begin_step on the dispatch row, then the adapter call.  Only a fresh selection
\* may start a process: the other modes ask the layer for the result bound to the
\* idempotency key, and so does every dispatch of a mission that carries a
\* reconciliation proof.
Send(w) ==
    LET m == Mission(w)
        s == job[w].step
    IN  /\ At(w, "send") /\ Holds(w) /\ steps[m][s] \notin Outputs
        /\ BeginRows(m, s, job[w].profile)
        /\ expired' = [expired EXCEPT ![m] = FALSE]
        /\ UNCHANGED <<lease, serial, faults>>
        /\ \E ran \in IF job[w].mode = "fresh" /\ ~proof[m] THEN BOOLEAN ELSE {FALSE} :
              /\ job' = [job EXCEPT ![w].pc = "calling", ![w].ran = ran]
              /\ processes' = [processes EXCEPT ![m] = IF ran THEN @ + 1 ELSE @]

\* The Controller's own refusals are legs without a profile that started nothing.
GateLeg(w, pc) ==
    /\ RecordRows(Mission(w), None, TRUE)
    /\ Goto(w, pc)
    /\ NoEffect

CapacityGate(w) ==
    /\ "gate" \in Env
    /\ MaySelect(w) /\ Entering(w)
    /\ GateLeg(w, "defer")

BudgetGate(w) == "gate" \in Env /\ MaySelect(w) /\ GateLeg(w, "nonretryable")

\* No candidate is admissible: each was attempted, or the policy denies the rest
\* (denied_profiles, no_fallback, max_route_legs).  When every leg was a proven
\* quota refusal the mission goes back for the reset, otherwise it is refused.
Exhausted(w) ==
    /\ MaySelect(w) /\ Profiles # {}
    /\ \/ freeLeg[Mission(w)] /\ GateLeg(w, "defer")
       \/ GateLeg(w, "nonretryable")

\* What the layer may say of this call: a process_started of false is true of
\* the key, except under a code that names an unknowable outcome, and a
\* candidate exists only if a process ran.
Truthful(w, a) ==
    LET started == IF job[w].mode = "fresh" THEN job[w].ran ELSE processes[Mission(w)] > 0
    IN  /\ a \in {"unstarted", "retryUnstarted", "unavailable"} => ~started
        /\ a \in {"ok", "sealed"} => started

\* A settled answer is recorded under the lease; an incomplete one writes
\* nothing, so a worker whose heartbeat has not failed yet goes on without it.
AnswerDispatch(w) ==
    /\ At(w, "calling") /\ job[w].stage = "dispatch"
    /\ \E a \in Answers \ {"timeout"} :
          /\ Truthful(w, a)
          /\ IF a \in SettledAnswers
             THEN Holds(w) /\ CompleteRows(Mission(w), job[w].step, a)
             ELSE UNCHANGED storeVars
          /\ job' = [job EXCEPT ![w].pc = "record", ![w].heard = a]
    /\ NoEffect

\* Where work_once goes once the leg is recorded.
AfterLeg(w) ==
    LET heard == job[w].heard
        mode == job[w].mode
    IN  IF heard \notin UnavailableAnswers THEN "check"
        ELSE IF mode = "fresh" /\ heard = "unavailable" THEN "route"
        ELSE IF mode = "reconcile" /\ heard \in FreeAnswers THEN "retryable"
        ELSE "nonretryable"

\* A recovery adds no leg when another worker appended one while it was asking.
\* The number of legs is not kept, so it may skip its own whenever there is one.
RecordLeg(w) ==
    /\ At(w, "record")
    /\ \/ RecordRows(Mission(w), job[w].profile, job[w].heard \in FreeAnswers)
       \/ job[w].mode = "recover" /\ ~NoLeg(Mission(w)) /\ UNCHANGED storeVars
    /\ job' = [job EXCEPT ![w].pc = AfterLeg(w),
                          ![w].attempted = IF AfterLeg(w) = "route" THEN @ \cup {job[w].profile}
                                           ELSE @]
    /\ NoEffect

\* A verdict on a receipt depends on the recorded answer alone, so an answer
\* that once carried the mission out of dispatching is never refused later.
Judging(w) == At(w, "record") /\ state[Mission(w)] = "dispatching"

\* _verify_receipt rejects a served leg whose profile, execution mode or key is
\* not the mission's; the leg stays on record.
RejectReceipt(w) ==
    /\ Judging(w) /\ job[w].heard \in {"ok", "bad", "blocked", "sealed", "retry"}
    /\ RecordRows(Mission(w), job[w].profile, FALSE)
    /\ Goto(w, "nonretryable")
    /\ NoEffect

\* A recovery that comes back with another profile or model leaves no leg.
RefuseSwitch(w) ==
    /\ Judging(w) /\ job[w].mode = "recover" /\ keptLeg[Mission(w)]
    /\ Goto(w, "nonretryable")
    /\ UNCHANGED storeVars /\ NoEffect

-----------------------------------------------------------------------------
(* What work_once does with a step's output.                                *)

\* _cancelled, after dispatch and after verify.
CheckCancel(w) ==
    /\ At(w, "check")
    /\ IF cancelRequested[Mission(w)]
       THEN \/ EndWith(w, IF state[Mission(w)] = "dispatching" THEN "cancelled" ELSE "escalated")
            \/ LeaseLost(w)
       ELSE Goto(w, "settle") /\ UNCHANGED storeVars /\ NoEffect

Settling(w, stage) == At(w, "settle") /\ job[w].stage = stage

\* Raise: the output decides an exception of this work_once.
Raise(w, pc) == Goto(w, pc) /\ UNCHANGED storeVars /\ NoEffect

\* Enter the next stage, after the transition to new when the mission resumed
\* from before it.
Advance(w, new, before, stage) ==
    /\ IF job[w].resume_state \in before
       THEN \/ TransitionTo(w, new, FALSE) /\ Enter(w, stage)
            \/ InvalidTransition(w, new)
       ELSE Enter(w, stage) /\ UNCHANGED storeVars
    /\ NoEffect

SettleContext(w) ==
    /\ Settling(w, "context")
    /\ IF job[w].heard = "ok" THEN Enter(w, "dispatch") /\ UNCHANGED storeVars /\ NoEffect
       ELSE Raise(w, "nonretryable")

SettleDispatch(w) ==
    LET heard == job[w].heard IN
    /\ Settling(w, "dispatch")
    /\ CASE heard = "ok" -> Advance(w, "dispatched", {"dispatching"}, "verify")
         [] heard = "blocked" -> EndWith(w, "escalated")
         [] heard \in {"retry", "retryUnstarted"} -> Raise(w, "retryable")
         [] OTHER -> Raise(w, "nonretryable")

SettleVerify(w) ==
    /\ Settling(w, "verify")
    /\ IF job[w].heard = "ok"
       THEN Advance(w, "candidate_verified", {"dispatching", "dispatched"}, "evaluate")
       ELSE Raise(w, "nonretryable")

\* Mutant: the verdict of the evaluation is not looked at.
SettleAnyEvaluation(w) ==
    /\ Settling(w, "evaluate")
    /\ Advance(w, "evaluated", {"dispatching", "dispatched", "candidate_verified"}, "evidence")

SettleEvaluate(w) ==
    /\ Settling(w, "evaluate")
    /\ IF job[w].heard = "ok"
       THEN Advance(w, "evaluated", {"dispatching", "dispatched", "candidate_verified"}, "evidence")
       ELSE EndWith(w, "escalated")

SettleEvidence(w) ==
    /\ Settling(w, "evidence")
    /\ CASE job[w].heard = "ok" ->
             IF job[w].resume_state = "evidence_sealed" THEN Raise(w, "finish")
             ELSE /\ \/ TransitionTo(w, "evidence_sealed", FALSE) /\ Goto(w, "finish")
                     \/ InvalidTransition(w, "evidence_sealed")
                  /\ NoEffect
         [] job[w].heard = "retryable" -> Raise(w, "retryable")
         [] OTHER -> Raise(w, "nonretryable")

Finish(w) == At(w, "finish") /\ EndWith(w, "completed")

Settle(w) == \/ SettleContext(w) \/ SettleDispatch(w) \/ SettleVerify(w)
             \/ SettleEvaluate(w) \/ SettleEvidence(w) \/ Finish(w)

\* except RetryableFailure: a retry before the boundary, an escalation after it.
OnRetryable(w) ==
    /\ At(w, "retryable")
    /\ IF state[Mission(w)] = "dispatching"
       THEN Holds(w) /\ RetryRows(Mission(w)) /\ Return(w) /\ NoEffect
       ELSE EndWith(w, "escalated")

OnNonRetryable(w) ==
    /\ At(w, "nonretryable")
    /\ EndWith(w, IF state[Mission(w)] = "dispatching" THEN "refused" ELSE "failed")

\* A deferral beyond the bound: the code makes it, the model stops here.
PastBound(w) ==
    /\ At(w, "defer") /\ Holds(w) /\ CanDefer(Mission(w))
    /\ deferrals[Mission(w)] >= MaxDeferrals

\* except CapacityDeferred; the store re-checks the boundary and may refuse.  The
\* code defers one mission as often as it is asked to.
OnDefer(w) ==
    /\ At(w, "defer") /\ Holds(w) /\ ~PastBound(w)
    /\ IF CanDefer(Mission(w)) THEN DeferRows(Mission(w)) ELSE UNCHANGED storeVars
    /\ Return(w) /\ NoEffect

\* Every write of a worker that lost its lease raises LeaseLostError.
Fenced(w) ==
    /\ job[w].pc \in {"begin", "send", "calling", "settle", "finish",
                      "retryable", "nonretryable", "defer"}
    /\ LeaseLost(w)

-----------------------------------------------------------------------------
(* The environment.                                                         *)

Live(m) == \E w \in Workers : ~At(w, "idle") /\ Mission(w) = m /\ Holds(w)

\* The process dies between two transactions; its rows stay as they are.
Crash(w) ==
    /\ "crash" \in Env /\ faults < MaxFaults
    /\ ~At(w, "idle")
    /\ Return(w) /\ faults' = faults + 1
    /\ UNCHANGED <<storeVars, processes>>

\* Time passes the expiry of a lease nobody renews.  That a live worker fails to
\* renew is a fault.
Expire(m) ==
    /\ lease[m] # 0 /\ ~expired[m]
    /\ IF Live(m) THEN "stall" \in Env /\ faults < MaxFaults /\ faults' = faults + 1
                   ELSE UNCHANGED faults
    /\ expired' = [expired EXCEPT ![m] = TRUE]
    /\ UNCHANGED <<lease, serial, missionVars, legVars, repairVars, steps, routed, edges,
                   job, processes>>

Operator ==
    /\ UNCHANGED job /\ NoEffect
    /\ \E m \in Missions :
         \/ submit(m)
         \/ "cancel" \in Env /\ cancel(m)
         \/ "repair" \in Env /\ (record_reconciliation(m) \/ resume_pre_provider(m))
         \/ "depend" \in Env /\ \E d \in Missions, policy \in ON_FAILURE :
                                    add_dependency(m, d, policy)

RecoverStale == recover_stale /\ UNCHANGED job /\ NoEffect

Dispatch(w) ==
    \/ Recover(w) \/ Reconcile(w) \/ \E p \in Selectable(w) : Select(w, p)
    \/ ReplayDispatch(w) \/ Send(w)
    \/ CapacityGate(w) \/ BudgetGate(w) \/ Exhausted(w)
    \/ AnswerDispatch(w) \/ RecordLeg(w) \/ RejectReceipt(w) \/ RefuseSwitch(w)

Step(w) == Replay(w) \/ BeginStep(w) \/ AnswerStep(w) \/ AdapterFails(w) \/ RefuseContext(w)

Handle(w) == OnRetryable(w) \/ OnNonRetryable(w) \/ OnDefer(w) \/ Fenced(w)

\* One call of work_once after its claim.
Work(w) == ObserveCancel(w) \/ Step(w) \/ Dispatch(w) \/ CheckCancel(w) \/ Settle(w)
             \/ Handle(w)

Next ==
    \/ \E w \in Workers : \/ \E m \in Missions : Claim(w, m) \/ ClaimNamed(w, m)
                          \/ Work(w) \/ Heartbeat(w) \/ Crash(w)
    \/ \E m \in Missions : Expire(m)
    \/ RecoverStale
    \/ Operator

\* A worker that is running keeps running (its adapter call is bounded by
\* STEP_TIMEOUT_SECONDS), time passes, and the service loop polls.
Fairness ==
    /\ \A w \in Workers : WF_vars(Work(w))
    /\ WF_vars(\E w \in Workers, m \in Missions : Claim(w, m))
    /\ \A m \in Missions : WF_vars(~Live(m) /\ Expire(m))
    /\ WF_vars(RecoverStale)

Spec == Init /\ [][Next]_vars
FairSpec == Spec /\ Fairness

=============================================================================
