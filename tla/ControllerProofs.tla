-------------------------- MODULE ControllerProofs --------------------------
(***************************************************************************)
(* Proofs about module Controller, for any missions, profiles, workers,    *)
(* answers and bounds.                                                     *)
(*                                                                         *)
(* The inductive invariant IInv is the typing and LeaseInv: no lease has a *)
(* number that was never granted, and workers on one mission carry         *)
(* different tokens.  A step is first put into a frame (Framed: the store  *)
(* keeps its types, no lease is granted, one worker moves and keeps its    *)
(* mission and token), and the invariant is then a matter of frames.       *)
(*                                                                         *)
(* What is proved of the ledger builds on it, one invariant on the other:  *)
(* ILedger (edges and their release, missions that only move forward), the *)
(* order that keeps the graph without a cycle, the steps on record behind  *)
(* a completion, the processes a mission's legs account for, and last what *)
(* stands still and why.                                                   *)
(***************************************************************************)
EXTENDS ControllerProperties, FiniteSetTheorems, TLAPS

LEMMA GrantLeaseType ==
    ASSUME StoreTypeOK, NEW m \in Missions, GrantLease(m)
    PROVE  /\ StoreTypeOK'
           /\ lease'[m] \in Nat /\ state'[m] \in States
  BY StoreAssumption DEF StoreTypeOK, GrantLease, legVars, repairVars, States, RECOVERABLE, TERMINAL

LEMMA ClearLeaseType ==
    ASSUME StoreTypeOK, NEW m \in Missions, ClearLease(m)
    PROVE  /\ lease' \in [Missions -> Nat]
           /\ expired' \in [Missions -> BOOLEAN]
           /\ serial' \in [Missions -> Nat]
  BY DEF StoreTypeOK, ClearLease

LEMMA TransitionRowsType ==
    ASSUME StoreTypeOK, NEW m \in Missions, NEW new \in States, TransitionRows(m, new)
    PROVE  /\ state' \in [Missions -> States]
           /\ cancelRequested' \in [Missions -> BOOLEAN]
           /\ edges' \in SUBSET Edge
           /\ UNCHANGED <<attempts, deferrals, legVars, repairVars, steps, routed>>
<1>1. "cancelled" \in States
  BY DEF States, TERMINAL
<1>2. state' \in [Missions -> States]
  BY <1>1 DEF StoreTypeOK, TransitionRows
<1>3. cancelRequested' \in [Missions -> BOOLEAN]
  BY DEF StoreTypeOK, TransitionRows
<1>4. Released(m) \in SUBSET Edge
  <2>1. \A e \in edges : e \in Edge
    BY DEF StoreTypeOK
  <2>2. \A e \in Edge : [e EXCEPT !.released = TRUE] \in Edge
    BY DEF Edge
  <2>3. QED
    BY <2>1, <2>2 DEF Released
<1>5. edges' \in SUBSET Edge
  BY <1>4 DEF StoreTypeOK, TransitionRows
<1>6. QED
  BY <1>2, <1>3, <1>5 DEF TransitionRows

LEMMA RetryRowsType ==
    ASSUME StoreTypeOK, NEW m \in Missions, RetryRows(m)
    PROVE  StoreTypeOK'
  BY ClearLeaseType DEF StoreTypeOK, RetryRows, legVars, repairVars, States

LEMMA DeferRowsType ==
    ASSUME StoreTypeOK, NEW m \in Missions, DeferRows(m)
    PROVE  StoreTypeOK'
  BY ClearLeaseType DEF StoreTypeOK, DeferRows, legVars, repairVars, States

LEMMA RecordRowsType ==
    ASSUME StoreTypeOK, NEW m \in Missions, NEW p \in Profiles \cup {None}, NEW free \in BOOLEAN,
           RecordRows(m, p, free)
    PROVE  StoreTypeOK'
  BY DEF StoreTypeOK, RecordRows, leaseVars, missionVars, repairVars

LEMMA CompleteRowsType ==
    ASSUME StoreTypeOK, NEW m \in Missions, NEW s \in StepNames, NEW output \in Outputs,
           CompleteRows(m, s, output)
    PROVE  StoreTypeOK'
  BY DEF StoreTypeOK, CompleteRows, leaseVars, missionVars, legVars, repairVars, StepStatus

LEMMA BeginRowsType ==
    ASSUME StoreTypeOK, NEW m \in Missions, NEW s \in StepNames, NEW p \in Profiles \cup {None},
           BeginRows(m, s, p)
    PROVE  /\ steps' \in [Missions -> [StepNames -> StepStatus]]
           /\ routed' \in [Missions -> Profiles \cup {None}]
           /\ UNCHANGED <<missionVars, legVars, repairVars, edges>>
  BY DEF StoreTypeOK, BeginRows, StepStatus

LEMMA SubmitType ==
    ASSUME StoreTypeOK, NEW m \in Missions, submit(m)
    PROVE  StoreTypeOK'
  BY DEF StoreTypeOK, submit, leaseVars, legVars, repairVars, States

LEMMA CancelType ==
    ASSUME StoreTypeOK, NEW m \in Missions, cancel(m)
    PROVE  StoreTypeOK'
  BY DEF StoreTypeOK, cancel, leaseVars, legVars, repairVars, States, TERMINAL

LEMMA RecoverStaleType ==
    ASSUME StoreTypeOK, recover_stale
    PROVE  StoreTypeOK'
<1>1. \A m \in Missions : RecoveredState(m) \in States
  BY DEF StoreTypeOK, RecoveredState, States, TERMINAL, RECOVERABLE
<1>2. state' \in [Missions -> States]
  BY <1>1 DEF StoreTypeOK, recover_stale
<1>3. lease' \in [Missions -> Nat] /\ expired' \in [Missions -> BOOLEAN]
  BY DEF StoreTypeOK, recover_stale
<1>4. QED
  BY <1>2, <1>3 DEF StoreTypeOK, recover_stale, legVars, repairVars

LEMMA AddDependencyType ==
    ASSUME StoreTypeOK, NEW m \in Missions, NEW d \in Missions, NEW policy \in ON_FAILURE,
           add_dependency(m, d, policy)
    PROVE  StoreTypeOK'
<1>1. [of |-> m, on |-> d, on_failure |-> policy, released |-> (state[d] = "completed")] \in Edge
  BY DEF Edge
<1>2. edges' \in SUBSET Edge
  BY <1>1 DEF StoreTypeOK, add_dependency
<1>3. QED
  BY <1>2 DEF StoreTypeOK, add_dependency, leaseVars, missionVars, legVars, repairVars

LEMMA ReconciliationType ==
    ASSUME StoreTypeOK, NEW m \in Missions, record_reconciliation(m)
    PROVE  StoreTypeOK'
  BY DEF StoreTypeOK, record_reconciliation, leaseVars, missionVars, legVars

LEMMA ResumeType ==
    ASSUME StoreTypeOK, NEW m \in Missions, resume_pre_provider(m)
    PROVE  StoreTypeOK'
  BY DEF StoreTypeOK, resume_pre_provider, leaseVars, legVars, States

-----------------------------------------------------------------------------
(* The worker's half of a step.                                              *)

LEMMA IdleType == Idle \in Job
  BY DEF Idle, Job, PC, States, Stages, StepNames, ContextSteps, Modes

\* What a step of work_once may do to the workers: the acting worker keeps its
\* claim or leaves, the others are not touched.
JobFrame(w) ==
    /\ job' \in [Workers -> Job]
    /\ \A v \in Workers \ {w} : job'[v] = job[v]
    /\ \/ job'[w] = Idle
       \/ /\ job'[w].pc # "idle" /\ job'[w].on = job[w].on /\ job'[w].tok = job[w].tok
          /\ job'[w].pc = "begin" => job'[w].stage # "dispatch"

\* What it may do to the leases: it grants none.
LeaseFrame ==
    /\ serial' = serial
    /\ \A m \in Missions : lease'[m] \in {lease[m], 0}

StoreFrame == StoreTypeOK' /\ LeaseFrame

LEMMA GotoFrame ==
    ASSUME job \in [Workers -> Job], NEW w \in Workers, NEW pc \in PC \ {"idle", "begin"}, Goto(w, pc)
    PROVE  JobFrame(w)
<1>1. job' = [job EXCEPT ![w] = [job[w] EXCEPT !.pc = pc]]
  BY DEF Goto
<1>2. [job[w] EXCEPT !.pc = pc] \in Job
  BY DEF Job
<1>3. QED
  BY <1>1, <1>2 DEF JobFrame, Job

LEMMA ReturnFrame ==
    ASSUME job \in [Workers -> Job], NEW w \in Workers, Return(w)
    PROVE  JobFrame(w)
  BY IdleType DEF Return, JobFrame

LEMMA EnterFrame ==
    ASSUME job \in [Workers -> Job], NEW w \in Workers, NEW stage \in Stages, Enter(w, stage)
    PROVE  JobFrame(w)
<1> DEFINE pc == IF stage = "dispatch" THEN "route" ELSE "begin"
<1>1. pc \in PC /\ pc # "idle"
  BY DEF PC
<1>2. job' = [job EXCEPT ![w] = [job[w] EXCEPT !.pc = pc, !.stage = stage, !.heard = "none"]]
  BY DEF Enter
<1> HIDE DEF pc
<1>3. [job[w] EXCEPT !.pc = pc, !.stage = stage, !.heard = "none"] \in Job
  <2>1. job[w] \in Job
    OBVIOUS
  <2>2. QED
    BY <1>1, <2>1 DEF Job
<1>4. QED
  BY <1>1, <1>2, <1>3 DEF JobFrame, Job, pc

LEMMA SameStoreFrame ==
    ASSUME StoreTypeOK, UNCHANGED storeVars
    PROVE  StoreFrame
  BY DEF StoreTypeOK, StoreFrame, LeaseFrame, storeVars, leaseVars, missionVars, legVars, repairVars

\* Every lemma below is about a worker that has a claim.
Claimed(w) == TypeOK /\ w \in Workers /\ Mission(w) \in Missions

LEMMA LeaseLostFrame ==
    ASSUME NEW w, Claimed(w), LeaseLost(w)
    PROVE  StoreFrame /\ JobFrame(w) /\ NoEffect
  BY SameStoreFrame, ReturnFrame DEF LeaseLost, Claimed, TypeOK

LEMMA TransitionToFrame ==
    ASSUME NEW w, Claimed(w), NEW new \in States, NEW release \in BOOLEAN,
           TransitionTo(w, new, release)
    PROVE  StoreFrame
<1> DEFINE m == Mission(w)
<1>1. StoreTypeOK /\ m \in Missions
  BY DEF Claimed, TypeOK
<1>2. TransitionRows(m, new)
  BY DEF TransitionTo
<1>3. /\ lease' \in [Missions -> Nat] /\ expired' \in [Missions -> BOOLEAN]
      /\ serial' \in [Missions -> Nat] /\ LeaseFrame
  <2>1. CASE release
    <3>1. ClearLease(m)
      BY <2>1 DEF TransitionTo
    <3>2. QED
      BY <1>1, <3>1, ClearLeaseType DEF ClearLease, LeaseFrame, StoreTypeOK
  <2>2. CASE ~release
    <3>1. KeepLease
      BY <2>2 DEF TransitionTo
    <3>2. QED
      BY <1>1, <3>1 DEF KeepLease, leaseVars, LeaseFrame, StoreTypeOK
  <2>3. QED
    BY <2>1, <2>2
<1>4. QED
  BY <1>1, <1>2, <1>3, TransitionRowsType DEF StoreFrame, StoreTypeOK, legVars, repairVars

LEMMA EndWithFrame ==
    ASSUME NEW w, Claimed(w), NEW new \in States, EndWith(w, new)
    PROVE  StoreFrame /\ JobFrame(w) /\ NoEffect
<1>1. CASE TransitionTo(w, new, TRUE) /\ Return(w)
  BY <1>1, TransitionToFrame, ReturnFrame DEF EndWith, Claimed, TypeOK
<1>2. CASE InvalidTransition(w, new)
  BY <1>2, SameStoreFrame, ReturnFrame DEF EndWith, InvalidTransition, Claimed, TypeOK
<1>3. QED
  BY <1>1, <1>2 DEF EndWith

LEMMA RaiseFrame ==
    ASSUME NEW w, Claimed(w), NEW pc \in PC \ {"idle", "begin"}, Raise(w, pc)
    PROVE  StoreFrame /\ JobFrame(w) /\ NoEffect
  BY SameStoreFrame, GotoFrame DEF Raise, Claimed, TypeOK

LEMMA AdvanceFrame ==
    ASSUME NEW w, Claimed(w), NEW new \in States, NEW before, NEW stage \in Stages,
           Advance(w, new, before, stage)
    PROVE  StoreFrame /\ JobFrame(w) /\ NoEffect
<1>1. CASE TransitionTo(w, new, FALSE) /\ Enter(w, stage)
  BY <1>1, TransitionToFrame, EnterFrame DEF Advance, Claimed, TypeOK
<1>2. CASE InvalidTransition(w, new)
  BY <1>2, SameStoreFrame, ReturnFrame DEF Advance, InvalidTransition, Claimed, TypeOK
<1>3. CASE Enter(w, stage) /\ UNCHANGED storeVars
  BY <1>3, SameStoreFrame, EnterFrame DEF Advance, Claimed, TypeOK
<1>4. QED
  BY <1>1, <1>2, <1>3 DEF Advance

\* The frame of one step of work_once.
Framed(w) == StoreFrame /\ JobFrame(w) /\ processes' \in [Missions -> Nat] /\ UNCHANGED faults

LEMMA NoEffectFramed ==
    ASSUME NEW w, Claimed(w), StoreFrame, JobFrame(w), NoEffect
    PROVE  Framed(w)
  BY DEF Framed, NoEffect, Claimed, TypeOK

LEMMA ObserveCancelFrame ==
    ASSUME NEW w, Claimed(w), ObserveCancel(w)
    PROVE  Framed(w)
<1>1. CASE EndWith(w, "cancelled")
  BY <1>1, EndWithFrame, NoEffectFramed DEF States, TERMINAL
<1>2. CASE LeaseLost(w)
  BY <1>2, LeaseLostFrame, NoEffectFramed
<1>3. CASE Enter(w, "context") /\ UNCHANGED storeVars /\ NoEffect
  BY <1>3, EnterFrame, SameStoreFrame, NoEffectFramed DEF Claimed, TypeOK, Stages
<1>4. QED
  BY <1>1, <1>2, <1>3 DEF ObserveCancel

LEMMA StepNameType ==
    ASSUME NEW w, Claimed(w), job[w].stage # "dispatch"
    PROVE  StepName(w) \in StepNames
<1>1. job[w].stage \in Stages
  BY DEF Claimed, TypeOK, Job
<1>2. QED
  BY <1>1 DEF StepName, ContextStep, StepNames, ContextSteps, Stages

\* begin and context, verify, evaluate, evidence belong together.
StagedBegin(w) == At(w, "begin") => job[w].stage # "dispatch"

LEMMA ReplayFrame ==
    ASSUME NEW w, Claimed(w), StagedBegin(w), Replay(w)
    PROVE  Framed(w)
<1> DEFINE s == StepName(w)
           after == AfterStep(job[w].stage)
           out == steps[Mission(w)][s]
<1>1. s \in StepNames
  BY StepNameType DEF StagedBegin, Replay
<1>2. out \in Outputs /\ after \in PC /\ after \notin {"idle", "begin"} /\ job[w] \in Job /\ job \in [Workers -> Job]
  BY DEF Replay, AfterStep, PC, Claimed, TypeOK
<1>3. job' = [job EXCEPT ![w] = [job[w] EXCEPT !.pc = after, !.step = s, !.heard = out]]
  BY DEF Replay
<1>4. StoreFrame /\ NoEffect /\ w \in Workers
  BY SameStoreFrame DEF Replay, Claimed, TypeOK
<1> HIDE DEF s, after, out
<1>5. [job[w] EXCEPT !.pc = after, !.step = s, !.heard = out] \in Job
  BY <1>1, <1>2 DEF Job
<1>6. JobFrame(w)
  BY <1>2, <1>3, <1>4, <1>5 DEF JobFrame, Job
<1>7. QED
  BY <1>4, <1>6, NoEffectFramed

LEMMA BeginFrame ==
    ASSUME StoreTypeOK, NEW m \in Missions, NEW s \in StepNames, NEW p \in Profiles \cup {None},
           BeginRows(m, s, p), expired' = [expired EXCEPT ![m] = FALSE], UNCHANGED <<lease, serial>>
    PROVE  StoreFrame
  BY BeginRowsType DEF StoreTypeOK, StoreFrame, LeaseFrame, missionVars, legVars, repairVars

LEMMA BeginStepFrame ==
    ASSUME NEW w, Claimed(w), StagedBegin(w), BeginStep(w)
    PROVE  Framed(w)
<1> DEFINE s == StepName(w)
<1>1. s \in StepNames
  BY StepNameType DEF StagedBegin, BeginStep
<1>2. job[w] \in Job /\ job \in [Workers -> Job] /\ w \in Workers
  BY DEF Claimed, TypeOK
<1>3. job' = [job EXCEPT ![w] = [job[w] EXCEPT !.pc = "calling", !.step = s]] /\ NoEffect
  BY DEF BeginStep
<1>4. StoreFrame
  BY <1>1, BeginFrame DEF BeginStep, Claimed, TypeOK
<1> HIDE DEF s
<1>5. [job[w] EXCEPT !.pc = "calling", !.step = s] \in Job
  BY <1>1, <1>2 DEF Job, PC
<1>6. JobFrame(w)
  BY <1>2, <1>3, <1>5 DEF JobFrame, Job
<1>7. QED
  BY <1>3, <1>4, <1>6, NoEffectFramed

LEMMA CompleteFrame ==
    ASSUME StoreTypeOK, NEW m \in Missions, NEW s \in StepNames, NEW output \in Outputs,
           CompleteRows(m, s, output)
    PROVE  StoreFrame
  BY CompleteRowsType DEF StoreFrame, LeaseFrame, CompleteRows, leaseVars, StoreTypeOK

LEMMA AnswerStepFrame ==
    ASSUME NEW w, Claimed(w), AnswerStep(w)
    PROVE  Framed(w)
<1>1. job[w] \in Job /\ job \in [Workers -> Job] /\ w \in Workers /\ job[w].step \in StepNames
  BY DEF Claimed, TypeOK, Job
<1>2. PICK a \in StepOutputs(job[w].stage) :
          /\ CompleteRows(Mission(w), job[w].step, a)
          /\ job' = [job EXCEPT ![w].pc = AfterStep(job[w].stage), ![w].heard = a]
  BY DEF AnswerStep
<1>3. a \in Outputs
  BY <1>2 DEF StepOutputs, Outputs
<1>4. StoreFrame
  BY <1>1, <1>2, <1>3, CompleteFrame DEF Claimed, TypeOK
<1> DEFINE after == AfterStep(job[w].stage)
<1>5. after \in PC /\ after \notin {"idle", "begin"}
  BY DEF AfterStep, PC
<1>6. job' = [job EXCEPT ![w] = [job[w] EXCEPT !.pc = after, !.heard = a]]
  BY <1>2
<1> HIDE DEF after
<1>7. [job[w] EXCEPT !.pc = after, !.heard = a] \in Job
  BY <1>1, <1>3, <1>5 DEF Job
<1>8. JobFrame(w)
  BY <1>1, <1>5, <1>6, <1>7 DEF JobFrame, Job
<1>9. QED
  BY <1>4, <1>8, NoEffectFramed DEF AnswerStep

LEMMA AdapterFailsFrame ==
    ASSUME NEW w, Claimed(w), AdapterFails(w) \/ RefuseContext(w)
    PROVE  Framed(w)
  BY GotoFrame, SameStoreFrame, NoEffectFramed DEF AdapterFails, RefuseContext, Claimed, TypeOK, PC

LEMMA DispatchNameType ==
    ASSUME NEW m
    PROVE  DispatchName(m) \in StepNames
  BY DEF DispatchName, effective_dispatch_step, StepNames, DISPATCH_STEP_NAMES

LEMMA DecideFrame ==
    ASSUME NEW w, Claimed(w), NEW mode \in Modes, NEW p \in Profiles \cup {None},
           Decide(w, mode, p)
    PROVE  Framed(w)
<1> DEFINE s == IF Entering(w) THEN DispatchName(Mission(w)) ELSE job[w].step
<1>1. job[w] \in Job /\ job \in [Workers -> Job] /\ w \in Workers /\ StoreTypeOK
  BY DEF Claimed, TypeOK
<1>2. s \in StepNames
  BY <1>1, DispatchNameType DEF Job
<1>3. job' = [job EXCEPT ![w] = [job[w] EXCEPT !.pc = "send", !.mode = mode, !.profile = p,
                                               !.step = s]]
  BY DEF Decide
<1> HIDE DEF s
<1>4. [job[w] EXCEPT !.pc = "send", !.mode = mode, !.profile = p, !.step = s] \in Job
  BY <1>1, <1>2 DEF Job, PC
<1>5. JobFrame(w)
  BY <1>1, <1>3, <1>4 DEF JobFrame, Job
<1>6. QED
  BY <1>1, <1>5, SameStoreFrame, NoEffectFramed DEF Decide

LEMMA RecoverFrame ==
    ASSUME NEW w, Claimed(w), Recover(w) \/ Reconcile(w) \/ \E p \in Selectable(w) : Select(w, p)
    PROVE  Framed(w)
<1>1. Mission(w) \in Missions /\ StoreTypeOK
  BY DEF Claimed, TypeOK
<1>2. CASE Recover(w)
  BY <1>1, <1>2, DecideFrame DEF Recover, StoreTypeOK, Modes
<1>3. CASE Reconcile(w)
  BY <1>1, <1>3, DecideFrame DEF Reconcile, StoreTypeOK, Modes
<1>4. CASE \E p \in Selectable(w) : Select(w, p)
  BY <1>4, DecideFrame DEF Select, Selectable, Modes
<1>5. QED
  BY <1>2, <1>3, <1>4

LEMMA ReplayDispatchFrame ==
    ASSUME NEW w, Claimed(w), ReplayDispatch(w)
    PROVE  Framed(w)
<1> DEFINE out == steps[Mission(w)][job[w].step]
<1>1. job[w] \in Job /\ job \in [Workers -> Job] /\ w \in Workers /\ StoreTypeOK
  BY DEF Claimed, TypeOK
<1>2. out \in Outputs /\ UNCHANGED storeVars /\ NoEffect
  BY DEF ReplayDispatch
<1>3. job' = [job EXCEPT ![w] = [job[w] EXCEPT !.pc = "record", !.ran = FALSE, !.heard = out]]
  BY DEF ReplayDispatch
<1> HIDE DEF out
<1>4. [job[w] EXCEPT !.pc = "record", !.ran = FALSE, !.heard = out] \in Job
  BY <1>1, <1>2 DEF Job, PC
<1>5. JobFrame(w)
  BY <1>1, <1>3, <1>4 DEF JobFrame, Job
<1>6. QED
  BY <1>1, <1>2, <1>5, SameStoreFrame, NoEffectFramed

LEMMA SendFrame ==
    ASSUME NEW w, Claimed(w), Send(w)
    PROVE  Framed(w)
<1> DEFINE m == Mission(w)
           s == job[w].step
<1>1. job[w] \in Job /\ job \in [Workers -> Job] /\ w \in Workers /\ m \in Missions
      /\ StoreTypeOK /\ processes \in [Missions -> Nat]
  BY DEF Claimed, TypeOK
<1>2. s \in StepNames /\ job[w].profile \in Profiles \cup {None}
  BY <1>1 DEF Job
<1>3. /\ BeginRows(m, s, job[w].profile)
      /\ expired' = [expired EXCEPT ![m] = FALSE] /\ UNCHANGED <<lease, serial, faults>>
  BY DEF Send
<1>4. PICK ran \in BOOLEAN :
        /\ job' = [job EXCEPT ![w].pc = "calling", ![w].ran = ran]
        /\ processes' = [processes EXCEPT ![m] = IF ran THEN @ + 1 ELSE @]
  BY DEF Send
<1>5. StoreFrame
  BY <1>1, <1>2, <1>3, BeginFrame
<1>6. job' = [job EXCEPT ![w] = [job[w] EXCEPT !.pc = "calling", !.ran = ran]]
  BY <1>4
<1> HIDE DEF m, s
<1>7. [job[w] EXCEPT !.pc = "calling", !.ran = ran] \in Job
  BY <1>1 DEF Job, PC
<1>8. JobFrame(w)
  BY <1>1, <1>6, <1>7 DEF JobFrame, Job
<1>9. processes' \in [Missions -> Nat]
  BY <1>1, <1>4
<1>10. QED
  BY <1>3, <1>5, <1>8, <1>9 DEF Framed

LEMMA RecordFrame ==
    ASSUME StoreTypeOK, NEW m \in Missions, NEW p \in Profiles \cup {None}, NEW free \in BOOLEAN,
           RecordRows(m, p, free)
    PROVE  StoreFrame
  BY RecordRowsType DEF StoreFrame, LeaseFrame, RecordRows, leaseVars, StoreTypeOK

LEMMA GateFrame ==
    ASSUME NEW w, Claimed(w), CapacityGate(w) \/ BudgetGate(w) \/ Exhausted(w)
    PROVE  Framed(w)
<1>1. GateLeg(w, "defer") \/ GateLeg(w, "nonretryable")
  BY DEF CapacityGate, BudgetGate, Exhausted
<1>2. PICK pc \in {"defer", "nonretryable"} : GateLeg(w, pc)
  BY <1>1
<1>3. JobFrame(w)
  BY <1>2, GotoFrame DEF GateLeg, Claimed, TypeOK, PC
<1>4. StoreFrame
  BY <1>2, RecordFrame DEF GateLeg, Claimed, TypeOK
<1>5. QED
  BY <1>2, <1>3, <1>4, NoEffectFramed DEF GateLeg

LEMMA AnswerDispatchFrame ==
    ASSUME NEW w, Claimed(w), AnswerDispatch(w)
    PROVE  Framed(w)
<1>1. job[w] \in Job /\ job \in [Workers -> Job] /\ w \in Workers /\ job[w].step \in StepNames
      /\ StoreTypeOK /\ Mission(w) \in Missions
  BY DEF Claimed, TypeOK, Job
<1>2. PICK a \in Answers \ {"timeout"} :
          /\ IF a \in SettledAnswers
             THEN CompleteRows(Mission(w), job[w].step, a)
             ELSE UNCHANGED storeVars
          /\ job' = [job EXCEPT ![w].pc = "record", ![w].heard = a]
  BY DEF AnswerDispatch
<1>3. StoreFrame
  <2>1. CASE a \in SettledAnswers
    <3>1. a \in Outputs
      BY <2>1 DEF SettledAnswers, Outputs
    <3>2. QED
      BY <1>1, <1>2, <2>1, <3>1, CompleteFrame
  <2>2. CASE a \notin SettledAnswers
    BY <1>1, <1>2, <2>2, SameStoreFrame
  <2>3. QED
    BY <2>1, <2>2
<1>4. a \in DispatchAnswers
  BY <1>2, ControllerAssumption
<1>5. [job[w] EXCEPT !.pc = "record", !.heard = a] \in Job
  BY <1>1, <1>4 DEF Job, PC
<1>6. job' = [job EXCEPT ![w] = [job[w] EXCEPT !.pc = "record", !.heard = a]]
  BY <1>2
<1>7. JobFrame(w)
  BY <1>1, <1>5, <1>6 DEF JobFrame, Job
<1>8. QED
  BY <1>3, <1>7, NoEffectFramed DEF AnswerDispatch

LEMMA RecordLegFrame ==
    ASSUME NEW w, Claimed(w), RecordLeg(w)
    PROVE  Framed(w)
<1> DEFINE pc == AfterLeg(w)
           tried == IF pc = "route" THEN job[w].attempted \cup {job[w].profile} ELSE job[w].attempted
<1>1. job[w] \in Job /\ job \in [Workers -> Job] /\ w \in Workers /\ job[w].profile \in Profiles \cup {None}
  BY DEF Claimed, TypeOK, Job
<1>2. StoreFrame
  <2> DEFINE free == job[w].heard \in FreeAnswers
  <2>1. free \in BOOLEAN
    OBVIOUS
  <2>2. RecordRows(Mission(w), job[w].profile, free) \/ UNCHANGED storeVars
    BY DEF RecordLeg
  <2> HIDE DEF free
  <2>3. QED
    BY <1>1, <2>1, <2>2, RecordFrame, SameStoreFrame DEF Claimed, TypeOK
<1>3. pc \in PC \ {"idle", "begin"}
  BY DEF AfterLeg, PC
<1>4. job' = [job EXCEPT ![w] = [job[w] EXCEPT !.pc = pc, !.attempted = tried]]
  BY DEF RecordLeg
<1>5. tried \in SUBSET (Profiles \cup {None})
  BY <1>1 DEF AfterLeg, Job
<1> HIDE DEF pc, tried
<1>6. [job[w] EXCEPT !.pc = pc, !.attempted = tried] \in Job
  BY <1>1, <1>3, <1>5 DEF Job
<1>7. JobFrame(w)
  BY <1>1, <1>3, <1>4, <1>6 DEF JobFrame, Job
<1>8. QED
  BY <1>2, <1>7, NoEffectFramed DEF RecordLeg

LEMMA RefusalFrame ==
    ASSUME NEW w, Claimed(w), RejectReceipt(w) \/ RefuseSwitch(w)
    PROVE  Framed(w)
<1>1. job[w].profile \in Profiles \cup {None}
  BY DEF Claimed, TypeOK, Job
<1>2. Goto(w, "nonretryable") /\ NoEffect
  BY DEF RejectReceipt, RefuseSwitch
<1>3. StoreFrame
  BY <1>1, RecordFrame, SameStoreFrame DEF RejectReceipt, RefuseSwitch, Claimed, TypeOK
<1>4. JobFrame(w)
  BY <1>2, GotoFrame DEF Claimed, TypeOK, PC
<1>5. QED
  BY <1>2, <1>3, <1>4, NoEffectFramed

LEMMA CheckCancelFrame ==
    ASSUME NEW w, Claimed(w), CheckCancel(w)
    PROVE  Framed(w)
<1> DEFINE new == IF state[Mission(w)] = "dispatching" THEN "cancelled" ELSE "escalated"
<1>1. CASE EndWith(w, new)
  <2>1. new \in States
    BY DEF States, TERMINAL
  <2> HIDE DEF new
  <2>2. QED
    BY <1>1, <2>1, EndWithFrame, NoEffectFramed
<1>2. CASE LeaseLost(w)
  BY <1>2, LeaseLostFrame, NoEffectFramed
<1>3. CASE Goto(w, "settle") /\ UNCHANGED storeVars /\ NoEffect
  BY <1>3, GotoFrame, SameStoreFrame, NoEffectFramed DEF Claimed, TypeOK, PC
<1>4. QED
  BY <1>1, <1>2, <1>3 DEF CheckCancel

LEMMA SettleFrame ==
    ASSUME NEW w, Claimed(w), Settle(w)
    PROVE  Framed(w)
<1> USE DEF States, TERMINAL, RECOVERABLE, Stages, PC
<1>1. CASE SettleContext(w)
  <2>1. CASE Enter(w, "dispatch") /\ UNCHANGED storeVars /\ NoEffect
    BY <2>1, EnterFrame, SameStoreFrame, NoEffectFramed DEF Claimed, TypeOK
  <2>2. CASE Raise(w, "nonretryable")
    BY <2>2, RaiseFrame, NoEffectFramed
  <2>3. QED
    BY <1>1, <2>1, <2>2 DEF SettleContext
<1>2. CASE SettleDispatch(w)
  <2>1. CASE Advance(w, "dispatched", {"dispatching"}, "verify")
    BY <2>1, AdvanceFrame, NoEffectFramed
  <2>2. CASE EndWith(w, "escalated")
    BY <2>2, EndWithFrame, NoEffectFramed
  <2>3. CASE Raise(w, "retryable") \/ Raise(w, "nonretryable")
    BY <2>3, RaiseFrame, NoEffectFramed
  <2>4. QED
    BY <1>2, <2>1, <2>2, <2>3 DEF SettleDispatch
<1>3. CASE SettleVerify(w)
  <2>1. CASE Advance(w, "candidate_verified", {"dispatching", "dispatched"}, "evaluate")
    BY <2>1, AdvanceFrame, NoEffectFramed
  <2>2. CASE Raise(w, "nonretryable")
    BY <2>2, RaiseFrame, NoEffectFramed
  <2>3. QED
    BY <1>3, <2>1, <2>2 DEF SettleVerify
<1>4. CASE SettleEvaluate(w)
  <2>1. CASE Advance(w, "evaluated", {"dispatching", "dispatched", "candidate_verified"}, "evidence")
    BY <2>1, AdvanceFrame, NoEffectFramed
  <2>2. CASE EndWith(w, "escalated")
    BY <2>2, EndWithFrame, NoEffectFramed
  <2>3. QED
    BY <1>4, <2>1, <2>2 DEF SettleEvaluate
<1>5. CASE SettleEvidence(w)
  <2>1. CASE Raise(w, "finish") \/ Raise(w, "retryable") \/ Raise(w, "nonretryable")
    BY <2>1, RaiseFrame, NoEffectFramed
  <2>2. CASE TransitionTo(w, "evidence_sealed", FALSE) /\ Goto(w, "finish") /\ NoEffect
    BY <2>2, TransitionToFrame, GotoFrame, NoEffectFramed DEF Claimed, TypeOK
  <2>3. CASE InvalidTransition(w, "evidence_sealed") /\ NoEffect
    BY <2>3, SameStoreFrame, ReturnFrame, NoEffectFramed DEF InvalidTransition, Claimed, TypeOK
  <2>4. QED
    BY <1>5, <2>1, <2>2, <2>3 DEF SettleEvidence
<1>6. CASE Finish(w)
  BY <1>6, EndWithFrame, NoEffectFramed DEF Finish
<1>7. QED
  BY <1>1, <1>2, <1>3, <1>4, <1>5, <1>6 DEF Settle

LEMMA HandleFrame ==
    ASSUME NEW w, Claimed(w), Handle(w)
    PROVE  Framed(w)
<1> DEFINE m == Mission(w)
<1> USE DEF States, TERMINAL
<1>1. CASE OnRetryable(w)
  <2>1. CASE RetryRows(m) /\ Return(w) /\ NoEffect
    <3>1. StoreFrame
      BY <2>1, RetryRowsType DEF Claimed, TypeOK, StoreTypeOK, StoreFrame, LeaseFrame, RetryRows, ClearLease
    <3>2. QED
      BY <2>1, <3>1, ReturnFrame, NoEffectFramed DEF Claimed, TypeOK
  <2>2. CASE EndWith(w, "escalated")
    BY <2>2, EndWithFrame, NoEffectFramed
  <2>3. QED
    BY <1>1, <2>1, <2>2 DEF OnRetryable
<1>2. CASE OnNonRetryable(w)
  <2>1. PICK new \in {"refused", "failed"} : EndWith(w, new)
    BY <1>2 DEF OnNonRetryable
  <2>2. QED
    BY <2>1, EndWithFrame, NoEffectFramed
<1>3. CASE OnDefer(w)
  <2>1. StoreFrame
    <3>1. CASE CanDefer(m)
      BY <1>3, <3>1, DeferRowsType DEF OnDefer, Claimed, TypeOK, StoreTypeOK, StoreFrame, LeaseFrame,
         DeferRows, ClearLease
    <3>2. CASE ~CanDefer(m)
      BY <1>3, <3>2, SameStoreFrame DEF OnDefer, Claimed, TypeOK
    <3>3. QED
      BY <3>1, <3>2
  <2>2. QED
    BY <1>3, <2>1, ReturnFrame, NoEffectFramed DEF OnDefer, Claimed, TypeOK
<1>4. CASE Fenced(w)
  BY <1>4, LeaseLostFrame, NoEffectFramed DEF Fenced
<1>5. QED
  BY <1>1, <1>2, <1>3, <1>4 DEF Handle

\* One step of work_once keeps the types, grants no lease and moves one worker.
LEMMA WorkFrame ==
    ASSUME NEW w, Claimed(w), StagedBegin(w), Work(w)
    PROVE  Framed(w)
<1>1. CASE Step(w)
  BY <1>1, ReplayFrame, BeginStepFrame, AnswerStepFrame, AdapterFailsFrame DEF Step
<1>2. CASE Dispatch(w)
  BY <1>2, RecoverFrame, ReplayDispatchFrame, SendFrame, GateFrame, AnswerDispatchFrame, RecordLegFrame,
     RefusalFrame DEF Dispatch
<1>3. QED
  BY <1>1, <1>2, ObserveCancelFrame, CheckCancelFrame, SettleFrame, HandleFrame DEF Work

-----------------------------------------------------------------------------
(* The lease invariant.  Holding is equality of tokens, and a stale worker    *)
(* keeps its token for as long as it runs, so uniqueness must be said of the  *)
(* tokens and not only of the leases.                                         *)

Working(w) == /\ Mission(w) \in Missions
              /\ job[w].tok >= 1 /\ job[w].tok <= serial[Mission(w)]

LeaseInv ==
    /\ \A m \in Missions : lease[m] <= serial[m]
    /\ \A w \in Workers : ~At(w, "idle") => Working(w)
    /\ \A v, w \in Workers :
          v # w /\ ~At(v, "idle") /\ ~At(w, "idle") /\ Mission(v) = Mission(w)
            => job[v].tok # job[w].tok
    /\ \A w \in Workers : StagedBegin(w)

IInv == TypeOK /\ LeaseInv

LEMMA InitIInv == Init => IInv
<1> SUFFICES ASSUME Init PROVE IInv
  OBVIOUS
<1>1. StoreTypeOK
  BY DEF Init, InitStore, StoreTypeOK, States, StepStatus
<1>2. job \in [Workers -> Job] /\ \A w \in Workers : job[w].pc = "idle"
  BY IdleType DEF Init, Idle
<1>3. processes \in [Missions -> Nat] /\ faults \in Nat
  BY DEF Init
<1>4. LeaseInv
  BY <1>2 DEF LeaseInv, At, StagedBegin, Init, InitStore
<1>5. QED
  BY <1>1, <1>2, <1>3, <1>4 DEF IInv, TypeOK

LEMMA LeaseBound ==
    ASSUME StoreTypeOK, LeaseFrame, \A m \in Missions : lease[m] <= serial[m]
    PROVE  \A m \in Missions : lease'[m] <= serial'[m]
<1> SUFFICES ASSUME NEW m \in Missions PROVE lease'[m] <= serial[m]
  BY DEF LeaseFrame
<1>1. lease[m] <= serial[m] /\ 0 <= serial[m] /\ lease'[m] \in {lease[m], 0}
  BY DEF StoreTypeOK, LeaseFrame
<1>2. QED
  BY <1>1

LEMMA FramedIInv ==
    ASSUME IInv, NEW w \in Workers, ~At(w, "idle"), Framed(w)
    PROVE  IInv'
<1>1. TypeOK'
  BY DEF Framed, StoreFrame, JobFrame, IInv, TypeOK
<1>2. \A m \in Missions : lease'[m] <= serial'[m]
  BY LeaseBound DEF Framed, StoreFrame, IInv, LeaseInv, TypeOK
<1>3. Idle.pc = "idle"
  BY DEF Idle
<1>4. ASSUME NEW v \in Workers, job'[v].pc # "idle"
      PROVE  job[v].pc # "idle" /\ job'[v].on = job[v].on /\ job'[v].tok = job[v].tok
  BY <1>3, <1>4 DEF Framed, JobFrame, At
<1>5. \A v \in Workers : ~At(v, "idle")' => Working(v)'
  BY <1>4 DEF At, Working, Mission, IInv, LeaseInv, Framed, StoreFrame, LeaseFrame, TypeOK, Job
<1>6. \A u, v \in Workers :
          u # v /\ ~At(u, "idle")' /\ ~At(v, "idle")' /\ Mission(u)' = Mission(v)'
            => job'[u].tok # job'[v].tok
  BY <1>4 DEF At, Mission, IInv, LeaseInv
<1>7. \A v \in Workers : StagedBegin(v)'
  BY <1>3 DEF StagedBegin, At, Framed, JobFrame, IInv, LeaseInv
<1>8. QED
  BY <1>1, <1>2, <1>5, <1>6, <1>7 DEF IInv, LeaseInv

\* A claim takes a token nobody ever had.
LEMMA ClaimIInv ==
    ASSUME IInv, NEW w \in Workers, NEW m \in Missions, Lease(w, m)
    PROVE  IInv'
<1>1. TypeOK /\ LeaseInv
  BY DEF IInv
<1>2. GrantLease(m) /\ At(w, "idle") /\ NoEffect
  BY DEF Lease
<1>3. StoreTypeOK' /\ lease'[m] \in Nat /\ state'[m] \in States
  BY <1>1, <1>2, GrantLeaseType DEF TypeOK
<1>4. /\ serial' = [serial EXCEPT ![m] = @ + 1] /\ serial \in [Missions -> Nat]
      /\ lease' = [lease EXCEPT ![m] = serial[m] + 1] /\ lease \in [Missions -> Nat]
  BY <1>1, <1>2 DEF GrantLease, TypeOK, StoreTypeOK
<1> DEFINE new == [Idle EXCEPT !.pc = "claimed", !.on = m, !.tok = lease'[m],
                               !.resume_state = state'[m]]
<1>5. job' = [job EXCEPT ![w] = new] /\ job \in [Workers -> Job]
  BY <1>1 DEF Lease, TypeOK
<1>6. new \in Job /\ new.pc = "claimed" /\ new.on = m /\ new.tok = serial[m] + 1
  <2>1. lease'[m] = serial[m] + 1
    BY <1>4
  <2>2. new \in Job
    BY <1>3, IdleType DEF Job, PC
  <2>3. QED
    BY <2>1, <2>2 DEF Idle
<1> HIDE DEF new
<1>7. TypeOK'
  BY <1>1, <1>2, <1>3, <1>5, <1>6 DEF TypeOK, NoEffect
<1>8. \A x \in Missions : lease'[x] <= serial'[x]
  BY <1>1, <1>4 DEF LeaseInv
<1>9. \A v \in Workers : ~At(v, "idle")' => Working(v)'
  BY <1>1, <1>4, <1>5, <1>6 DEF LeaseInv, At, Working, Mission, TypeOK, Job
<1>10. \A v \in Workers \ {w} : ~At(v, "idle") /\ Mission(v) = m => job[v].tok # new.tok
  BY <1>1, <1>4, <1>6 DEF LeaseInv, Working, TypeOK, Job
<1>11. \A u, v \in Workers :
          u # v /\ ~At(u, "idle")' /\ ~At(v, "idle")' /\ Mission(u)' = Mission(v)'
            => job'[u].tok # job'[v].tok
  BY <1>1, <1>5, <1>6, <1>10 DEF LeaseInv, At, Mission
<1>12. \A v \in Workers : StagedBegin(v)'
  BY <1>1, <1>5, <1>6 DEF LeaseInv, StagedBegin, At
<1>13. QED
  BY <1>7, <1>8, <1>9, <1>11, <1>12 DEF IInv, LeaseInv

\* A step that leaves the workers alone and grants nothing.
LEMMA BackgroundIInv ==
    ASSUME IInv, StoreFrame, UNCHANGED <<job, processes>>, faults' \in Nat
    PROVE  IInv'
<1>1. TypeOK'
  BY DEF StoreFrame, IInv, TypeOK
<1>2. \A m \in Missions : lease'[m] <= serial'[m]
  BY LeaseBound DEF StoreFrame, IInv, LeaseInv, TypeOK
<1>3. QED
  BY <1>1, <1>2 DEF IInv, LeaseInv, At, Working, Mission, StagedBegin, StoreFrame, LeaseFrame

LEMMA ExpiryFrame ==
    ASSUME StoreTypeOK, NEW m \in Missions, NEW b \in BOOLEAN,
           expired' = [expired EXCEPT ![m] = b],
           UNCHANGED <<lease, serial, missionVars, legVars, repairVars, steps, routed, edges>>
    PROVE  StoreFrame
  BY DEF StoreTypeOK, StoreFrame, LeaseFrame, missionVars, legVars, repairVars

LEMMA OperatorFrame ==
    ASSUME StoreTypeOK, Operator
    PROVE  StoreFrame
<1>1. StoreTypeOK'
  BY SubmitType, CancelType, ReconciliationType, ResumeType, AddDependencyType DEF Operator
<1>2. UNCHANGED leaseVars
  BY DEF Operator, submit, cancel, record_reconciliation, resume_pre_provider, add_dependency
<1>3. QED
  BY <1>1, <1>2 DEF StoreFrame, LeaseFrame, leaseVars

LEMMA RecoverStaleFrame ==
    ASSUME StoreTypeOK, recover_stale
    PROVE  StoreFrame
  BY RecoverStaleType DEF StoreFrame, LeaseFrame, recover_stale, StoreTypeOK

LEMMA WorkIsClaimed ==
    ASSUME IInv, NEW w \in Workers, Work(w)
    PROVE  ~At(w, "idle") /\ Claimed(w) /\ StagedBegin(w)
<1>1. ~At(w, "idle")
  BY DEF Work, ObserveCancel, Step, Replay, BeginStep, AnswerStep, AdapterFails, RefuseContext,
     Dispatch, Recover, Reconcile, Select, MaySelect, ReplayDispatch, Send, CapacityGate, BudgetGate, Exhausted,
     AnswerDispatch, RecordLeg, RejectReceipt, RefuseSwitch, Judging, CheckCancel, Settle, SettleContext, SettleDispatch, SettleVerify,
     SettleEvaluate, SettleEvidence, Settling, Finish, Handle, OnRetryable, OnNonRetryable, OnDefer,
     Fenced, At
<1>2. QED
  BY <1>1 DEF Claimed, IInv, LeaseInv, Working

LEMMA NextIInv == IInv /\ [Next]_vars => IInv'
<1> SUFFICES ASSUME IInv, [Next]_vars PROVE IInv'
  OBVIOUS
<1>1. TypeOK /\ StoreTypeOK /\ LeaseInv
  BY DEF IInv, TypeOK
<1>2. CASE \E w \in Workers, m \in Missions : Claim(w, m) \/ ClaimNamed(w, m)
  BY <1>2, ClaimIInv DEF Claim, ClaimNamed
<1>3. ASSUME NEW w \in Workers, Work(w) PROVE IInv'
  BY <1>3, WorkIsClaimed, WorkFrame, FramedIInv
<1>4. ASSUME NEW w \in Workers, Heartbeat(w) PROVE IInv'
  <2>1. Mission(w) \in Missions
    BY <1>1, <1>4 DEF Heartbeat, LeaseInv, Working, At
  <2>2. StoreFrame
    BY <1>1, <1>4, <2>1, ExpiryFrame DEF Heartbeat, missionVars, legVars, repairVars
  <2>3. QED
    BY <1>1, <1>4, <2>2, BackgroundIInv DEF Heartbeat, NoEffect, TypeOK
<1>5. ASSUME NEW w \in Workers, Crash(w) PROVE IInv'
  <2>1. StoreFrame /\ JobFrame(w)
    BY <1>1, <1>5, SameStoreFrame, ReturnFrame DEF Crash, TypeOK
  <2>2. faults' \in Nat /\ processes' = processes
    BY <1>1, <1>5 DEF Crash, TypeOK
  <2>3. TypeOK'
    BY <1>1, <2>1, <2>2 DEF TypeOK, StoreFrame, JobFrame
  <2>4. job' = [job EXCEPT ![w] = Idle] /\ serial' = serial /\ lease' = lease
    BY <1>5 DEF Crash, Return, storeVars, leaseVars
  <2>5. LeaseInv'
    BY <1>1, <2>4 DEF LeaseInv, At, Working, Mission, StagedBegin, TypeOK, Idle
  <2>6. QED
    BY <2>3, <2>5 DEF IInv
<1>6. ASSUME NEW m \in Missions, Expire(m) PROVE IInv'
  <2>1. StoreFrame
    BY <1>1, <1>6, ExpiryFrame DEF Expire
  <2>2. faults' \in Nat
    BY <1>1, <1>6 DEF Expire, TypeOK
  <2>3. QED
    BY <1>6, <2>1, <2>2, BackgroundIInv DEF Expire
<1>7. CASE RecoverStale
  BY <1>1, <1>7, RecoverStaleFrame, BackgroundIInv DEF RecoverStale, NoEffect, TypeOK
<1>8. CASE Operator
  <2>1. StoreFrame
    BY <1>1, <1>8, OperatorFrame
  <2>2. QED
    BY <1>1, <1>8, <2>1, BackgroundIInv DEF Operator, NoEffect, TypeOK
<1>9. CASE UNCHANGED vars
  BY <1>1, <1>9, SameStoreFrame, BackgroundIInv DEF vars, TypeOK
<1>10. QED
  BY <1>2, <1>3, <1>4, <1>5, <1>6, <1>7, <1>8, <1>9 DEF Next

\* The typing and the uniqueness of tokens hold in every reachable state.
THEOREM Invariance == Spec => []IInv
  BY InitIInv, NextIInv, PTL DEF Spec

\* The rows and the workers always have their types.
THEOREM Typing == Spec => []TypeOK
<1>1. IInv => TypeOK
  BY DEF IInv
<1>2. QED
  BY <1>1, Invariance, PTL

\* Two workers never both pass the fence of one mission, for any number of
\* workers, missions, expiries and re-claims.
THEOREM MutualExclusion == Spec => []OneHolder
<1>1. IInv => OneHolder
  BY DEF IInv, LeaseInv, OneHolder, Holds
<1>2. QED
  BY <1>1, Invariance, PTL

-----------------------------------------------------------------------------
(* What a step of work_once writes: the memo of the one step it has open, and *)
(* no lease but its own.                                                      *)

StepsMove(w) ==
    \/ UNCHANGED steps /\ job'[w].pc # "calling"
    \/ /\ Holds(w) /\ steps[Mission(w)][job'[w].step] \notin Outputs
       /\ steps' = [steps EXCEPT ![Mission(w)][job'[w].step] = IF @ = "none" THEN "started" ELSE @]
    \/ /\ Holds(w) /\ At(w, "calling") /\ job'[w].pc # "calling"
       /\ \E output \in Outputs : steps' = [steps EXCEPT ![Mission(w)][job[w].step] = output]

LeasesMove(w) ==
    \A m \in Missions : lease'[m] # lease[m] => m = Mission(w) /\ Holds(w) /\ job'[w] = Idle

Moves(w) == StepsMove(w) /\ LeasesMove(w)

LEMMA QuietMoves ==
    ASSUME NEW w, Claimed(w), UNCHANGED <<steps, lease>>, job'[w].pc # "calling"
    PROVE  Moves(w)
  BY DEF Moves, StepsMove, LeasesMove

LEMMA GotoPc ==
    ASSUME NEW w, Claimed(w), NEW pc, Goto(w, pc)
    PROVE  job'[w].pc = pc
  BY DEF Goto, Claimed, TypeOK, Job

LEMMA EnterPc ==
    ASSUME NEW w, Claimed(w), NEW stage, Enter(w, stage)
    PROVE  job'[w].pc # "calling"
<1> DEFINE pc == IF stage = "dispatch" THEN "route" ELSE "begin"
<1>1. job' = [job EXCEPT ![w] = [job[w] EXCEPT !.pc = pc, !.stage = stage, !.heard = "none"]]
  BY DEF Enter
<1>2. job'[w] = [job[w] EXCEPT !.pc = pc, !.stage = stage, !.heard = "none"]
  BY <1>1 DEF Claimed, TypeOK
<1>3. QED
  BY <1>2 DEF Claimed, TypeOK, Job

LEMMA ReturnPc ==
    ASSUME NEW w, Claimed(w), Return(w)
    PROVE  job'[w] = Idle /\ job'[w].pc # "calling"
  BY DEF Return, Claimed, TypeOK, Idle

LEMMA ReleaseMoves ==
    ASSUME NEW w, Claimed(w), Holds(w), ClearLease(Mission(w)) \/ UNCHANGED lease, Return(w),
           UNCHANGED steps
    PROVE  Moves(w)
  BY ReturnPc DEF Moves, StepsMove, LeasesMove, ClearLease, Claimed, TypeOK, StoreTypeOK

LEMMA LeaseLostMoves ==
    ASSUME NEW w, Claimed(w), LeaseLost(w)
    PROVE  Moves(w)
  BY ReturnPc, QuietMoves DEF LeaseLost, storeVars, leaseVars

LEMMA EndWithMoves ==
    ASSUME NEW w, Claimed(w), NEW new, EndWith(w, new)
    PROVE  Moves(w)
  BY ReleaseMoves DEF EndWith, TransitionTo, TransitionRows, InvalidTransition, storeVars, leaseVars

LEMMA RaiseMoves ==
    ASSUME NEW w, Claimed(w), NEW pc, pc # "calling", Raise(w, pc)
    PROVE  Moves(w)
  BY GotoPc, QuietMoves DEF Raise, storeVars, leaseVars

LEMMA AdvanceMoves ==
    ASSUME NEW w, Claimed(w), NEW new, NEW before, NEW stage, Advance(w, new, before, stage)
    PROVE  Moves(w)
<1>1. UNCHANGED <<steps, lease>>
  BY DEF Advance, TransitionTo, TransitionRows, KeepLease, InvalidTransition, storeVars, leaseVars
<1>2. job'[w].pc # "calling"
  BY EnterPc, ReturnPc DEF Advance, InvalidTransition
<1>3. QED
  BY <1>1, <1>2, QuietMoves

LEMMA SettleMoves ==
    ASSUME NEW w, Claimed(w), Settle(w)
    PROVE  Moves(w)
<1>1. CASE SettleContext(w)
  BY <1>1, EnterPc, QuietMoves, RaiseMoves DEF SettleContext, storeVars, leaseVars
<1>2. CASE SettleDispatch(w)
  BY <1>2, AdvanceMoves, EndWithMoves, RaiseMoves DEF SettleDispatch
<1>3. CASE SettleVerify(w)
  BY <1>3, AdvanceMoves, RaiseMoves DEF SettleVerify
<1>4. CASE SettleEvaluate(w)
  BY <1>4, AdvanceMoves, EndWithMoves DEF SettleEvaluate
<1>5. CASE SettleEvidence(w)
  <2>1. CASE TransitionTo(w, "evidence_sealed", FALSE) /\ Goto(w, "finish")
    BY <2>1, GotoPc, QuietMoves DEF TransitionTo, TransitionRows, KeepLease, leaseVars
  <2>2. CASE InvalidTransition(w, "evidence_sealed")
    BY <2>2, ReturnPc, QuietMoves DEF InvalidTransition, storeVars, leaseVars
  <2>3. QED
    BY <1>5, <2>1, <2>2, RaiseMoves DEF SettleEvidence
<1>6. CASE Finish(w)
  BY <1>6, EndWithMoves DEF Finish
<1>7. QED
  BY <1>1, <1>2, <1>3, <1>4, <1>5, <1>6 DEF Settle

LEMMA StepMoves ==
    ASSUME NEW w, Claimed(w), StagedBegin(w), Step(w)
    PROVE  Moves(w)
<1>1. CASE Replay(w)
  BY <1>1, QuietMoves DEF Replay, AfterStep, storeVars, leaseVars, Claimed, TypeOK, Job
<1>2. CASE BeginStep(w)
  <2> DEFINE s == StepName(w)
  <2>1. job' = [job EXCEPT ![w] = [job[w] EXCEPT !.pc = "calling", !.step = s]]
    BY <1>2 DEF BeginStep
  <2>2. /\ steps[Mission(w)][s] \notin Outputs /\ Holds(w) /\ UNCHANGED lease
        /\ steps' = [steps EXCEPT ![Mission(w)][s] = IF @ = "none" THEN "started" ELSE @]
    BY <1>2 DEF BeginStep, BeginRows
  <2> HIDE DEF s
  <2>3. job'[w].step = s
    BY <2>1 DEF Claimed, TypeOK, Job
  <2>4. QED
    BY <2>2, <2>3 DEF Moves, StepsMove, LeasesMove
<1>3. CASE AnswerStep(w)
  <2>1. PICK a \in StepOutputs(job[w].stage) :
            /\ CompleteRows(Mission(w), job[w].step, a)
            /\ job' = [job EXCEPT ![w].pc = AfterStep(job[w].stage), ![w].heard = a]
    BY <1>3 DEF AnswerStep
  <2>2. a \in Outputs
    BY <2>1 DEF StepOutputs, Outputs
  <2>3. job'[w].pc # "calling"
    BY <2>1 DEF AfterStep, Claimed, TypeOK, Job
  <2>4. steps' = [steps EXCEPT ![Mission(w)][job[w].step] = a] /\ lease' = lease
    BY <2>1 DEF CompleteRows, leaseVars
  <2>5. QED
    BY <1>3, <2>2, <2>3, <2>4 DEF Moves, StepsMove, LeasesMove, AnswerStep
<1>4. CASE AdapterFails(w) \/ RefuseContext(w)
  BY <1>4, GotoPc, QuietMoves DEF AdapterFails, RefuseContext, storeVars, leaseVars
<1>5. QED
  BY <1>1, <1>2, <1>3, <1>4 DEF Step

LEMMA DispatchMoves ==
    ASSUME NEW w, Claimed(w), Dispatch(w)
    PROVE  Moves(w)
<1>1. CASE Recover(w) \/ Reconcile(w) \/ \E p \in Selectable(w) : Select(w, p)
  <2>1. PICK mode, p : Decide(w, mode, p)
    BY <1>1 DEF Recover, Reconcile, Select
  <2>2. job'[w].pc = "send"
    BY <2>1 DEF Decide, Claimed, TypeOK, Job
  <2>3. QED
    BY <2>1, <2>2, QuietMoves DEF Decide, storeVars, leaseVars
<1>2. CASE ReplayDispatch(w)
  <2>1. job'[w].pc = "record"
    BY <1>2 DEF ReplayDispatch, Claimed, TypeOK, Job
  <2>2. QED
    BY <1>2, <2>1, QuietMoves DEF ReplayDispatch, storeVars, leaseVars
<1>3. CASE Send(w)
  <2>1. job'[w].step = job[w].step
    BY <1>3 DEF Send, Claimed, TypeOK, Job
  <2>2. /\ Holds(w) /\ BeginRows(Mission(w), job[w].step, job[w].profile) /\ UNCHANGED lease
        /\ steps[Mission(w)][job[w].step] \notin Outputs
    BY <1>3 DEF Send
  <2>3. QED
    BY <2>1, <2>2 DEF Moves, StepsMove, LeasesMove, BeginRows
<1>4. CASE CapacityGate(w) \/ BudgetGate(w) \/ Exhausted(w)
  <2>1. PICK pc \in {"defer", "nonretryable"} : GateLeg(w, pc)
    BY <1>4 DEF CapacityGate, BudgetGate, Exhausted
  <2>2. QED
    BY <2>1, GotoPc, QuietMoves DEF GateLeg, RecordRows, leaseVars
<1>5. CASE AnswerDispatch(w)
  <2>1. PICK a \in Answers \ {"timeout"} :
          /\ IF a \in SettledAnswers
             THEN Holds(w) /\ CompleteRows(Mission(w), job[w].step, a)
             ELSE UNCHANGED storeVars
          /\ job' = [job EXCEPT ![w].pc = "record", ![w].heard = a]
    BY <1>5 DEF AnswerDispatch
  <2>2. job'[w].pc = "record"
    BY <2>1 DEF Claimed, TypeOK, Job
  <2>3. CASE a \in SettledAnswers
    <3>1. a \in Outputs
      BY <2>3 DEF SettledAnswers, Outputs
    <3>2. QED
      BY <1>5, <2>1, <2>2, <2>3, <3>1 DEF AnswerDispatch, CompleteRows, leaseVars, Moves, StepsMove,
         LeasesMove
  <2>4. CASE a \notin SettledAnswers
    BY <2>1, <2>2, <2>4, QuietMoves DEF storeVars, leaseVars
  <2>5. QED
    BY <2>3, <2>4
<1>6. CASE RecordLeg(w)
  <2> DEFINE pc == AfterLeg(w)
             tried == IF pc = "route" THEN job[w].attempted \cup {job[w].profile}
                      ELSE job[w].attempted
  <2>1. job' = [job EXCEPT ![w] = [job[w] EXCEPT !.pc = pc, !.attempted = tried]]
    BY <1>6 DEF RecordLeg
  <2>2. pc # "calling"
    BY DEF AfterLeg
  <2> HIDE DEF pc, tried
  <2>3. job'[w].pc # "calling"
    BY <2>1, <2>2 DEF Claimed, TypeOK, Job
  <2>4. QED
    BY <1>6, <2>3, QuietMoves DEF RecordLeg, RecordRows, storeVars, leaseVars
<1>7. CASE RejectReceipt(w) \/ RefuseSwitch(w)
  BY <1>7, GotoPc, QuietMoves DEF RejectReceipt, RefuseSwitch, RecordRows, storeVars, leaseVars
<1>8. QED
  BY <1>1, <1>2, <1>3, <1>4, <1>5, <1>6, <1>7 DEF Dispatch

LEMMA HandleMoves ==
    ASSUME NEW w, Claimed(w), Handle(w)
    PROVE  Moves(w)
<1>1. CASE OnRetryable(w)
  BY <1>1, ReleaseMoves, EndWithMoves DEF OnRetryable, RetryRows
<1>2. CASE OnNonRetryable(w)
  BY <1>2, EndWithMoves DEF OnNonRetryable
<1>3. CASE OnDefer(w)
  BY <1>3, ReleaseMoves DEF OnDefer, DeferRows, storeVars, leaseVars
<1>4. CASE Fenced(w)
  BY <1>4, LeaseLostMoves DEF Fenced
<1>5. QED
  BY <1>1, <1>2, <1>3, <1>4 DEF Handle

LEMMA WorkMoves ==
    ASSUME NEW w, Claimed(w), StagedBegin(w), Work(w)
    PROVE  Moves(w)
<1>1. CASE ObserveCancel(w)
  BY <1>1, EndWithMoves, LeaseLostMoves, EnterPc, QuietMoves DEF ObserveCancel, storeVars, leaseVars
<1>2. CASE CheckCancel(w)
  BY <1>2, EndWithMoves, LeaseLostMoves, GotoPc, QuietMoves DEF CheckCancel, storeVars, leaseVars
<1>3. QED
  BY <1>1, <1>2, StepMoves, DispatchMoves, SettleMoves, HandleMoves DEF Work

-----------------------------------------------------------------------------
(* The open step of a lease holder has no recorded output.                    *)

OpenCall(w) == At(w, "calling") /\ Holds(w) => steps[Mission(w)][job[w].step] \notin Outputs
MemoInv == \A w \in Workers : OpenCall(w)
IMemo == IInv /\ MemoInv

\* The memo of a step is written once: by the holder that has it open.
LEMMA WorkKeepsMemo ==
    ASSUME IMemo, NEW w \in Workers, Work(w)
    PROVE  KeptMemo
<1>1. Claimed(w) /\ Moves(w)
  BY WorkIsClaimed, WorkMoves DEF IMemo
<1>2. OpenCall(w) /\ steps \in [Missions -> [StepNames -> StepStatus]] /\ Mission(w) \in Missions
  BY <1>1 DEF IMemo, MemoInv, Claimed, TypeOK, StoreTypeOK
<1>3. QED
  BY <1>1, <1>2 DEF Moves, StepsMove, OpenCall, KeptMemo

LEMMA WorkKeepsMemoInv ==
    ASSUME IMemo, NEW w \in Workers, Work(w)
    PROVE  MemoInv'
<1>1. IInv /\ ~At(w, "idle") /\ Claimed(w) /\ Moves(w) /\ Framed(w)
  BY WorkIsClaimed, WorkMoves, WorkFrame DEF IMemo
<1>2. steps \in [Missions -> [StepNames -> StepStatus]]
  BY <1>1 DEF Claimed, TypeOK, StoreTypeOK
<1>3. OpenCall(w)'
  <2> SUFFICES ASSUME job'[w].pc = "calling"
               PROVE  steps'[job'[w].on][job'[w].step] \notin Outputs
    BY DEF OpenCall, At, Mission
  <2>1. job'[w].on = Mission(w) /\ job'[w] \in Job
    BY <1>1 DEF Framed, JobFrame, Idle, Mission
  <2>2. /\ steps[Mission(w)][job'[w].step] \notin Outputs
        /\ steps' = [steps EXCEPT ![Mission(w)][job'[w].step] = IF @ = "none" THEN "started" ELSE @]
    BY <1>1 DEF Moves, StepsMove
  <2>3. "started" \notin Outputs
    BY DEF Outputs
  <2>4. QED
    BY <1>1, <1>2, <2>1, <2>2, <2>3 DEF Claimed, Job
<1>4. ASSUME NEW v \in Workers \ {w} PROVE OpenCall(v)'
  <2> SUFFICES ASSUME At(v, "calling")', Holds(v)'
               PROVE  steps'[job'[v].on][job'[v].step] \notin Outputs
    BY DEF OpenCall, Mission
  <2>1. job'[v] = job[v] /\ At(v, "calling") /\ ~At(v, "idle")
    BY <1>1 DEF Framed, JobFrame, At
  <2>2. Mission(v) \in Missions /\ job[v].tok >= 1
    BY <1>1, <2>1 DEF IInv, LeaseInv, Working
  <2>3. Holds(v)
    BY <1>1, <2>1, <2>2 DEF Holds, Mission, Framed, StoreFrame, LeaseFrame
  <2>4. steps[Mission(v)][job[v].step] \notin Outputs
    BY <2>1, <2>3 DEF IMemo, MemoInv, OpenCall
  <2>5. CASE Holds(w)
    <3>1. Mission(v) # Mission(w)
      BY <1>1, <2>1, <2>3, <2>5 DEF IInv, LeaseInv, Holds
    <3>2. steps'[Mission(v)] = steps[Mission(v)]
      BY <1>1, <1>2, <2>2, <3>1 DEF Moves, StepsMove
    <3>3. QED
      BY <2>1, <2>4, <3>2 DEF Mission
  <2>6. CASE ~Holds(w)
    BY <1>1, <2>1, <2>4, <2>6 DEF Moves, StepsMove, Mission
  <2>7. QED
    BY <2>5, <2>6
<1>5. QED
  BY <1>3, <1>4 DEF MemoInv

\* A step that writes no step row and opens none.
LEMMA OtherKeepsMemo ==
    ASSUME IMemo, UNCHANGED steps,
           \A v \in Workers : job'[v] = job[v] \/ job'[v].pc # "calling",
           \A v \in Workers : Working(v) /\ lease'[Mission(v)] = job[v].tok => Holds(v)
    PROVE  MemoInv' /\ KeptMemo
<1>1. KeptMemo
  BY DEF KeptMemo
<1>2. ASSUME NEW v \in Workers PROVE OpenCall(v)'
  <2> SUFFICES ASSUME At(v, "calling")', Holds(v)'
               PROVE  steps'[job'[v].on][job'[v].step] \notin Outputs
    BY DEF OpenCall, Mission
  <2>1. job'[v] = job[v] /\ At(v, "calling") /\ ~At(v, "idle")
    BY DEF At
  <2>2. Holds(v)
    BY <2>1 DEF Holds, Mission, IMemo, IInv, LeaseInv
  <2>3. QED
    BY <2>1, <2>2 DEF IMemo, MemoInv, OpenCall, Mission
<1>3. QED
  BY <1>1, <1>2 DEF MemoInv

LEMMA NextMemo == IMemo /\ [Next]_vars => MemoInv' /\ KeptMemo
<1> SUFFICES ASSUME IMemo, [Next]_vars PROVE MemoInv' /\ KeptMemo
  OBVIOUS
<1>1. IInv /\ TypeOK /\ StoreTypeOK /\ LeaseInv
  BY DEF IMemo, IInv, TypeOK
<1>2. ASSUME LeaseFrame
      PROVE  \A v \in Workers : Working(v) /\ lease'[Mission(v)] = job[v].tok => Holds(v)
  BY <1>2 DEF LeaseFrame, Working, Holds
<1>3. ASSUME NEW w \in Workers, NEW m \in Missions, Claim(w, m) \/ ClaimNamed(w, m)
      PROVE  MemoInv' /\ KeptMemo
  <2>1. Lease(w, m)
    BY <1>3 DEF Claim, ClaimNamed
  <2>2. UNCHANGED steps /\ lease' = [lease EXCEPT ![m] = serial[m] + 1]
    BY <2>1 DEF Lease, GrantLease
  <2>3. \A v \in Workers : Working(v) /\ lease'[Mission(v)] = job[v].tok => Holds(v)
    BY <1>1, <2>2 DEF Working, Holds, StoreTypeOK, TypeOK, Job
  <2>4. \A v \in Workers : job'[v] = job[v] \/ job'[v].pc # "calling"
    <3> DEFINE new == [Idle EXCEPT !.pc = "claimed", !.on = m, !.tok = lease'[m],
                                   !.resume_state = state'[m]]
    <3>1. job' = [job EXCEPT ![w] = new]
      BY <2>1 DEF Lease
    <3>2. new.pc = "claimed"
      BY DEF Idle
    <3> HIDE DEF new
    <3>3. QED
      BY <1>1, <3>1, <3>2 DEF TypeOK
  <2>5. QED
    BY <2>2, <2>3, <2>4, OtherKeepsMemo
<1>4. ASSUME NEW w \in Workers, Work(w) PROVE MemoInv' /\ KeptMemo
  BY <1>4, WorkKeepsMemo, WorkKeepsMemoInv
<1>5. ASSUME NEW w \in Workers, Heartbeat(w) \/ Crash(w) PROVE MemoInv' /\ KeptMemo
  <2>1. UNCHANGED <<steps, lease>>
    BY <1>5 DEF Heartbeat, Crash, storeVars, leaseVars
  <2>2. \A v \in Workers : job'[v] = job[v] \/ job'[v].pc # "calling"
    BY <1>1, <1>5 DEF Heartbeat, Crash, Return, Idle, TypeOK
  <2>3. QED
    BY <2>1, <2>2, OtherKeepsMemo DEF Holds
<1>6. CASE \/ \E m \in Missions : Expire(m)
           \/ RecoverStale \/ Operator \/ UNCHANGED vars
  <2>1. UNCHANGED <<steps, job>>
    BY <1>6 DEF Expire, RecoverStale, recover_stale, Operator, submit, cancel, record_reconciliation,
       resume_pre_provider, add_dependency, vars, storeVars
  <2>2. LeaseFrame
    <3>1. CASE RecoverStale
      BY <1>1, <3>1, RecoverStaleFrame DEF RecoverStale, StoreFrame
    <3>2. CASE Operator
      BY <1>1, <3>2, OperatorFrame DEF StoreFrame
    <3>3. CASE (\E m \in Missions : Expire(m)) \/ UNCHANGED vars
      BY <3>3 DEF Expire, vars, storeVars, leaseVars, LeaseFrame
    <3>4. QED
      BY <1>6, <3>1, <3>2, <3>3
  <2>3. QED
    BY <1>2, <2>1, <2>2, OtherKeepsMemo
<1>7. QED
  BY <1>3, <1>4, <1>5, <1>6 DEF Next

\* A COMPLETED step row is never rewritten, for any number of workers, crashes
\* and expired leases.
THEOREM MemoIsStable == Spec => MemoStable
<1>1. Init => IMemo
  BY InitIInv DEF IMemo, MemoInv, OpenCall, At, Init, Idle
<1>2. IMemo /\ [Next]_vars => IMemo' /\ KeptMemo
  BY NextIInv, NextMemo DEF IMemo
<1>3. QED
  BY <1>1, <1>2, PTL DEF Spec, MemoStable

\* No lease is taken from a worker before it expired.
THEOREM LeaseIsKept == Spec => LeaseNotStolen
<1>1. IInv /\ [Next]_vars => GivenUp
  <2> SUFFICES ASSUME IInv, [Next]_vars, NEW m \in Missions,
                      lease[m] # 0, ~expired[m], lease'[m] # lease[m]
               PROVE  \E w \in Workers : /\ ~At(w, "idle") /\ Mission(w) = m /\ Holds(w)
                                        /\ job'[w] = Idle
    BY DEF GivenUp
  <2>1. TypeOK /\ StoreTypeOK
    BY DEF IInv, TypeOK
  <2>2. \A w \in Workers, x \in Missions : ~Claim(w, x) /\ ~ClaimNamed(w, x)
    BY <2>1 DEF Claim, ClaimNamed, Lease, GrantLease, StoreTypeOK
  <2>3. ASSUME NEW w \in Workers, Work(w)
        PROVE  ~At(w, "idle") /\ Mission(w) = m /\ Holds(w) /\ job'[w] = Idle
    BY <2>3, WorkIsClaimed, WorkMoves DEF Moves, LeasesMove
  <2>4. ~RecoverStale
    BY <2>1 DEF RecoverStale, recover_stale, Stale
  <2>5. \A w \in Workers : ~Heartbeat(w) /\ ~Crash(w)
    BY DEF Heartbeat, Crash, storeVars, leaseVars
  <2>6. (\A x \in Missions : ~Expire(x)) /\ ~Operator /\ ~UNCHANGED vars
    BY DEF Expire, Operator, submit, cancel, record_reconciliation, resume_pre_provider,
       add_dependency, vars, storeVars, leaseVars
  <2>7. QED
    BY <2>2, <2>3, <2>4, <2>5, <2>6 DEF Next
<1>2. QED
  BY <1>1, Invariance, PTL DEF Spec, LeaseNotStolen

-----------------------------------------------------------------------------
(* What a step may do to the mission rows and to the edges.                   *)

\* A worker changes no row, applies one transition the table admits, or hands
\* its dispatching mission back; it completes one only when it finishes.
RowsMove(w) ==
    \/ UNCHANGED <<state, cancelRequested, edges, lease>>
    \/ \E new \in States : /\ CanTransition(Mission(w), new) /\ TransitionRows(Mission(w), new)
                           /\ new = "completed" => At(w, "finish")
    \/ /\ state[Mission(w)] = "dispatching" /\ UNCHANGED <<cancelRequested, edges>>
       /\ \E new \in {"admitted", "escalated"} : state' = [state EXCEPT ![Mission(w)] = new]

LEMMA EndWithRows ==
    ASSUME NEW w, NEW new \in States, new = "completed" => At(w, "finish"), EndWith(w, new)
    PROVE  RowsMove(w)
  BY DEF EndWith, TransitionTo, InvalidTransition, RowsMove, storeVars, leaseVars, missionVars

LEMMA LeaseLostRows ==
    ASSUME NEW w, LeaseLost(w)
    PROVE  RowsMove(w)
  BY DEF LeaseLost, RowsMove, storeVars, leaseVars, missionVars

LEMMA AdvanceRows ==
    ASSUME NEW w, NEW new \in States \ {"completed"}, NEW before, NEW stage,
           Advance(w, new, before, stage)
    PROVE  RowsMove(w)
  BY DEF Advance, TransitionTo, InvalidTransition, RowsMove, storeVars, leaseVars, missionVars

LEMMA StepRows ==
    ASSUME NEW w, Step(w) \/ Dispatch(w)
    PROVE  RowsMove(w)
<1> USE DEF RowsMove, storeVars, leaseVars, missionVars
<1>1. CASE Step(w)
  BY <1>1 DEF Step, Replay, BeginStep, AnswerStep, AdapterFails, RefuseContext, BeginRows, CompleteRows
<1>2. CASE Recover(w) \/ Reconcile(w) \/ \E p \in Selectable(w) : Select(w, p)
  BY <1>2 DEF Recover, Reconcile, Select, Decide
<1>3. CASE ReplayDispatch(w) \/ Send(w) \/ AnswerDispatch(w)
  BY <1>3 DEF ReplayDispatch, Send, AnswerDispatch, BeginRows, CompleteRows
<1>4. CASE CapacityGate(w) \/ BudgetGate(w) \/ Exhausted(w)
  BY <1>4 DEF CapacityGate, BudgetGate, Exhausted, GateLeg, RecordRows
<1>5. CASE RecordLeg(w) \/ RejectReceipt(w) \/ RefuseSwitch(w)
  BY <1>5 DEF RecordLeg, RejectReceipt, RefuseSwitch, RecordRows
<1>6. QED
  BY <1>1, <1>2, <1>3, <1>4, <1>5 DEF Dispatch

LEMMA SettleRows ==
    ASSUME NEW w, Settle(w)
    PROVE  RowsMove(w)
<1> USE DEF States, TERMINAL, RECOVERABLE
<1>1. ASSUME NEW pc, Raise(w, pc) PROVE RowsMove(w)
  BY <1>1 DEF Raise, RowsMove, storeVars, leaseVars, missionVars
<1>2. CASE SettleContext(w)
  BY <1>1, <1>2 DEF SettleContext, RowsMove, storeVars, leaseVars, missionVars
<1>3. CASE SettleDispatch(w)
  BY <1>1, <1>3, AdvanceRows, EndWithRows DEF SettleDispatch
<1>4. CASE SettleVerify(w)
  BY <1>1, <1>4, AdvanceRows DEF SettleVerify
<1>5. CASE SettleEvaluate(w)
  BY <1>1, <1>5, AdvanceRows, EndWithRows DEF SettleEvaluate
<1>6. CASE SettleEvidence(w)
  <2>1. CASE TransitionTo(w, "evidence_sealed", FALSE) \/ InvalidTransition(w, "evidence_sealed")
    BY <2>1 DEF TransitionTo, InvalidTransition, RowsMove, storeVars, leaseVars, missionVars
  <2>2. QED
    BY <1>1, <1>6, <2>1 DEF SettleEvidence
<1>7. CASE Finish(w)
  BY <1>7, EndWithRows DEF Finish
<1>8. QED
  BY <1>2, <1>3, <1>4, <1>5, <1>6, <1>7 DEF Settle

LEMMA HandleRows ==
    ASSUME NEW w, Handle(w)
    PROVE  RowsMove(w)
<1> USE DEF States, TERMINAL
<1>1. CASE OnRetryable(w)
  BY <1>1, EndWithRows DEF OnRetryable, RetryRows, RowsMove
<1>2. CASE OnNonRetryable(w)
  BY <1>2, EndWithRows DEF OnNonRetryable
<1>3. CASE OnDefer(w)
  BY <1>3 DEF OnDefer, CanDefer, DeferRows, RowsMove, storeVars, leaseVars, missionVars
<1>4. CASE Fenced(w)
  BY <1>4, LeaseLostRows DEF Fenced
<1>5. QED
  BY <1>1, <1>2, <1>3, <1>4 DEF Handle

LEMMA WorkRows ==
    ASSUME NEW w, Work(w)
    PROVE  RowsMove(w)
<1> USE DEF States, TERMINAL
<1>1. CASE ObserveCancel(w)
  BY <1>1, EndWithRows, LeaseLostRows DEF ObserveCancel, RowsMove, storeVars, leaseVars, missionVars
<1>2. CASE CheckCancel(w)
  BY <1>2, EndWithRows, LeaseLostRows DEF CheckCancel, RowsMove, storeVars, leaseVars, missionVars
<1>3. QED
  BY <1>1, <1>2, StepRows, SettleRows, HandleRows DEF Work

\* Where the next transaction may take a mission row.
NextStates == [s \in States |->
    CASE s = "absent"      -> {"admitted"}
      [] s = "admitted"    -> {"dispatching", "cancelled"}
      [] s = "dispatching" -> ALLOWED_TRANSITIONS[s] \cup {"escalated"}
      [] s \in RECOVERABLE -> ALLOWED_TRANSITIONS[s] \cup {"cancelled"}
      [] s = "escalated"   -> {"failed", "cancelled", "admitted"}
      [] s = "refused"     -> {"admitted"}
      [] s = "failed"      -> {"admitted"}
      [] OTHER             -> {}]

RowMoves(m) == state'[m] # state[m] => state'[m] \in NextStates[state[m]]

LEMMA TransitionMoves ==
    ASSUME StoreTypeOK, NEW m \in Missions, NEW new \in States,
           CanTransition(m, new), TransitionRows(m, new)
    PROVE  \A x \in Missions : RowMoves(x)
<1>1. new \in NextStates[state[m]]
  BY DEF StoreTypeOK, CanTransition, ALLOWED_TRANSITIONS, NextStates, States, TERMINAL, RECOVERABLE
<1>2. "cancelled" \in NextStates["admitted"]
  BY DEF NextStates, States
<1>3. QED
  BY <1>1, <1>2 DEF TransitionRows, RowMoves

LEMMA OperatorMoves ==
    ASSUME StoreTypeOK, Operator
    PROVE  \A x \in Missions : RowMoves(x)
<1> USE DEF StoreTypeOK, RowMoves, NextStates, States, TERMINAL, RECOVERABLE
<1>1. PICK m \in Missions :
          \/ submit(m) \/ cancel(m) \/ record_reconciliation(m) \/ resume_pre_provider(m)
          \/ \E d \in Missions, policy \in ON_FAILURE : add_dependency(m, d, policy)
  BY DEF Operator
<1>2. CASE submit(m)
  BY <1>2 DEF submit
<1>3. CASE cancel(m)
  BY <1>3 DEF cancel
<1>4. CASE resume_pre_provider(m)
  BY <1>4 DEF resume_pre_provider, TERMINAL_RECOVERABLE
<1>5. CASE record_reconciliation(m)
  BY <1>5 DEF record_reconciliation, missionVars
<1>6. CASE \E d \in Missions, policy \in ON_FAILURE : add_dependency(m, d, policy)
  BY <1>6 DEF add_dependency, missionVars
<1>7. QED
  BY <1>1, <1>2, <1>3, <1>4, <1>5, <1>6

LEMMA RecoveryMoves ==
    ASSUME StoreTypeOK, recover_stale, \A m \in Missions : state[m] = "absent" => lease[m] = 0
    PROVE  \A x \in Missions : RowMoves(x)
<1> SUFFICES ASSUME NEW x \in Missions PROVE RowMoves(x)
  OBVIOUS
<1>1. state'[x] = IF Stale(x) THEN RecoveredState(x) ELSE state[x]
  BY DEF recover_stale
<1>2. ASSUME Stale(x) PROVE RowMoves(x)
  <2>1. state[x] # "absent"
    BY <1>2 DEF Stale
  <2>2. QED
    BY <1>1, <1>2, <2>1 DEF Stale, RecoveredState, StoreTypeOK, RowMoves, NextStates,
       ALLOWED_TRANSITIONS, States, TERMINAL, RECOVERABLE
<1>3. QED
  BY <1>1, <1>2 DEF RowMoves

\* What a step does to the edges: nothing, a completion that releases them, or
\* a declaration.
EdgesMove ==
    \/ /\ edges' = edges
       /\ \A m \in Missions : state'[m] = "completed" => state[m] = "completed"
    \/ \E w \in Workers : /\ At(w, "finish") /\ Mission(w) \in Missions
                          /\ CanTransition(Mission(w), "completed")
                          /\ TransitionRows(Mission(w), "completed")
    \/ \E m, d \in Missions, policy \in ON_FAILURE : add_dependency(m, d, policy)

\* What the rows owe each other: a mission that was never submitted has no lease
\* and no edge, and an edge is released exactly when its prerequisite completed.
Recorded == \A m \in Missions : state[m] = "absent" => lease[m] = 0
EndsSubmitted == \A e \in edges : state[e.of] # "absent" /\ state[e.on] # "absent"
LedgerInv == Recorded /\ EndsSubmitted /\ ReleasedIffCompleted
ILedger == IInv /\ LedgerInv

LEMMA WorkEdges ==
    ASSUME StoreTypeOK, NEW w \in Workers, Mission(w) \in Missions, RowsMove(w)
    PROVE  (\A x \in Missions : RowMoves(x)) /\ EdgesMove
<1>1. CASE UNCHANGED <<state, cancelRequested, edges, lease>>
  BY <1>1 DEF RowMoves, EdgesMove
<1>2. ASSUME NEW new \in States, CanTransition(Mission(w), new), TransitionRows(Mission(w), new),
             new = "completed" => At(w, "finish")
      PROVE  (\A x \in Missions : RowMoves(x)) /\ EdgesMove
  <2>1. \A x \in Missions : RowMoves(x)
    BY <1>2, TransitionMoves
  <2>2. CASE new = "completed"
    BY <1>2, <2>1, <2>2 DEF EdgesMove
  <2>3. CASE new # "completed"
    BY <1>2, <2>1, <2>3 DEF EdgesMove, TransitionRows
  <2>4. QED
    BY <2>2, <2>3, <2>1
<1>3. ASSUME state[Mission(w)] = "dispatching", UNCHANGED <<cancelRequested, edges>>,
             NEW new \in {"admitted", "escalated"}, state' = [state EXCEPT ![Mission(w)] = new]
      PROVE  (\A x \in Missions : RowMoves(x)) /\ EdgesMove
  <2>1. {"admitted", "escalated"} \subseteq NextStates["dispatching"]
    BY DEF NextStates, RECOVERABLE, ALLOWED_TRANSITIONS, States
  <2>2. QED
    BY <1>3, <2>1 DEF RowMoves, EdgesMove, StoreTypeOK
<1>4. QED
  BY <1>1, <1>2, <1>3 DEF RowsMove

LEMMA NextRows ==
    ASSUME IInv, Recorded, [Next]_vars
    PROVE  (\A x \in Missions : RowMoves(x)) /\ EdgesMove
<1>1. TypeOK /\ StoreTypeOK
  BY DEF IInv, TypeOK
<1>2. ASSUME NEW w \in Workers, NEW m \in Missions, Claim(w, m) \/ ClaimNamed(w, m)
      PROVE  (\A x \in Missions : RowMoves(x)) /\ EdgesMove
  <2>1. GrantLease(m)
    BY <1>2 DEF Claim, ClaimNamed, Lease
  <2>2. "dispatching" \in NextStates["admitted"]
    BY DEF NextStates, States, RECOVERABLE
  <2>3. QED
    BY <1>1, <2>1, <2>2 DEF GrantLease, RowMoves, EdgesMove, StoreTypeOK
<1>3. ASSUME NEW w \in Workers, Work(w)
      PROVE  (\A x \in Missions : RowMoves(x)) /\ EdgesMove
  BY <1>1, <1>3, WorkIsClaimed, WorkRows, WorkEdges DEF Claimed
<1>4. CASE \/ \E w \in Workers : Heartbeat(w) \/ Crash(w)
           \/ \E m \in Missions : Expire(m)
           \/ UNCHANGED vars
  BY <1>4 DEF Heartbeat, Crash, Expire, vars, storeVars, missionVars, RowMoves, EdgesMove
<1>5. CASE RecoverStale
  <2>1. \A x \in Missions : RowMoves(x)
    BY <1>1, <1>5, RecoveryMoves DEF RecoverStale, Recorded
  <2>2. EdgesMove
    BY <1>5 DEF RecoverStale, recover_stale, RecoveredState, EdgesMove, RECOVERABLE
  <2>3. QED
    BY <2>1, <2>2
<1>6. CASE Operator
  <2>1. \A x \in Missions : RowMoves(x)
    BY <1>1, <1>6, OperatorMoves
  <2>2. EdgesMove
    BY <1>1, <1>6 DEF Operator, submit, cancel, record_reconciliation, resume_pre_provider, missionVars,
       StoreTypeOK, EdgesMove
  <2>3. QED
    BY <2>1, <2>2
<1>7. QED
  BY <1>2, <1>3, <1>4, <1>5, <1>6 DEF Next

\* A lease is granted only on a mission that was submitted.
LEMMA NextRecorded ==
    ASSUME IInv, LedgerInv, [Next]_vars
    PROVE  Recorded' /\ EndsSubmitted'
<1>1. StoreTypeOK /\ Recorded /\ EndsSubmitted
  BY DEF IInv, TypeOK, LedgerInv
<1>2. \A x \in Missions : RowMoves(x)
  BY <1>1, NextRows
<1>3. \A x \in Missions : state[x] # "absent" => state'[x] # "absent"
  BY <1>1, <1>2 DEF RowMoves, NextStates, ALLOWED_TRANSITIONS, StoreTypeOK, States, TERMINAL, RECOVERABLE
<1>4. \A x \in Missions : lease'[x] \in {lease[x], 0} \/ state[x] # "absent"
  <2>1. ASSUME NEW w \in Workers, NEW m \in Missions, Claim(w, m) \/ ClaimNamed(w, m)
        PROVE  state[m] # "absent" /\ lease' = [lease EXCEPT ![m] = serial[m] + 1]
    BY <2>1 DEF Claim, ClaimNamed, Lease, GrantLease, Schedulable, Resume, Candidate, RECOVERABLE
  <2>2. ASSUME NEW w \in Workers, Work(w) PROVE LeaseFrame
    BY <2>2, WorkIsClaimed, WorkFrame DEF Framed, StoreFrame
  <2>3. CASE RecoverStale \/ Operator
    BY <1>1, <2>3, RecoverStaleFrame, OperatorFrame DEF RecoverStale, StoreFrame, LeaseFrame
  <2>4. CASE \/ \E w \in Workers : Heartbeat(w) \/ Crash(w)
             \/ \E m \in Missions : Expire(m)
             \/ UNCHANGED vars
    BY <2>4 DEF Heartbeat, Crash, Expire, vars, storeVars, leaseVars
  <2>5. QED
    BY <1>1, <2>1, <2>2, <2>3, <2>4 DEF Next, LeaseFrame, StoreTypeOK
<1>5. Recorded'
  BY <1>1, <1>3, <1>4 DEF Recorded
<1>6. EndsSubmitted'
  <2>1. CASE edges' = edges
    BY <1>1, <1>3, <2>1 DEF EndsSubmitted, StoreTypeOK, Edge
  <2>2. ASSUME NEW m \in Missions, edges' = Released(m) PROVE EndsSubmitted'
    <3> SUFFICES ASSUME NEW e \in edges' PROVE state'[e.of] # "absent" /\ state'[e.on] # "absent"
      BY DEF EndsSubmitted
    <3>1. PICK x \in edges : e = IF x.on = m /\ ~x.released THEN [x EXCEPT !.released = TRUE] ELSE x
      BY <2>2 DEF Released
    <3>2. e.of = x.of /\ e.on = x.on /\ x \in Edge
      BY <1>1, <3>1 DEF StoreTypeOK, Edge
    <3>3. QED
      BY <1>1, <1>3, <3>2 DEF EndsSubmitted, Edge
  <2>3. ASSUME NEW m \in Missions, NEW d \in Missions, NEW policy, add_dependency(m, d, policy)
        PROVE  EndsSubmitted'
    BY <1>1, <1>3, <2>3 DEF add_dependency, EndsSubmitted, StoreTypeOK, Edge
  <2>4. EdgesMove
    BY <1>1, NextRows
  <2>5. QED
    BY <2>1, <2>2, <2>3, <2>4 DEF EdgesMove, TransitionRows
<1>7. QED
  BY <1>5, <1>6

LEMMA NextReleased ==
    ASSUME StoreTypeOK, ReleasedIffCompleted, \A x \in Missions : RowMoves(x), EdgesMove
    PROVE  ReleasedIffCompleted'
<1>1. \A x \in Missions : state[x] = "completed" => state'[x] = "completed"
  BY DEF RowMoves, NextStates, States, TERMINAL, RECOVERABLE
<1>2. CASE edges' = edges /\ \A m \in Missions : state'[m] = "completed" => state[m] = "completed"
  BY <1>1, <1>2 DEF ReleasedIffCompleted, StoreTypeOK, Edge
<1>3. ASSUME NEW m \in Missions, TransitionRows(m, "completed") PROVE ReleasedIffCompleted'
  <2>1. /\ edges' = Released(m)
        /\ \A x \in Missions : state'[x] = IF x = m THEN "completed" ELSE state[x]
    BY <1>3 DEF TransitionRows
  <2> SUFFICES ASSUME NEW e \in edges' PROVE e.released <=> state'[e.on] = "completed"
    BY DEF ReleasedIffCompleted
  <2>2. PICK x \in edges : e = IF x.on = m /\ ~x.released THEN [x EXCEPT !.released = TRUE] ELSE x
    BY <2>1 DEF Released
  <2>3. /\ e.on = x.on /\ x \in Edge /\ x.on \in Missions
        /\ e.released = (x.on = m \/ x.released)
    BY <2>2 DEF StoreTypeOK, Edge
  <2>4. x.released <=> state[x.on] = "completed"
    BY DEF ReleasedIffCompleted
  <2>5. QED
    BY <2>1, <2>3, <2>4
<1>4. ASSUME NEW m \in Missions, NEW d \in Missions, NEW policy, add_dependency(m, d, policy)
      PROVE  ReleasedIffCompleted'
  <2> DEFINE new == [of |-> m, on |-> d, on_failure |-> policy, released |-> (state[d] = "completed")]
  <2>1. edges' = edges \cup {new} /\ state' = state
    BY <1>4 DEF add_dependency, missionVars
  <2>2. new.on = d /\ (new.released <=> state[d] = "completed")
    OBVIOUS
  <2> HIDE DEF new
  <2>3. QED
    BY <2>1, <2>2 DEF ReleasedIffCompleted
<1>5. QED
  BY <1>2, <1>3, <1>4 DEF EdgesMove

LEMMA NextLedger == ILedger /\ [Next]_vars => ILedger'
<1> SUFFICES ASSUME ILedger, [Next]_vars PROVE ILedger'
  OBVIOUS
<1>1. IInv /\ LedgerInv /\ StoreTypeOK
  BY DEF ILedger, IInv, TypeOK
<1>2. (\A x \in Missions : RowMoves(x)) /\ EdgesMove
  BY <1>1, NextRows DEF LedgerInv
<1>3. QED
  BY <1>1, <1>2, NextIInv, NextRecorded, NextReleased DEF ILedger, LedgerInv

LEMMA InitLedger == Init => ILedger
  BY InitIInv DEF ILedger, LedgerInv, Recorded, EndsSubmitted, ReleasedIffCompleted, Init, InitStore

\* What the rows of the ledger owe each other: what was never submitted has no lease
\* and no edge, and an edge is released exactly when its prerequisite completed.
THEOREM Ledger == Spec => []ILedger
  BY InitLedger, NextLedger, PTL DEF Spec

\* An edge is released exactly when its prerequisite completed, whichever of the
\* two came first, for any number of missions and edges.
THEOREM ReleasedOnCompletion == Spec => []ReleasedIffCompleted
<1>1. ILedger => ReleasedIffCompleted
  BY DEF ILedger, LedgerInv
<1>2. QED
  BY <1>1, Ledger, PTL

\* Past the dispatch boundary a mission only moves forward or stops, for any
\* number of Controllers, crashes, expiries and repairs.
THEOREM OnlyForward == Spec => NeverBackward
<1> DEFINE Forward == \A m \in Missions : state[m] \in RECOVERABLE =>
                          /\ state'[m] \notin {"admitted", "dispatching", "absent"}
                          /\ Rank(state'[m]) >= Rank(state[m])
<1>1. ILedger /\ [Next]_vars => Forward
  <2> SUFFICES ASSUME ILedger, [Next]_vars, NEW m \in Missions, state[m] \in RECOVERABLE
               PROVE  /\ state'[m] \notin {"admitted", "dispatching", "absent"}
                      /\ Rank(state'[m]) >= Rank(state[m])
    OBVIOUS
  <2>1. RowMoves(m)
    BY NextRows DEF ILedger, LedgerInv
  <2>2. CASE state'[m] = state[m]
    BY <2>2 DEF RECOVERABLE, Rank
  <2>3. CASE state'[m] # state[m]
    <3>1. state'[m] \in NextStates[state[m]]
      BY <2>1, <2>3 DEF RowMoves
    <3>2. NextStates[state[m]] = ALLOWED_TRANSITIONS[state[m]] \cup {"cancelled"}
      BY DEF NextStates, States, RECOVERABLE
    <3>3. /\ ALLOWED_TRANSITIONS["dispatched"] = {"candidate_verified", "refused", "failed", "escalated"}
          /\ ALLOWED_TRANSITIONS["candidate_verified"] = {"evaluated", "refused", "failed", "escalated"}
          /\ ALLOWED_TRANSITIONS["evaluated"] = {"evidence_sealed", "refused", "failed", "escalated"}
          /\ ALLOWED_TRANSITIONS["evidence_sealed"] = {"completed", "escalated"}
      BY DEF ALLOWED_TRANSITIONS, States, RECOVERABLE
    <3>4. \A s \in {"refused", "failed", "escalated", "cancelled", "completed"} : Rank(s) = 5
      BY DEF Rank
    <3>5. /\ Rank("dispatched") = 1 /\ Rank("candidate_verified") = 2 /\ Rank("evaluated") = 3
          /\ Rank("evidence_sealed") = 4
      BY DEF Rank
    <3>6. QED
      BY <3>1, <3>2, <3>3, <3>4, <3>5 DEF RECOVERABLE
  <2>4. QED
    BY <2>2, <2>3
<1>2. QED
  BY <1>1, Ledger, PTL DEF Spec, NeverBackward

-----------------------------------------------------------------------------
(* The graph.  A cycle would be a way back from the end of an edge to its      *)
(* start; a closed set that holds the one and not the other is the witness     *)
(* that there is none, and every step leaves such a witness for every edge.    *)

Closed(E, S) == \A e \in E : e.of \in S => e.on \in S

LEMMA ApartWitness ==
    ASSUME NEW E, NEW a, NEW b
    PROVE  ~Reaches(E, a, b) <=> \E S \in SUBSET Missions : a \in S /\ Closed(E, S) /\ b \notin S
  BY DEF Reaches, Closed

LEMMA NewEdgeAcyclic ==
    ASSUME StoreTypeOK, Acyclic, NEW m \in Missions, NEW d \in Missions, NEW policy \in ON_FAILURE,
           add_dependency(m, d, policy)
    PROVE  Acyclic'
<1> DEFINE new == [of |-> m, on |-> d, on_failure |-> policy, released |-> (state[d] = "completed")]
<1>1. edges' = edges \cup {new} /\ ~Reaches(edges, d, m)
  BY DEF add_dependency, cycle_path
<1>2. new.of = m /\ new.on = d
  OBVIOUS
<1> HIDE DEF new
<1>3. PICK S \in SUBSET Missions : d \in S /\ Closed(edges, S) /\ m \notin S
  BY <1>1, ApartWitness
<1> SUFFICES ASSUME NEW x \in Missions, NEW y \in Missions, NEW e \in edges', e.of = x, e.on = y
             PROVE  ~Reaches(edges', y, x)
  BY DEF Acyclic
<1> SUFFICES \E T \in SUBSET Missions : y \in T /\ Closed(edges', T) /\ x \notin T
  BY ApartWitness
<1>4. CASE e = new
  BY <1>1, <1>2, <1>3, <1>4 DEF Closed
<1>5. CASE e \in edges
  <2>1. PICK T \in SUBSET Missions : y \in T /\ Closed(edges, T) /\ x \notin T
    BY <1>5, ApartWitness DEF Acyclic
  <2>2. CASE m \notin T
    BY <1>1, <1>2, <2>1, <2>2 DEF Closed
  <2>3. CASE m \in T /\ x \notin S
    <3>1. /\ T \cup S \in SUBSET Missions /\ y \in T \cup S /\ x \notin T \cup S
          /\ Closed(edges', T \cup S)
      BY <1>1, <1>2, <1>3, <2>1, <2>3 DEF Closed
    <3>2. QED
      BY <3>1
  <2>4. CASE m \in T /\ x \in S
    <3>1. y \in S
      BY <1>3, <1>5, <2>4 DEF Closed
    <3>2. /\ T \cap S \in SUBSET Missions /\ y \in T \cap S /\ x \notin T \cap S
          /\ Closed(edges', T \cap S)
      BY <1>1, <1>2, <1>3, <2>1, <3>1 DEF Closed
    <3>3. QED
      BY <3>2
  <2>5. QED
    BY <2>2, <2>3, <2>4
<1>6. QED
  BY <1>1, <1>4, <1>5

\* A release changes no end of an edge.
LEMMA ReleaseAcyclic ==
    ASSUME StoreTypeOK, Acyclic, NEW m, edges' = Released(m)
    PROVE  Acyclic'
<1>1. \A x \in edges : [x EXCEPT !.released = TRUE].of = x.of /\ [x EXCEPT !.released = TRUE].on = x.on
  BY DEF StoreTypeOK, Edge
<1>2. \A e \in edges' : \E x \in edges : e.of = x.of /\ e.on = x.on
  BY <1>1 DEF Released
<1>3. \A T : Closed(edges, T) => Closed(edges', T)
  BY <1>2 DEF Closed
<1>4. QED
  BY <1>2, <1>3, ApartWitness DEF Acyclic

\* No sequence of declarations, releases and completions makes a mission wait for
\* itself, whatever the number of missions.
THEOREM GraphIsAcyclic == Spec => []Acyclic
<1>1. Init => Acyclic
  BY DEF Init, InitStore, Acyclic
<1>2. ILedger /\ Acyclic /\ [Next]_vars => Acyclic'
  <2> SUFFICES ASSUME ILedger, Acyclic, [Next]_vars PROVE Acyclic'
    OBVIOUS
  <2>1. StoreTypeOK /\ EdgesMove
    BY NextRows DEF ILedger, LedgerInv, IInv, TypeOK
  <2>2. CASE edges' = edges
    BY <2>2 DEF Acyclic, Reaches
  <2>3. CASE \E m : edges' = Released(m)
    BY <2>1, <2>3, ReleaseAcyclic
  <2>4. CASE \E m, d \in Missions, policy \in ON_FAILURE : add_dependency(m, d, policy)
    BY <2>1, <2>4, NewEdgeAcyclic
  <2>5. QED
    BY <2>1, <2>2, <2>3, <2>4 DEF EdgesMove, TransitionRows
<1>3. QED
  BY <1>1, <1>2, Ledger, PTL DEF Spec

-----------------------------------------------------------------------------
(* How a step of work_once moves its worker: the moves that write nothing are  *)
(* gathered here, the others are the actions themselves.                       *)

Leave(w) == Return(w) /\ UNCHANGED steps

Park(w) ==
    /\ \E pc \in {"retryable", "nonretryable", "defer"} : Goto(w, pc)
    /\ UNCHANGED steps

\* The stage each stage is entered from.
Before == [stage \in Stages \ {"context"} |->
    CASE stage = "dispatch" -> "context" [] stage = "verify" -> "dispatch"
      [] stage = "evaluate" -> "verify" [] OTHER -> "evaluate"]

Start(w) == At(w, "claimed") /\ Enter(w, "context") /\ UNCHANGED steps

Proceed(w) ==
    /\ \E stage \in Stages \ {"context"} :
          Settling(w, Before[stage]) /\ job[w].heard = "ok" /\ Enter(w, stage)
    /\ UNCHANGED steps

Pass(w) ==
    /\ \/ At(w, "check") /\ Goto(w, "settle")
       \/ Settling(w, "evidence") /\ job[w].heard = "ok" /\ Goto(w, "finish")
    /\ UNCHANGED steps

Chosen(w) ==
    At(w, "route") /\ \E mode, p : Decide(w, mode, p) /\ (mode = "fresh" => MaySelect(w))

\* Leaving, parking, passing a check, entering a stage.
Drift(w) == Leave(w) \/ Park(w) \/ Start(w) \/ Proceed(w) \/ Pass(w)

\* The moves that call the layer, or hear from it or from the memo.
Talk(w) ==
    \/ Replay(w) \/ BeginStep(w) \/ AnswerStep(w)
    \/ Chosen(w) \/ ReplayDispatch(w) \/ Send(w) \/ AnswerDispatch(w) \/ RecordLeg(w)

LEMMA EndWithLeaves ==
    ASSUME NEW w, NEW new, EndWith(w, new)
    PROVE  Leave(w)
  BY DEF EndWith, TransitionTo, TransitionRows, InvalidTransition, Leave, storeVars

LEMMA LeaseLostLeaves ==
    ASSUME NEW w, LeaseLost(w)
    PROVE  Leave(w)
  BY DEF LeaseLost, Leave, storeVars

LEMMA AdvanceProceeds ==
    ASSUME NEW w, NEW new, NEW before, NEW stage \in Stages \ {"context"},
           Settling(w, Before[stage]), job[w].heard = "ok", Advance(w, new, before, stage)
    PROVE  Drift(w)
<1>1. CASE InvalidTransition(w, new)
  BY <1>1 DEF InvalidTransition, Drift, Leave, storeVars
<1>2. CASE Enter(w, stage)
  <2>1. UNCHANGED steps
    BY DEF Advance, TransitionTo, TransitionRows, InvalidTransition, storeVars
  <2>2. QED
    BY <1>2, <2>1 DEF Drift, Proceed
<1>3. QED
  BY <1>1, <1>2 DEF Advance

LEMMA SettleDrifts ==
    ASSUME NEW w, Settle(w)
    PROVE  Drift(w)
<1>1. /\ Before["dispatch"] = "context" /\ Before["verify"] = "dispatch"
      /\ Before["evaluate"] = "verify" /\ Before["evidence"] = "evaluate"
  BY DEF Before, Stages
<1>2. ASSUME NEW pc \in {"retryable", "nonretryable"}, Raise(w, pc) PROVE Drift(w)
  BY <1>2 DEF Raise, Drift, Park, storeVars
<1>3. CASE SettleContext(w)
  <2>1. CASE job[w].heard = "ok"
    BY <1>1, <1>3, <2>1 DEF SettleContext, Drift, Proceed, Stages, storeVars
  <2>2. CASE job[w].heard # "ok"
    BY <1>2, <1>3, <2>2 DEF SettleContext
  <2>3. QED
    BY <2>1, <2>2
<1>4. CASE SettleDispatch(w)
  <2>1. CASE job[w].heard = "ok"
    BY <1>1, <1>4, <2>1, AdvanceProceeds DEF SettleDispatch, Stages
  <2>2. CASE job[w].heard # "ok"
    BY <1>2, <1>4, <2>2, EndWithLeaves DEF SettleDispatch, Drift
  <2>3. QED
    BY <2>1, <2>2
<1>5. CASE SettleVerify(w)
  BY <1>1, <1>2, <1>5, AdvanceProceeds DEF SettleVerify, Stages
<1>6. CASE SettleEvaluate(w)
  BY <1>1, <1>6, AdvanceProceeds, EndWithLeaves DEF SettleEvaluate, Stages, Drift
<1>7. CASE SettleEvidence(w)
  <2>1. CASE job[w].heard = "ok"
    BY <1>7, <2>1 DEF SettleEvidence, Raise, TransitionTo, TransitionRows, InvalidTransition, Drift, Pass,
       Leave, storeVars
  <2>2. CASE job[w].heard # "ok"
    BY <1>2, <1>7, <2>2 DEF SettleEvidence
  <2>3. QED
    BY <2>1, <2>2
<1>8. CASE Finish(w)
  BY <1>8, EndWithLeaves DEF Finish, Drift
<1>9. QED
  BY <1>3, <1>4, <1>5, <1>6, <1>7, <1>8 DEF Settle

LEMMA HandleDrifts ==
    ASSUME NEW w, Handle(w)
    PROVE  Drift(w)
<1> USE EndWithLeaves, LeaseLostLeaves DEF Drift
<1>1. CASE OnRetryable(w)
  BY <1>1 DEF OnRetryable, RetryRows, Leave
<1>2. CASE OnNonRetryable(w)
  BY <1>2 DEF OnNonRetryable
<1>3. CASE OnDefer(w)
  BY <1>3 DEF OnDefer, DeferRows, Leave, storeVars
<1>4. CASE Fenced(w)
  BY <1>4 DEF Fenced
<1>5. QED
  BY <1>1, <1>2, <1>3, <1>4 DEF Handle

LEMMA DispatchDrifts ==
    ASSUME NEW w, Dispatch(w)
    PROVE  Drift(w) \/ Talk(w)
<1>1. CASE Recover(w) \/ Reconcile(w) \/ \E p \in Selectable(w) : Select(w, p)
  BY <1>1 DEF Recover, Reconcile, Select, MaySelect, Talk, Chosen
<1>2. CASE CapacityGate(w) \/ BudgetGate(w) \/ Exhausted(w)
  BY <1>2 DEF CapacityGate, BudgetGate, Exhausted, GateLeg, RecordRows, Drift, Park
<1>3. CASE RejectReceipt(w) \/ RefuseSwitch(w)
  BY <1>3 DEF RejectReceipt, RefuseSwitch, RecordRows, Drift, Park, storeVars
<1>4. QED
  BY <1>1, <1>2, <1>3 DEF Dispatch, Talk

LEMMA WorkDrifts ==
    ASSUME NEW w, Work(w)
    PROVE  Drift(w) \/ Talk(w)
<1>1. CASE ObserveCancel(w)
  BY <1>1, EndWithLeaves, LeaseLostLeaves DEF ObserveCancel, Drift, Start, storeVars
<1>2. CASE CheckCancel(w)
  BY <1>2, EndWithLeaves, LeaseLostLeaves DEF CheckCancel, Drift, Pass, storeVars
<1>3. CASE Step(w)
  BY <1>3 DEF Step, AdapterFails, RefuseContext, Drift, Park, Talk, storeVars
<1>4. QED
  BY <1>1, <1>2, <1>3, DispatchDrifts, SettleDrifts, HandleDrifts DEF Work

\* The record of the acting worker after each of those moves.
LEMMA GotoJob ==
    ASSUME NEW w, Claimed(w), NEW pc, Goto(w, pc)
    PROVE  job'[w] = [job[w] EXCEPT !.pc = pc]
  BY DEF Goto, Claimed, TypeOK

LEMMA EnterJob ==
    ASSUME NEW w, Claimed(w), NEW stage, Enter(w, stage)
    PROVE  /\ job'[w].stage = stage /\ job'[w].heard = "none" /\ job'[w].step = job[w].step
           /\ job'[w].attempted = job[w].attempted /\ job'[w].mode = job[w].mode
           /\ job'[w].pc = IF stage = "dispatch" THEN "route" ELSE "begin"
           /\ job'[w].on = job[w].on
<1> DEFINE pc == IF stage = "dispatch" THEN "route" ELSE "begin"
<1>1. job' = [job EXCEPT ![w] = [job[w] EXCEPT !.pc = pc, !.stage = stage, !.heard = "none"]]
  BY DEF Enter
<1>2. job'[w] = [job[w] EXCEPT !.pc = pc, !.stage = stage, !.heard = "none"]
  BY <1>1 DEF Claimed, TypeOK
<1>3. QED
  BY <1>2 DEF Claimed, TypeOK, Job

LEMMA ReplayJob ==
    ASSUME NEW w, Claimed(w), Replay(w)
    PROVE  /\ job'[w] = [job[w] EXCEPT !.pc = AfterStep(job[w].stage), !.step = StepName(w),
                                       !.heard = steps[Mission(w)][StepName(w)]]
           /\ job[w].pc = "begin" /\ UNCHANGED steps
  BY DEF Replay, Claimed, TypeOK, At, storeVars

LEMMA BeginStepJob ==
    ASSUME NEW w, Claimed(w), BeginStep(w)
    PROVE  /\ job'[w] = [job[w] EXCEPT !.pc = "calling", !.step = StepName(w)]
           /\ job[w].pc = "begin"
  BY DEF BeginStep, Claimed, TypeOK, At

LEMMA AnswerStepJob ==
    ASSUME NEW w, Claimed(w), AnswerStep(w)
    PROVE  /\ job[w].pc = "calling" /\ job[w].stage # "dispatch"
           /\ \E a \in StepOutputs(job[w].stage) :
                 /\ CompleteRows(Mission(w), job[w].step, a)
                 /\ job'[w] = [job[w] EXCEPT !.pc = AfterStep(job[w].stage), !.heard = a]
  BY DEF AnswerStep, Claimed, TypeOK, At

LEMMA ChosenJob ==
    ASSUME NEW w, Claimed(w), NEW mode, NEW p, Decide(w, mode, p)
    PROVE  job'[w] = [job[w] EXCEPT !.pc = "send", !.mode = mode, !.profile = p,
                          !.step = IF Entering(w) THEN DispatchName(Mission(w)) ELSE job[w].step]
  BY DEF Decide, Claimed, TypeOK

LEMMA ReplayDispatchJob ==
    ASSUME NEW w, Claimed(w), ReplayDispatch(w)
    PROVE  /\ job'[w] = [job[w] EXCEPT !.pc = "record", !.ran = FALSE,
                                       !.heard = steps[Mission(w)][job[w].step]]
           /\ job[w].pc = "send" /\ UNCHANGED steps
           /\ steps[Mission(w)][job[w].step] \in Outputs
  BY DEF ReplayDispatch, Claimed, TypeOK, At, storeVars

LEMMA SendJob ==
    ASSUME NEW w, Claimed(w), Send(w)
    PROVE  /\ job[w].pc = "send"
           /\ \E ran \in BOOLEAN : job'[w] = [job[w] EXCEPT !.pc = "calling", !.ran = ran]
  BY DEF Send, Claimed, TypeOK, At

LEMMA AnswerDispatchJob ==
    ASSUME NEW w, Claimed(w), AnswerDispatch(w)
    PROVE  /\ job[w].pc = "calling" /\ job[w].stage = "dispatch"
           /\ \E a \in Answers :
                 /\ Truthful(w, a)
                 /\ a \in SettledAnswers => Holds(w) /\ CompleteRows(Mission(w), job[w].step, a)
                 /\ a \notin SettledAnswers => UNCHANGED storeVars
                 /\ job'[w] = [job[w] EXCEPT !.pc = "record", !.heard = a]
  BY DEF AnswerDispatch, Claimed, TypeOK, At

LEMMA RecordLegJob ==
    ASSUME NEW w, Claimed(w), RecordLeg(w)
    PROVE  /\ job'[w] = [job[w] EXCEPT !.pc = AfterLeg(w),
                             !.attempted = IF AfterLeg(w) = "route" THEN @ \cup {job[w].profile}
                                           ELSE @]
           /\ job[w].pc = "record" /\ UNCHANGED steps
<1> DEFINE pc == AfterLeg(w)
           tried == IF pc = "route" THEN job[w].attempted \cup {job[w].profile} ELSE job[w].attempted
<1>1. job' = [job EXCEPT ![w] = [job[w] EXCEPT !.pc = pc, !.attempted = tried]]
  BY DEF RecordLeg
<1>2. job[w].pc = "record" /\ UNCHANGED steps
  BY DEF RecordLeg, At, RecordRows, storeVars
<1> HIDE DEF pc, tried
<1>3. job'[w] = [job[w] EXCEPT !.pc = pc, !.attempted = tried]
  BY <1>1 DEF Claimed, TypeOK
<1>4. QED
  BY <1>2, <1>3 DEF pc, tried

-----------------------------------------------------------------------------
(* The place of a worker: which stage its program counter belongs to, and which *)
(* step row it has named.                                                       *)

Placed(w) ==
    /\ job[w].pc \in {"route", "send", "record"} => job[w].stage = "dispatch"
    /\ job[w].stage = "dispatch" /\ job[w].pc \in {"send", "calling", "record", "check", "settle"}
         => job[w].step \in DISPATCH_STEP_NAMES
    /\ job[w].pc = "calling" /\ job[w].stage # "dispatch" =>
         job[w].step \in IF job[w].stage = "context" THEN ContextSteps ELSE {job[w].stage}
    /\ job[w].stage = "context" \/ job[w].pc = "claimed" => job[w].attempted = {}
    /\ job[w].stage = "dispatch" /\ job[w].attempted # {} => job[w].step \in DISPATCH_STEP_NAMES

PlaceInv == \A w \in Workers : Placed(w)

LEMMA IdlePlaced ==
    ASSUME NEW w, job'[w] = Idle
    PROVE  Placed(w)'
  BY DEF Placed, Idle

LEMMA StepNamePlaced ==
    ASSUME NEW w, Claimed(w), job[w].stage # "dispatch"
    PROVE  StepName(w) \in IF job[w].stage = "context" THEN ContextSteps ELSE {job[w].stage}
  BY DEF StepName, ContextStep, ContextSteps

LEMMA DriftPlaced ==
    ASSUME NEW w, Claimed(w), Placed(w), Drift(w)
    PROVE  Placed(w)'
<1>1. job[w] \in Job
  BY DEF Claimed, TypeOK
<1>2. CASE Leave(w)
  BY <1>2, ReturnPc, IdlePlaced DEF Leave
<1>3. CASE Park(w)
  <2>1. PICK pc \in {"retryable", "nonretryable", "defer"} : Goto(w, pc)
    BY <1>3 DEF Park
  <2>2. job'[w] = [job[w] EXCEPT !.pc = pc]
    BY <2>1, GotoJob
  <2>3. QED
    BY <1>1, <2>1, <2>2 DEF Placed, Job
<1>4. CASE Start(w) \/ Proceed(w)
  <2>1. PICK stage \in Stages :
            Enter(w, stage) /\ (stage = "dispatch" => job[w].stage = "context")
            /\ (stage = "context" => At(w, "claimed"))
    BY <1>4 DEF Start, Proceed, Settling, Before, Stages
  <2>2. CASE stage # "context"
    BY <2>1, <2>2, EnterJob DEF Placed, Stages
  <2>3. CASE stage = "context"
    BY <2>1, <2>3, EnterJob DEF Placed, At
  <2>4. QED
    BY <2>2, <2>3
<1>5. CASE Pass(w)
  <2>1. CASE At(w, "check") /\ Goto(w, "settle")
    <3>1. job'[w] = [job[w] EXCEPT !.pc = "settle"] /\ job[w].pc = "check"
      BY <2>1, GotoJob DEF At
    <3>2. QED
      BY <1>1, <3>1 DEF Placed, Job
  <2>2. CASE Goto(w, "finish")
    <3>1. job'[w] = [job[w] EXCEPT !.pc = "finish"]
      BY <2>2, GotoJob
    <3>2. QED
      BY <1>1, <3>1 DEF Placed, Job
  <2>3. QED
    BY <1>5, <2>1, <2>2 DEF Pass
<1>6. QED
  BY <1>2, <1>3, <1>4, <1>5 DEF Drift

LEMMA TalkPlaced ==
    ASSUME NEW w, Claimed(w), StagedBegin(w), Placed(w), Talk(w)
    PROVE  Placed(w)'
<1>1. job[w] \in Job
  BY DEF Claimed, TypeOK
<1>2. CASE Replay(w)
  <2> DEFINE pc == AfterStep(job[w].stage)
             s == StepName(w)
             a == steps[Mission(w)][s]
  <2>1. job'[w] = [job[w] EXCEPT !.pc = pc, !.step = s, !.heard = a] /\ job[w].pc = "begin"
    BY <1>2, ReplayJob
  <2>2. pc \in {"check", "settle"}
    BY DEF AfterStep
  <2>3. job[w].stage # "dispatch"
    BY <2>1 DEF StagedBegin, At
  <2> HIDE DEF pc, s, a
  <2>4. QED
    BY <1>1, <2>1, <2>2, <2>3 DEF Placed, Job
<1>3. CASE BeginStep(w)
  <2>1. PICK s : s = StepName(w) /\ job'[w] = [job[w] EXCEPT !.pc = "calling", !.step = s]
    BY <1>3, BeginStepJob
  <2>2. job[w].stage # "dispatch"
    BY <1>3, BeginStepJob DEF StagedBegin, At
  <2>3. s \in IF job[w].stage = "context" THEN ContextSteps ELSE {job[w].stage}
    BY <2>1, <2>2, StepNamePlaced
  <2>4. QED
    BY <1>1, <2>1, <2>2, <2>3 DEF Placed, Job
<1>4. CASE AnswerStep(w)
  <2> DEFINE pc == AfterStep(job[w].stage)
  <2>1. pc \in {"check", "settle"}
    BY DEF AfterStep
  <2>2. PICK a : job'[w] = [job[w] EXCEPT !.pc = pc, !.heard = a] /\ job[w].stage # "dispatch"
    BY <1>4, AnswerStepJob
  <2> HIDE DEF pc
  <2>3. QED
    BY <1>1, <2>1, <2>2 DEF Placed, Job
<1>5. CASE Chosen(w)
  <2>1. PICK mode, p : Decide(w, mode, p)
    BY <1>5 DEF Chosen
  <2>2. DispatchName(Mission(w)) \in DISPATCH_STEP_NAMES
    BY DEF DispatchName, effective_dispatch_step, DISPATCH_STEP_NAMES
  <2> DEFINE s == IF Entering(w) THEN DispatchName(Mission(w)) ELSE job[w].step
  <2>3. job'[w] = [job[w] EXCEPT !.pc = "send", !.mode = mode, !.profile = p, !.step = s]
    BY <2>1, ChosenJob
  <2>4. job[w].stage = "dispatch"
    BY <1>5 DEF Chosen, At, Placed
  <2>5. s \in DISPATCH_STEP_NAMES
    BY <2>2, <2>4 DEF Placed, Entering
  <2> HIDE DEF s
  <2>6. QED
    BY <1>1, <2>3, <2>4, <2>5 DEF Placed, Job
<1>6. CASE ReplayDispatch(w)
  <2>1. PICK a : job'[w] = [job[w] EXCEPT !.pc = "record", !.ran = FALSE, !.heard = a]
    BY <1>6, ReplayDispatchJob
  <2>2. job[w].pc = "send"
    BY <1>6, ReplayDispatchJob
  <2>3. QED
    BY <1>1, <2>1, <2>2 DEF Placed, Job
<1>7. CASE Send(w)
  <2>1. PICK ran : job'[w] = [job[w] EXCEPT !.pc = "calling", !.ran = ran]
    BY <1>7, SendJob
  <2>2. job[w].pc = "send"
    BY <1>7, SendJob
  <2>3. QED
    BY <1>1, <2>1, <2>2 DEF Placed, Job
<1>8. CASE AnswerDispatch(w)
  <2>1. PICK a : job'[w] = [job[w] EXCEPT !.pc = "record", !.heard = a]
    BY <1>8, AnswerDispatchJob
  <2>2. job[w].pc = "calling" /\ job[w].stage = "dispatch"
    BY <1>8, AnswerDispatchJob
  <2>3. QED
    BY <1>1, <2>1, <2>2 DEF Placed, Job
<1>9. CASE RecordLeg(w)
  <2> DEFINE pc == AfterLeg(w)
             tried == IF pc = "route" THEN job[w].attempted \cup {job[w].profile} ELSE job[w].attempted
  <2>1. /\ pc \in {"check", "route", "retryable", "nonretryable"}
        /\ job'[w] = [job[w] EXCEPT !.pc = pc, !.attempted = tried]
    <3>1. pc \in {"check", "route", "retryable", "nonretryable"}
      BY DEF AfterLeg
    <3>2. QED
      BY <1>9, <3>1, RecordLegJob
  <2> HIDE DEF pc, tried
  <2>2. job[w].pc = "record"
    BY <1>9, RecordLegJob
  <2>3. QED
    BY <1>1, <2>1, <2>2 DEF Placed, Job
<1>10. QED
  BY <1>2, <1>3, <1>4, <1>5, <1>6, <1>7, <1>8, <1>9 DEF Talk

-----------------------------------------------------------------------------
(* What a worker relies on is on record: a stage is entered on the recorded    *)
(* success of the one before it, and an answer it carries was written first.   *)

HasCandidate(m) == \E s \in DISPATCH_STEP_NAMES : steps[m][s] = "ok"

Shown(w) ==
    LET m == Mission(w)
        stage == job[w].stage
        pc == job[w].pc
    IN  /\ stage = "dispatch" /\ pc \in {"record", "check", "settle"} /\ job[w].heard = "ok"
             => HasCandidate(m)
        /\ stage \in {"verify", "evaluate", "evidence"} => HasCandidate(m)
        /\ stage \in {"evaluate", "evidence"} => steps[m]["verify"] = "ok"
        /\ stage = "evidence" => steps[m]["evaluate"] = "ok"
        /\ stage \in {"verify", "evaluate", "evidence"} /\ pc \in {"check", "settle"}
           /\ job[w].heard = "ok" => steps[m][stage] = "ok"
        /\ pc = "finish" => stage = "evidence" /\ steps[m]["evidence"] = "ok"

ShownInv == \A w \in Workers : ~At(w, "idle") => Shown(w)

\* What is on record stays there.
LEMMA OkIsKept ==
    ASSUME KeptMemo, NEW m \in Missions
    PROVE  /\ \A s \in StepNames : steps[m][s] = "ok" => steps'[m][s] = "ok"
           /\ HasCandidate(m) => HasCandidate(m)'
<1>1. "ok" \in Outputs /\ DISPATCH_STEP_NAMES \subseteq StepNames
  BY DEF Outputs, StepNames
<1>2. QED
  BY <1>1 DEF KeptMemo, HasCandidate

LEMMA ShownKept ==
    ASSUME KeptMemo, NEW v, Mission(v) \in Missions, Shown(v), job'[v] = job[v]
    PROVE  Shown(v)'
<1>1. {"verify", "evaluate", "evidence"} \subseteq StepNames
  BY DEF StepNames
<1>2. QED
  BY <1>1, OkIsKept DEF Shown, Mission

\* A worker that only drifts brings no new answer.
LEMMA DriftShown ==
    ASSUME NEW w, Claimed(w), KeptMemo, Shown(w), Drift(w), job'[w].pc # "idle"
    PROVE  Shown(w)'
<1>1. job[w] \in Job /\ Mission(w) \in Missions
  BY DEF Claimed, TypeOK
<1>2. {"verify", "evaluate", "evidence"} \subseteq StepNames
  BY DEF StepNames
<1>3. ~Leave(w)
  BY ReturnPc DEF Leave, Idle
<1>4. CASE Park(w)
  <2>1. PICK pc \in {"retryable", "nonretryable", "defer"} : Goto(w, pc)
    BY <1>4 DEF Park
  <2>2. job'[w] = [job[w] EXCEPT !.pc = pc]
    BY <2>1, GotoJob
  <2>3. QED
    BY <1>1, <1>2, <2>1, <2>2, OkIsKept DEF Shown, Mission, Job
<1>5. CASE Start(w)
  BY <1>5, EnterJob DEF Start, Shown
<1>6. CASE Proceed(w)
  <2>1. PICK stage \in Stages \ {"context"} :
            /\ Enter(w, stage) /\ job[w].pc = "settle" /\ job[w].heard = "ok"
            /\ job[w].stage = Before[stage]
    BY <1>6 DEF Proceed, Settling, At
  <2>2. job'[w].stage = stage /\ job'[w].on = job[w].on /\ job'[w].pc \in {"route", "begin"}
    BY <2>1, EnterJob
  <2>3. CASE stage = "dispatch"
    BY <2>2, <2>3 DEF Shown
  <2>4. CASE stage = "verify"
    <3>1. HasCandidate(Mission(w))
      BY <2>1, <2>4 DEF Shown, Before
    <3>2. QED
      BY <1>1, <2>2, <2>4, <3>1, OkIsKept DEF Shown, Mission
  <2>5. CASE stage = "evaluate"
    <3>1. HasCandidate(Mission(w)) /\ steps[Mission(w)]["verify"] = "ok"
      BY <2>1, <2>5 DEF Shown, Before
    <3>2. QED
      BY <1>1, <1>2, <2>2, <2>5, <3>1, OkIsKept DEF Shown, Mission
  <2>6. CASE stage = "evidence"
    <3>1. /\ HasCandidate(Mission(w)) /\ steps[Mission(w)]["verify"] = "ok"
          /\ steps[Mission(w)]["evaluate"] = "ok"
      BY <2>1, <2>6 DEF Shown, Before
    <3>2. QED
      BY <1>1, <1>2, <2>2, <2>6, <3>1, OkIsKept DEF Shown, Mission
  <2>7. QED
    BY <2>1, <2>3, <2>4, <2>5, <2>6 DEF Stages
<1>7. CASE Pass(w)
  <2>1. CASE At(w, "check") /\ Goto(w, "settle")
    <3>1. job'[w] = [job[w] EXCEPT !.pc = "settle"] /\ job[w].pc = "check"
      BY <2>1, GotoJob DEF At
    <3>2. QED
      BY <1>1, <1>2, <3>1, OkIsKept DEF Shown, Mission, Job
  <2>2. CASE Settling(w, "evidence") /\ job[w].heard = "ok" /\ Goto(w, "finish")
    <3>1. job'[w] = [job[w] EXCEPT !.pc = "finish"] /\ job[w].pc = "settle" /\ job[w].stage = "evidence"
      BY <2>2, GotoJob DEF Settling, At
    <3>2. QED
      BY <1>1, <1>2, <2>2, <3>1, OkIsKept DEF Shown, Mission, Job
  <2>3. QED
    BY <1>7, <2>1, <2>2 DEF Pass
<1>8. QED
  BY <1>3, <1>4, <1>5, <1>6, <1>7 DEF Drift

LEMMA TalkShown ==
    ASSUME NEW w, Claimed(w), StagedBegin(w), KeptMemo, Placed(w), Shown(w), Talk(w)
    PROVE  Shown(w)'
<1>1. job[w] \in Job /\ Mission(w) \in Missions /\ StoreTypeOK
  BY DEF Claimed, TypeOK
<1>2. {"verify", "evaluate", "evidence"} \subseteq StepNames
  BY DEF StepNames
<1>3. CASE Replay(w)
  <2> DEFINE pc == AfterStep(job[w].stage)
             s == StepName(w)
             a == steps[Mission(w)][s]
  <2>1. job'[w] = [job[w] EXCEPT !.pc = pc, !.step = s, !.heard = a] /\ job[w].pc = "begin"
        /\ UNCHANGED steps
    BY <1>3, ReplayJob
  <2>2. pc \in {"check", "settle"}
    BY DEF AfterStep
  <2>3. job[w].stage # "dispatch" /\ (job[w].stage # "context" => s = job[w].stage)
    BY <2>1 DEF StagedBegin, At, StepName
  <2>4. a = steps[Mission(w)][s]
    OBVIOUS
  <2> HIDE DEF pc, s, a
  <2>5. QED
    BY <1>1, <1>2, <2>1, <2>2, <2>3, <2>4, OkIsKept DEF Shown, Mission, Job
<1>4. CASE BeginStep(w)
  <2>1. PICK s : job'[w] = [job[w] EXCEPT !.pc = "calling", !.step = s]
    BY <1>4, BeginStepJob
  <2>2. QED
    BY <1>1, <1>2, <2>1, OkIsKept DEF Shown, Mission, Job
<1>5. CASE AnswerStep(w)
  <2> DEFINE pc == AfterStep(job[w].stage)
  <2>1. pc \in {"check", "settle"}
    BY DEF AfterStep
  <2>2. PICK a :
            /\ job'[w] = [job[w] EXCEPT !.pc = pc, !.heard = a] /\ job[w].stage # "dispatch"
            /\ steps' = [steps EXCEPT ![Mission(w)][job[w].step] = a]
    BY <1>5, AnswerStepJob DEF CompleteRows
  <2> HIDE DEF pc
  <2>3. job[w].pc = "calling" /\ (job[w].stage # "context" => job[w].step = job[w].stage)
    BY <1>5, AnswerStepJob DEF Placed
  <2>4. job[w].stage # "context" => steps'[Mission(w)][job[w].stage] = a
    BY <1>1, <1>2, <2>2, <2>3 DEF StoreTypeOK, Job, Stages
  <2>5. QED
    BY <1>1, <1>2, <2>1, <2>2, <2>4, OkIsKept DEF Shown, Mission, Job
<1>6. CASE Chosen(w)
  <2>1. PICK mode, p : Decide(w, mode, p)
    BY <1>6 DEF Chosen
  <2> DEFINE s == IF Entering(w) THEN DispatchName(Mission(w)) ELSE job[w].step
  <2>2. job'[w] = [job[w] EXCEPT !.pc = "send", !.mode = mode, !.profile = p, !.step = s]
    BY <2>1, ChosenJob
  <2>3. job[w].stage = "dispatch"
    BY <1>6 DEF Chosen, At, Placed
  <2> HIDE DEF s
  <2>4. QED
    BY <1>1, <2>2, <2>3 DEF Shown, Job
<1>7. CASE ReplayDispatch(w)
  <2>1. PICK a : /\ a = steps[Mission(w)][job[w].step]
                 /\ job'[w] = [job[w] EXCEPT !.pc = "record", !.ran = FALSE, !.heard = a]
                 /\ job[w].pc = "send" /\ UNCHANGED steps
    BY <1>7, ReplayDispatchJob
  <2>2. job[w].stage = "dispatch" /\ job[w].step \in DISPATCH_STEP_NAMES
    BY <2>1 DEF Placed
  <2>3. a = "ok" => \E s \in DISPATCH_STEP_NAMES : steps'[Mission(w)][s] = "ok"
    BY <2>1, <2>2
  <2>4. QED
    BY <1>1, <2>1, <2>2, <2>3 DEF Shown, Mission, Job, HasCandidate
<1>8. CASE Send(w)
  <2>1. PICK ran : job'[w] = [job[w] EXCEPT !.pc = "calling", !.ran = ran]
    BY <1>8, SendJob
  <2>2. job[w].pc = "send"
    BY <1>8, SendJob
  <2>3. QED
    BY <1>1, <2>1, <2>2 DEF Shown, Placed, Job
<1>9. CASE AnswerDispatch(w)
  <2>1. PICK a : /\ a \in SettledAnswers => CompleteRows(Mission(w), job[w].step, a)
                 /\ job'[w] = [job[w] EXCEPT !.pc = "record", !.heard = a]
    BY <1>9, AnswerDispatchJob
  <2>2. job[w].pc = "calling" /\ job[w].stage = "dispatch" /\ job[w].step \in DISPATCH_STEP_NAMES
    BY <1>9, AnswerDispatchJob DEF Placed
  <2>3. a = "ok" => \E s \in DISPATCH_STEP_NAMES : steps'[Mission(w)][s] = "ok"
    <3> SUFFICES ASSUME a = "ok" PROVE \E s \in DISPATCH_STEP_NAMES : steps'[Mission(w)][s] = "ok"
      OBVIOUS
    <3>1. steps' = [steps EXCEPT ![Mission(w)][job[w].step] = "ok"]
      BY <2>1 DEF SettledAnswers, CompleteRows
    <3>2. job[w].step \in StepNames
      BY <2>2 DEF StepNames
    <3>3. QED
      BY <1>1, <2>2, <3>1, <3>2 DEF StoreTypeOK
  <2>4. QED
    BY <1>1, <2>1, <2>2, <2>3 DEF Shown, Mission, Job, HasCandidate
<1>10. CASE RecordLeg(w)
  <2> DEFINE pc == AfterLeg(w)
             tried == IF pc = "route" THEN job[w].attempted \cup {job[w].profile} ELSE job[w].attempted
  <2>1. /\ pc \in {"check", "route", "retryable", "nonretryable"}
        /\ job'[w] = [job[w] EXCEPT !.pc = pc, !.attempted = tried]
    <3>1. pc \in {"check", "route", "retryable", "nonretryable"}
      BY DEF AfterLeg
    <3>2. QED
      BY <1>10, <3>1, RecordLegJob
  <2> HIDE DEF pc, tried
  <2>2. job[w].pc = "record" /\ job[w].stage = "dispatch"
    BY <1>10, RecordLegJob DEF Placed
  <2>3. QED
    BY <1>1, <2>1, <2>2, OkIsKept DEF Shown, Mission, Job
<1>11. QED
  BY <1>3, <1>4, <1>5, <1>6, <1>7, <1>8, <1>9, <1>10 DEF Talk

\* A claim starts with nothing to show and nothing named.
LEMMA ClaimPlaced ==
    ASSUME TypeOK, NEW w \in Workers, NEW m \in Missions, Lease(w, m)
    PROVE  /\ Placed(w)' /\ Shown(w)'
           /\ job'[w].pc = "claimed" /\ job'[w].attempted = {} /\ job'[w].stage = "context"
           /\ job'[w].mode = "none"
<1> DEFINE new == [Idle EXCEPT !.pc = "claimed", !.on = m, !.tok = lease'[m],
                               !.resume_state = state'[m]]
<1>1. job' = [job EXCEPT ![w] = new]
  BY DEF Lease
<1>2. /\ new.pc = "claimed" /\ new.stage = "context" /\ new.attempted = {} /\ new.mode = "none"
  BY DEF Idle
<1> HIDE DEF new
<1>3. job'[w] = new
  BY <1>1 DEF TypeOK
<1>4. QED
  BY <1>2, <1>3 DEF Placed, Shown

\* A step other than work_once: it moves at most one worker, to a claim or out.
Elsewhere ==
    \A v \in Workers :
        \/ job'[v] = job[v]
        \/ job'[v] = Idle
        \/ \E m \in Missions : Lease(v, m)

LEMMA OtherSteps ==
    ASSUME TypeOK, [Next]_vars, \A w \in Workers : ~Work(w)
    PROVE  Elsewhere
<1>1. ASSUME NEW w \in Workers, NEW m \in Missions, Lease(w, m) PROVE Elsewhere
  BY <1>1 DEF Lease, Elsewhere, TypeOK
<1>2. ASSUME NEW w \in Workers, Crash(w) PROVE Elsewhere
  BY <1>2 DEF Crash, Return, Elsewhere, TypeOK
<1>3. CASE UNCHANGED job
  BY <1>3 DEF Elsewhere
<1>4. QED
  BY <1>1, <1>2, <1>3 DEF Next, Claim, ClaimNamed, Heartbeat, Expire, RecoverStale, Operator, vars

IShown == IMemo /\ ILedger /\ PlaceInv /\ ShownInv

LEMMA NextShown == IShown /\ [Next]_vars => PlaceInv' /\ ShownInv'
<1> SUFFICES ASSUME IShown, [Next]_vars PROVE PlaceInv' /\ ShownInv'
  OBVIOUS
<1>1. IInv /\ TypeOK /\ KeptMemo
  BY NextMemo DEF IShown, IMemo, IInv
<1>2. \A v \in Workers : ~At(v, "idle") => Mission(v) \in Missions
  BY <1>1 DEF IInv, LeaseInv, Working
<1>3. ASSUME NEW v \in Workers, job'[v] = job[v]
      PROVE  Placed(v)' /\ (~At(v, "idle")' => Shown(v)')
  <2>1. Placed(v)'
    BY <1>3 DEF IShown, PlaceInv, Placed
  <2>2. ASSUME ~At(v, "idle")' PROVE Shown(v)'
    BY <1>1, <1>2, <1>3, <2>2, ShownKept DEF IShown, ShownInv, At
  <2>3. QED
    BY <2>1, <2>2
<1>4. ASSUME NEW w \in Workers, Work(w) PROVE PlaceInv' /\ ShownInv'
  <2>1. ~At(w, "idle") /\ Claimed(w) /\ StagedBegin(w) /\ Framed(w)
    BY <1>1, <1>4, WorkIsClaimed, WorkFrame
  <2>2. Placed(w) /\ Shown(w) /\ (Drift(w) \/ Talk(w))
    BY <1>4, <2>1, WorkDrifts DEF IShown, PlaceInv, ShownInv
  <2>3. Placed(w)'
    BY <2>1, <2>2, DriftPlaced, TalkPlaced
  <2>4. ~At(w, "idle")' => Shown(w)'
    BY <1>1, <2>1, <2>2, DriftShown, TalkShown DEF At
  <2>5. \A v \in Workers \ {w} : job'[v] = job[v]
    BY <2>1 DEF Framed, JobFrame
  <2>6. QED
    BY <1>3, <2>3, <2>4, <2>5 DEF PlaceInv, ShownInv
<1>5. CASE \A w \in Workers : ~Work(w)
  <2> SUFFICES ASSUME NEW v \in Workers PROVE Placed(v)' /\ (~At(v, "idle")' => Shown(v)')
    BY DEF PlaceInv, ShownInv
  <2>1. CASE job'[v] = Idle
    <3>1. Placed(v)'
      BY <2>1, IdlePlaced
    <3>2. job'[v].pc = "idle"
      BY <2>1 DEF Idle
    <3>3. QED
      BY <3>1, <3>2 DEF At
  <2>2. QED
    BY <1>1, <1>3, <1>5, <2>1, OtherSteps, ClaimPlaced DEF Elsewhere
<1>6. QED
  BY <1>4, <1>5

LEMMA NextIShown == IShown /\ [Next]_vars => IShown'
  BY NextShown, NextMemo, NextLedger, NextIInv DEF IShown, IMemo

LEMMA InitIShown == Init => IShown
<1> SUFFICES ASSUME Init PROVE IShown
  OBVIOUS
<1>1. \A w \in Workers : job[w] = Idle
  BY DEF Init
<1>2. IMemo
  BY <1>1, InitIInv DEF IMemo, MemoInv, OpenCall, At, Idle
<1>3. PlaceInv
  BY <1>1 DEF PlaceInv, Placed, Idle
<1>4. ShownInv
  BY <1>1 DEF ShownInv, At, Idle
<1>5. QED
  BY <1>2, <1>3, <1>4, InitLedger DEF IShown

Proven(m) == /\ HasCandidate(m) /\ steps[m]["verify"] = "ok"
             /\ steps[m]["evaluate"] = "ok" /\ steps[m]["evidence"] = "ok"

\* A mission is completed only by a worker that has every step on record, and the
\* record is kept: completion is proven, whatever crashes, resumes and repairs lie
\* behind it.
THEOREM CompletionIsProven == Spec => []CompletedIsProven
<1> DEFINE Inv == \A m \in Missions : state[m] = "completed" => Proven(m)
<1>1. Init => Inv
  BY DEF Init, InitStore
<1>2. IShown /\ Inv /\ [Next]_vars => Inv'
  <2> SUFFICES ASSUME IShown, Inv, [Next]_vars, NEW m \in Missions, state'[m] = "completed"
               PROVE  Proven(m)'
    OBVIOUS
  <2>1. KeptMemo /\ EdgesMove /\ IInv
    BY NextMemo, NextRows DEF IShown, IMemo, ILedger, LedgerInv
  <2>2. {"verify", "evaluate", "evidence"} \subseteq StepNames
    BY DEF StepNames
  <2>3. Proven(m) => Proven(m)'
    BY <2>1, <2>2, OkIsKept DEF Proven
  <2>4. ASSUME NEW w \in Workers, At(w, "finish"), Mission(w) \in Missions,
               TransitionRows(Mission(w), "completed")
        PROVE  Proven(m)
    <3>1. Proven(Mission(w))
      BY <2>4 DEF IShown, ShownInv, Shown, At, Proven
    <3>2. m = Mission(w) \/ state[m] = "completed"
      BY <2>4 DEF TransitionRows, TERMINAL
    <3>3. QED
      BY <3>1, <3>2
  <2>5. ASSUME NEW x \in Missions, NEW d \in Missions, NEW policy, add_dependency(x, d, policy)
        PROVE  Proven(m)
    BY <2>5 DEF add_dependency, missionVars
  <2>6. QED
    BY <2>1, <2>3, <2>4, <2>5 DEF EdgesMove
<1>3. Inv => CompletedIsProven
  BY DEF Proven, HasCandidate, CompletedIsProven
<1>4. QED
  BY <1>1, <1>2, <1>3, InitIShown, NextIShown, PTL DEF Spec

-----------------------------------------------------------------------------
(* Legs, proofs and processes only grow, and a worker appends to its own        *)
(* mission.                                                                     *)

LegsMove(w) ==
    /\ UNCHANGED repairVars
    /\ UNCHANGED legVars \/ \E p : \E free \in BOOLEAN : RecordRows(Mission(w), p, free)

LEMMA EndWithLegs ==
    ASSUME NEW w, NEW new, EndWith(w, new) \/ LeaseLost(w)
    PROVE  LegsMove(w) /\ UNCHANGED processes
  BY DEF EndWith, TransitionTo, TransitionRows, InvalidTransition, LeaseLost, LegsMove, storeVars, NoEffect

LEMMA AdvanceLegs ==
    ASSUME NEW w, NEW new, NEW before, NEW stage, Advance(w, new, before, stage)
    PROVE  LegsMove(w) /\ UNCHANGED processes
  BY DEF Advance, TransitionTo, TransitionRows, InvalidTransition, LegsMove, storeVars, NoEffect

LEMMA RaiseLegs ==
    ASSUME NEW w, NEW pc, Raise(w, pc)
    PROVE  LegsMove(w) /\ UNCHANGED processes
  BY DEF Raise, LegsMove, storeVars, NoEffect

LEMMA SettleLegs ==
    ASSUME NEW w, Settle(w)
    PROVE  LegsMove(w) /\ UNCHANGED processes
<1> USE EndWithLegs, AdvanceLegs, RaiseLegs
<1>1. CASE SettleContext(w)
  BY <1>1 DEF SettleContext, LegsMove, storeVars, NoEffect
<1>2. CASE SettleDispatch(w)
  BY <1>2 DEF SettleDispatch
<1>3. CASE SettleVerify(w)
  BY <1>3 DEF SettleVerify
<1>4. CASE SettleEvaluate(w)
  BY <1>4 DEF SettleEvaluate
<1>5. CASE SettleEvidence(w)
  BY <1>5 DEF SettleEvidence, TransitionTo, TransitionRows, InvalidTransition, LegsMove, storeVars, NoEffect
<1>6. CASE Finish(w)
  BY <1>6 DEF Finish
<1>7. QED
  BY <1>1, <1>2, <1>3, <1>4, <1>5, <1>6 DEF Settle

LEMMA HandleLegs ==
    ASSUME NEW w, Handle(w)
    PROVE  LegsMove(w) /\ UNCHANGED processes
<1> USE EndWithLegs
<1>1. CASE OnRetryable(w)
  BY <1>1 DEF OnRetryable, RetryRows, LegsMove, NoEffect
<1>2. CASE OnNonRetryable(w)
  BY <1>2 DEF OnNonRetryable
<1>3. CASE OnDefer(w)
  BY <1>3 DEF OnDefer, DeferRows, LegsMove, storeVars, NoEffect
<1>4. CASE Fenced(w)
  BY <1>4 DEF Fenced
<1>5. QED
  BY <1>1, <1>2, <1>3, <1>4 DEF Handle

LEMMA DispatchLegs ==
    ASSUME NEW w, Dispatch(w)
    PROVE  LegsMove(w) /\ (Send(w) \/ UNCHANGED processes)
<1>1. CASE Recover(w) \/ Reconcile(w) \/ \E p \in Selectable(w) : Select(w, p)
  BY <1>1 DEF Recover, Reconcile, Select, Decide, LegsMove, storeVars, NoEffect
<1>2. CASE ReplayDispatch(w)
  BY <1>2 DEF ReplayDispatch, LegsMove, storeVars, NoEffect
<1>3. CASE Send(w)
  BY <1>3 DEF Send, BeginRows, LegsMove
<1>4. CASE CapacityGate(w) \/ BudgetGate(w) \/ Exhausted(w)
  <2>1. RecordRows(Mission(w), None, TRUE) /\ UNCHANGED processes
    BY <1>4 DEF CapacityGate, BudgetGate, Exhausted, GateLeg, NoEffect
  <2>2. QED
    BY <2>1 DEF LegsMove, RecordRows
<1>5. CASE AnswerDispatch(w)
  BY <1>5 DEF AnswerDispatch, CompleteRows, LegsMove, storeVars, NoEffect
<1>6. CASE RecordLeg(w)
  <2> DEFINE free == job[w].heard \in FreeAnswers
  <2>1. UNCHANGED processes /\ (UNCHANGED storeVars \/ RecordRows(Mission(w), job[w].profile, free))
    BY <1>6 DEF RecordLeg, NoEffect
  <2>2. free \in BOOLEAN
    OBVIOUS
  <2> HIDE DEF free
  <2>3. UNCHANGED repairVars
    BY <2>1 DEF RecordRows, storeVars
  <2>4. UNCHANGED legVars \/ RecordRows(Mission(w), job[w].profile, free)
    BY <2>1 DEF storeVars
  <2>5. QED
    BY <2>1, <2>2, <2>3, <2>4 DEF LegsMove
<1>7. CASE RejectReceipt(w)
  <2>1. RecordRows(Mission(w), job[w].profile, FALSE) /\ UNCHANGED processes
    BY <1>7 DEF RejectReceipt, NoEffect
  <2>2. UNCHANGED repairVars
    BY <2>1 DEF RecordRows
  <2>3. QED
    BY <2>1, <2>2 DEF LegsMove
<1>8. CASE RefuseSwitch(w)
  BY <1>8 DEF RefuseSwitch, LegsMove, storeVars, NoEffect
<1>9. QED
  BY <1>1, <1>2, <1>3, <1>4, <1>5, <1>6, <1>7, <1>8 DEF Dispatch

LEMMA WorkLegs ==
    ASSUME NEW w, Work(w)
    PROVE  LegsMove(w) /\ (Send(w) \/ UNCHANGED processes)
<1>1. CASE ObserveCancel(w)
  BY <1>1, EndWithLegs DEF ObserveCancel, LegsMove, storeVars, NoEffect
<1>2. CASE CheckCancel(w)
  BY <1>2, EndWithLegs DEF CheckCancel, LegsMove, storeVars, NoEffect
<1>3. CASE Step(w)
  BY <1>3 DEF Step, Replay, BeginStep, AnswerStep, AdapterFails, RefuseContext, BeginRows, CompleteRows,
     LegsMove, storeVars, NoEffect
<1>4. QED
  BY <1>1, <1>2, <1>3, DispatchLegs, SettleLegs, HandleLegs DEF Work

\* What is on record about a process stays on record.
Grow ==
    \A m \in Missions : /\ freeLeg[m] => freeLeg'[m]
                        /\ keptLeg[m] => keptLeg'[m]
                        /\ proof[m] => proof'[m]

LEMMA NextGrow ==
    ASSUME StoreTypeOK, [Next]_vars
    PROVE  Grow
<1>1. ASSUME NEW w \in Workers, Work(w) PROVE Grow
  <2>1. UNCHANGED proof /\ (UNCHANGED <<freeLeg, keptLeg>>
            \/ \E p : \E free \in BOOLEAN : RecordRows(Mission(w), p, free))
    BY <1>1, WorkLegs DEF LegsMove, legVars, repairVars
  <2>2. QED
    BY <2>1 DEF RecordRows, Grow, StoreTypeOK
<1>2. ASSUME NEW w \in Workers, NEW m \in Missions, Claim(w, m) \/ ClaimNamed(w, m) PROVE Grow
  BY <1>2 DEF Claim, ClaimNamed, Lease, GrantLease, legVars, repairVars, Grow
<1>3. CASE Operator
  BY <1>3 DEF Operator, submit, cancel, record_reconciliation, resume_pre_provider, add_dependency,
     legVars, repairVars, Grow, StoreTypeOK
<1>4. CASE \/ \E w \in Workers : Heartbeat(w) \/ Crash(w)
           \/ (\E m \in Missions : Expire(m)) \/ RecoverStale \/ UNCHANGED vars
  BY <1>4 DEF Heartbeat, Crash, Expire, RecoverStale, recover_stale, vars, storeVars, legVars, repairVars,
     Grow
<1>5. QED
  BY <1>1, <1>2, <1>3, <1>4 DEF Next

\* A lease that was lost is never had again: a token is granted once.
LEMMA HeldBefore ==
    ASSUME IInv, [Next]_vars, NEW v \in Workers, ~At(v, "idle"), job'[v] = job[v], Holds(v)'
    PROVE  Holds(v)
<1>1. Mission(v) \in Missions /\ job[v].tok >= 1 /\ job[v].tok <= serial[Mission(v)] /\ StoreTypeOK
      /\ job[v] \in Job
  BY DEF IInv, LeaseInv, Working, TypeOK
<1>2. lease'[Mission(v)] = job[v].tok
  BY DEF Holds, Mission
<1>3. CASE LeaseFrame
  BY <1>1, <1>2, <1>3 DEF LeaseFrame, Holds
<1>4. ASSUME NEW w \in Workers, NEW m \in Missions, Claim(w, m) \/ ClaimNamed(w, m) PROVE Holds(v)
  <2>1. lease' = [lease EXCEPT ![m] = serial[m] + 1]
    BY <1>4 DEF Claim, ClaimNamed, Lease, GrantLease
  <2>2. serial[m] \in Nat /\ job[v].tok \in Nat
    BY <1>1 DEF StoreTypeOK, Job
  <2>3. QED
    BY <1>1, <1>2, <2>1, <2>2 DEF StoreTypeOK, Holds
<1>5. ASSUME NEW w \in Workers, Work(w) PROVE LeaseFrame
  BY <1>5, WorkIsClaimed, WorkFrame DEF Framed, StoreFrame
<1>6. CASE RecoverStale \/ Operator
  BY <1>1, <1>3, <1>6, RecoverStaleFrame, OperatorFrame DEF RecoverStale, StoreFrame
<1>7. CASE \/ \E w \in Workers : Heartbeat(w) \/ Crash(w)
           \/ (\E m \in Missions : Expire(m)) \/ UNCHANGED vars
  BY <1>3, <1>7 DEF Heartbeat, Crash, Expire, vars, storeVars, leaseVars, LeaseFrame
<1>8. QED
  BY <1>3, <1>4, <1>5, <1>6, <1>7 DEF Next
-----------------------------------------------------------------------------
(* Processes.  Before a layer is asked to run something the record must tell    *)
(* whether it ran already: a process leaves a leg, a proof or a started step.   *)

\* Nothing ran, or it is on record that nothing did, or what it did was proved.
Spared(m) == processes[m] = 0 \/ freeLeg[m] \/ proof[m]

CurrentStep(m) == effective_dispatch_step(m, FALSE)

Traced(m) == Spared(m) \/ keptLeg[m] \/ steps[m][CurrentStep(m)] # "none"

OncePerProof(m) == processes[m] <= 1 \/ freeLeg[m]

\* The holder at the dispatch has named the step that is current.
Named(w) ==
    LET m == Mission(w) IN
    Holds(w) /\ job[w].stage = "dispatch" /\ job[w].pc \in {"send", "calling"}
    /\ ~freeLeg[m] /\ ~proof[m] => job[w].step = CurrentStep(m)

\* It selects another profile, sends and hears that nothing started only where
\* the mission was spared.
Clear(w) ==
    LET m == Mission(w) IN
    /\ job[w].attempted # {} => freeLeg[m]
    /\ Holds(w) /\ job[w].mode = "fresh" /\ job[w].pc = "send"
         => Spared(m) \/ steps[m][job[w].step] \in Outputs
    /\ Holds(w) /\ job[w].stage = "dispatch" /\ job[w].mode = "fresh" /\ job[w].pc = "calling"
       /\ ~job[w].ran => Spared(m)

SparedInv ==
    /\ \A m \in Missions : Traced(m) /\ OncePerProof(m)
    /\ \A w \in Workers : ~At(w, "idle") => Named(w) /\ Clear(w)

LEMMA CurrentStepType ==
    ASSUME NEW m
    PROVE  CurrentStep(m) \in DISPATCH_STEP_NAMES
  BY DEF CurrentStep, effective_dispatch_step, DISPATCH_STEP_NAMES

\* The current step is left only for one that is open, except by an answer that
\* proves the first dispatch never started.
LEMMA CurrentStepKept ==
    ASSUME NEW m,
           \A s \in DISPATCH_STEP_NAMES : steps[m][s] # "none" => steps'[m][s] # "none",
           steps'[m]["dispatch"] = "unstarted" => steps[m]["dispatch"] = "unstarted",
           steps[m][CurrentStep(m)] # "none"
    PROVE  steps'[m][CurrentStep(m)'] # "none"
  BY DEF CurrentStep, effective_dispatch_step, DISPATCH_STEP_NAMES

LEMMA SparedKept ==
    ASSUME Grow, NEW m \in Missions, processes'[m] = processes[m], Spared(m)
    PROVE  Spared(m)'
  BY DEF Grow, Spared

LEMMA RowsSpared ==
    ASSUME Grow, NEW m \in Missions, processes'[m] = processes[m], steps'[m] = steps[m],
           Traced(m), OncePerProof(m)
    PROVE  Traced(m)' /\ OncePerProof(m)'
<1>1. CurrentStep(m)' = CurrentStep(m)
  BY DEF CurrentStep, effective_dispatch_step
<1>2. QED
  BY <1>1, SparedKept DEF Grow, Traced, OncePerProof

\* A worker that does not move keeps what it relies on: the rows of its mission
\* are written by the holder alone.
LEMMA WorkerSpared ==
    ASSUME IInv, [Next]_vars, KeptMemo, Grow, NEW v \in Workers, ~At(v, "idle"),
           job'[v] = job[v], Named(v), Clear(v),
           Holds(v) => /\ processes'[Mission(v)] = processes[Mission(v)]
                       /\ steps'[Mission(v)] = steps[Mission(v)]
    PROVE  Named(v)' /\ Clear(v)'
<1>1. Mission(v) \in Missions /\ Mission(v)' = Mission(v)
  BY DEF IInv, LeaseInv, Working, Mission
<1>2. Holds(v)' => Holds(v)
  BY HeldBefore
<1>3. CurrentStep(Mission(v))' = CurrentStep(Mission(v)) \/ ~Holds(v)
  BY <1>1 DEF CurrentStep, effective_dispatch_step
<1>4. Named(v)'
  BY <1>1, <1>2, <1>3 DEF Named, Grow
<1>5. Holds(v) /\ Spared(Mission(v)) => Spared(Mission(v))'
  BY <1>1, SparedKept DEF Spared
<1>6. Clear(v)'
  BY <1>1, <1>2, <1>5 DEF Clear, Grow
<1>7. QED
  BY <1>4, <1>6

\* What a worker does not hold it does not touch.
LEMMA OnlyItsRows ==
    ASSUME IInv, NEW w \in Workers, Work(w), NEW m \in Missions, m # Mission(w) \/ ~Holds(w)
    PROVE  steps'[m] = steps[m] /\ processes'[m] = processes[m]
<1>1. Claimed(w) /\ Moves(w) /\ TypeOK /\ StoreTypeOK
  BY WorkIsClaimed, WorkMoves DEF IInv, TypeOK
<1>2. steps'[m] = steps[m]
  BY <1>1 DEF Moves, StepsMove, StoreTypeOK
<1>3. CASE Send(w)
  BY <1>1, <1>2, <1>3 DEF Send, TypeOK
<1>4. CASE UNCHANGED processes
  BY <1>2, <1>4
<1>5. QED
  BY <1>3, <1>4, WorkLegs
\* A worker that drifts names nothing and is cleared for nothing new.
LEMMA DriftSpared ==
    ASSUME NEW w, Claimed(w), Grow, UNCHANGED processes, Clear(w), Drift(w), job'[w].pc # "idle"
    PROVE  Named(w)' /\ Clear(w)'
<1>1. job[w] \in Job /\ Mission(w) \in Missions
  BY DEF Claimed, TypeOK
<1>2. /\ job'[w].pc \notin {"send", "calling"}
      /\ job'[w].attempted = job[w].attempted /\ job'[w].on = job[w].on
  <2>1. ~Leave(w)
    BY ReturnPc DEF Leave, Idle
  <2>2. CASE Park(w)
    <3>1. PICK pc \in {"retryable", "nonretryable", "defer"} : Goto(w, pc)
      BY <2>2 DEF Park
    <3>2. job'[w] = [job[w] EXCEPT !.pc = pc]
      BY <3>1, GotoJob
    <3>3. QED
      BY <1>1, <3>1, <3>2 DEF Job
  <2>3. CASE Start(w)
    BY <2>3, EnterJob DEF Start
  <2>4. CASE Proceed(w)
    BY <2>4, EnterJob DEF Proceed
  <2>5. CASE Pass(w)
    <3>1. job'[w] = [job[w] EXCEPT !.pc = "settle"] \/ job'[w] = [job[w] EXCEPT !.pc = "finish"]
      BY <2>5, GotoJob DEF Pass
    <3>2. QED
      BY <1>1, <3>1 DEF Job
  <2>6. QED
    BY <2>1, <2>2, <2>3, <2>4, <2>5 DEF Drift
<1>3. QED
  BY <1>1, <1>2 DEF Named, Clear, Mission, Grow

\* The three moves on which the argument rests.

\* A fresh selection follows a read of the record that shows the mission spared,
\* or its answer settled.
LEMMA ChosenSpared ==
    ASSUME NEW w, Claimed(w), Grow, UNCHANGED <<steps, processes>>, Traced(Mission(w)), Clear(w),
           Chosen(w)
    PROVE  Named(w)' /\ Clear(w)'
<1>1. job[w] \in Job /\ Mission(w) \in Missions /\ StoreTypeOK
  BY DEF Claimed, TypeOK
<1>2. PICK mode, p : Decide(w, mode, p) /\ (mode = "fresh" => MaySelect(w))
  BY DEF Chosen
<1>0. PICK m \in Missions : m = Mission(w)
  BY <1>1
<1> DEFINE s == IF Entering(w) THEN DispatchName(m) ELSE job[w].step
<1>3. job'[w] = [job[w] EXCEPT !.pc = "send", !.mode = mode, !.profile = p, !.step = s]
  BY <1>0, <1>2, ChosenJob
<1>4. ~freeLeg[m] => s = DispatchName(m)
  BY <1>0 DEF Clear, Entering
<1>5. ~proof[m] => DispatchName(m) = CurrentStep(m)
  BY <1>1 DEF DispatchName, CurrentStep, StoreTypeOK
<1>6. mode = "fresh" => Spared(m) \/ steps[m][s] \in Outputs
  <2> SUFFICES ASSUME mode = "fresh", ~Spared(m) PROVE steps[m][s] \in Outputs
    OBVIOUS
  <2>1. ~freeLeg[m] /\ ~proof[m] /\ Entering(w)
    BY <1>0 DEF Spared, Clear, Entering
  <2>2. ~keptLeg[m] /\ ~(steps[m][DispatchName(m)] = "started" /\ NoLeg(m))
    BY <1>0, <1>2, <2>1 DEF MaySelect, PastBoundary, Unresolved
  <2>3. s = CurrentStep(m) /\ s = DispatchName(m)
    BY <1>4, <1>5, <2>1
  <2>4. steps[m][s] # "none" /\ steps[m][s] # "started"
    BY <1>0, <2>1, <2>2, <2>3 DEF Traced, NoLeg
  <2>5. s \in StepNames
    BY <2>3, CurrentStepType DEF StepNames
  <2>6. QED
    BY <1>1, <2>4, <2>5 DEF StoreTypeOK, StepStatus
<1>7. job'[w].pc = "send" /\ job'[w].on = m /\ job'[w].step = s /\ job'[w].mode = mode
      /\ job'[w].attempted = job[w].attempted
  BY <1>0, <1>1, <1>3 DEF Job, Mission
<1> HIDE DEF s
<1>8. CurrentStep(m)' = CurrentStep(m)
  BY DEF CurrentStep, effective_dispatch_step
<1>9. Named(w)'
  <2> SUFFICES ASSUME ~freeLeg'[m], ~proof'[m] PROVE s = CurrentStep(m)'
    BY <1>7 DEF Named, Mission
  <2>1. QED
    BY <1>1, <1>4, <1>5, <1>8 DEF Grow
<1>10. Spared(m) => Spared(m)'
  BY <1>1, SparedKept
<1>11. Clear(w)'
  <2>1. job'[w].attempted # {} => freeLeg'[m]
    BY <1>0, <1>1, <1>7 DEF Clear, Grow
  <2>2. job'[w].mode = "fresh" => Spared(m)' \/ steps'[m][s] \in Outputs
    BY <1>6, <1>7, <1>10
  <2>3. QED
    BY <1>7, <2>1, <2>2 DEF Clear, Mission
<1>12. QED
  BY <1>9, <1>11

\* A process is started only for a mission that was spared, under its current
\* step.
LEMMA SendSpared ==
    ASSUME NEW w, Claimed(w), Grow, NEW m \in Missions, m = Mission(w), Placed(w), Traced(m),
           OncePerProof(m), Named(w), Clear(w), Send(w)
    PROVE  /\ Named(w)' /\ Clear(w)'
           /\ Traced(m)' /\ OncePerProof(m)'
<1>1. job[w] \in Job /\ StoreTypeOK /\ processes \in [Missions -> Nat]
  BY DEF Claimed, TypeOK
<1> DEFINE s == job[w].step
           begun == IF steps[m][s] = "none" THEN "started" ELSE steps[m][s]
<1>2. /\ job[w].pc = "send" /\ Holds(w) /\ steps[m][s] \notin Outputs
      /\ steps' = [steps EXCEPT ![m][s] = begun]
      /\ UNCHANGED <<freeLeg, keptLeg, proof>>
  BY DEF Send, At, BeginRows, legVars, repairVars
<1>3. PICK ran \in IF job[w].mode = "fresh" /\ ~proof[m] THEN BOOLEAN ELSE {FALSE} :
          /\ job' = [job EXCEPT ![w].pc = "calling", ![w].ran = ran]
          /\ processes' = [processes EXCEPT ![m] = IF ran THEN @ + 1 ELSE @]
  BY DEF Send
<1>4. job'[w] = [job[w] EXCEPT !.pc = "calling", !.ran = ran]
  BY <1>3 DEF Claimed, TypeOK
<1>5. /\ job'[w].pc = "calling" /\ job'[w].on = m /\ job'[w].step = s /\ job'[w].mode = job[w].mode
      /\ job'[w].attempted = job[w].attempted /\ job'[w].ran = ran /\ job'[w].stage = job[w].stage
  BY <1>1, <1>4 DEF Job, Mission
<1>6. s \in DISPATCH_STEP_NAMES /\ s \in StepNames /\ job[w].stage = "dispatch"
  BY <1>2 DEF Placed, StepNames
<1>7. /\ steps'[m][s] = begun /\ begun \notin Outputs /\ begun # "none"
      /\ \A x \in StepNames : x # s => steps'[m][x] = steps[m][x]
  BY <1>1, <1>2, <1>6 DEF StoreTypeOK, Outputs
<1> HIDE DEF begun
<1>8. ~freeLeg[m] /\ ~proof[m] => CurrentStep(m)' = s
  <2> SUFFICES ASSUME ~freeLeg[m], ~proof[m] PROVE CurrentStep(m)' = s
    OBVIOUS
  <2>1. s = CurrentStep(m)
    BY <1>2, <1>6 DEF Named
  <2>2. QED
    BY <1>7, <2>1 DEF CurrentStep, effective_dispatch_step, StepNames, DISPATCH_STEP_NAMES, Outputs
<1>9. job[w].mode = "fresh" => Spared(m)
  BY <1>2 DEF Clear
<1>10. ran => job[w].mode = "fresh" /\ ~proof[m]
  BY <1>3
<1>11. processes'[m] = IF ran THEN processes[m] + 1 ELSE processes[m]
  BY <1>1, <1>3
<1>12. OncePerProof(m)'
  BY <1>1, <1>2, <1>9, <1>10, <1>11 DEF OncePerProof, Spared
<1>13. Traced(m)'
  <2>1. CASE freeLeg[m] \/ proof[m]
    BY <1>2, <2>1 DEF Traced, Spared
  <2>2. CASE ~freeLeg[m] /\ ~proof[m]
    BY <1>7, <1>8, <2>2 DEF Traced
  <2>3. QED
    BY <2>1, <2>2
<1>14. Named(w)'
  BY <1>2, <1>5, <1>8 DEF Named, Mission
<1>15. Clear(w)'
  <2>1. job'[w].mode = "fresh" /\ ~ran => Spared(m)'
    BY <1>2, <1>5, <1>9, <1>11 DEF Spared
  <2>2. job'[w].attempted # {} => freeLeg'[m]
    BY <1>2, <1>5 DEF Clear
  <2>3. QED
    BY <1>5, <2>1, <2>2 DEF Clear, Mission
<1>16. QED
  BY <1>12, <1>13, <1>14, <1>15
\* An answer that moves the mission on to its second dispatch step is true: the
\* mission was spared.
LEMMA AnswerDispatchSpared ==
    ASSUME NEW w, Claimed(w), Grow, NEW m \in Missions, m = Mission(w), UNCHANGED processes,
           Placed(w), Traced(m), OncePerProof(m), Clear(w), AnswerDispatch(w)
    PROVE  /\ Named(w)' /\ Clear(w)'
           /\ Traced(m)' /\ OncePerProof(m)'
<1>1. job[w] \in Job /\ StoreTypeOK /\ processes \in [Missions -> Nat]
  BY DEF Claimed, TypeOK
<1>2. PICK a \in Answers :
          /\ Truthful(w, a)
          /\ a \in SettledAnswers => Holds(w) /\ CompleteRows(m, job[w].step, a)
          /\ a \notin SettledAnswers => UNCHANGED storeVars
          /\ job'[w] = [job[w] EXCEPT !.pc = "record", !.heard = a]
  BY AnswerDispatchJob
<1>3. job[w].pc = "calling" /\ job[w].stage = "dispatch" /\ job[w].step \in DISPATCH_STEP_NAMES
  BY AnswerDispatchJob DEF Placed
<1>4. job'[w].pc = "record" /\ job'[w].attempted = job[w].attempted /\ job'[w].on = m
  BY <1>1, <1>2 DEF Job, Mission
<1>5. Named(w)' /\ Clear(w)'
  BY <1>4 DEF Named, Clear, Mission, Grow
<1>6. OncePerProof(m)'
  BY DEF OncePerProof, Grow
<1>7. Spared(m) => Spared(m)'
  BY SparedKept
<1>8. CASE a \notin SettledAnswers
  BY <1>2, <1>6, <1>8, <1>5, RowsSpared DEF storeVars
<1>9. CASE a \in SettledAnswers
  <2>1. steps' = [steps EXCEPT ![m][job[w].step] = a] /\ Holds(w) /\ UNCHANGED <<keptLeg, proof, freeLeg>>
    BY <1>2, <1>9 DEF CompleteRows, legVars, repairVars
  <2>2. a # "none"
    BY <1>9 DEF SettledAnswers
  <2>3. CASE a = "unstarted"
    <3>1. Spared(m)
      BY <1>1, <1>2, <1>3, <2>1, <2>3 DEF Truthful, Clear, Spared
    <3>2. QED
      BY <1>5, <1>6, <1>7, <3>1 DEF Traced
  <2>4. CASE a # "unstarted"
    <3>1. \A s \in DISPATCH_STEP_NAMES : steps[m][s] # "none" => steps'[m][s] # "none"
      BY <1>1, <1>3, <2>1, <2>2 DEF StoreTypeOK, StepNames
    <3>2. steps'[m]["dispatch"] = "unstarted" => steps[m]["dispatch"] = "unstarted"
      BY <1>1, <1>3, <2>1, <2>4 DEF StoreTypeOK, StepNames, DISPATCH_STEP_NAMES
    <3>3. Traced(m)'
      BY <1>7, <2>1, <3>1, <3>2, CurrentStepKept DEF Traced
    <3>4. QED
      BY <1>5, <1>6, <3>3
  <2>5. QED
    BY <2>3, <2>4
<1>10. QED
  BY <1>8, <1>9

\* The next profile is tried on a leg that says the last one was not started.
LEMMA RecordLegSpared ==
    ASSUME NEW w, Claimed(w), Grow, Clear(w), RecordLeg(w)
    PROVE  Named(w)' /\ Clear(w)'
<1>1. job[w] \in Job /\ Mission(w) \in Missions /\ StoreTypeOK
  BY DEF Claimed, TypeOK
<1> DEFINE pc == AfterLeg(w)
           tried == IF pc = "route" THEN job[w].attempted \cup {job[w].profile} ELSE job[w].attempted
<1>2. job'[w] = [job[w] EXCEPT !.pc = pc, !.attempted = tried]
  BY RecordLegJob
<1>3. pc \notin {"send", "calling"}
  BY DEF AfterLeg
<1>4. pc = "route" => freeLeg'[Mission(w)]
  <2> SUFFICES ASSUME pc = "route" PROVE freeLeg'[Mission(w)]
    OBVIOUS
  <2>1. job[w].mode = "fresh" /\ job[w].heard = "unavailable"
    BY DEF AfterLeg
  <2>2. RecordRows(Mission(w), job[w].profile, TRUE)
    BY <2>1 DEF RecordLeg, FreeAnswers
  <2>3. QED
    BY <1>1, <2>2 DEF RecordRows, StoreTypeOK
<1>5. tried # {} => freeLeg'[Mission(w)]
  BY <1>1, <1>4 DEF Clear, Grow
<1> HIDE DEF pc, tried
<1>6. job'[w].pc = pc /\ job'[w].attempted = tried /\ job'[w].on = Mission(w)
  BY <1>1, <1>2 DEF Job, Mission
<1>7. QED
  BY <1>3, <1>5, <1>6 DEF Named, Clear, Mission

\* A step of another stage writes no dispatch row.
LEMMA OtherStageSpared ==
    ASSUME NEW w, Claimed(w), StagedBegin(w), Grow, NEW m \in Missions, m = Mission(w),
           UNCHANGED processes, Placed(w), Traced(m), OncePerProof(m), Clear(w),
           Replay(w) \/ BeginStep(w) \/ AnswerStep(w)
    PROVE  /\ Named(w)' /\ Clear(w)'
           /\ Traced(m)' /\ OncePerProof(m)'
<1>1. job[w] \in Job /\ StoreTypeOK /\ UNCHANGED <<freeLeg, keptLeg, proof>>
  BY DEF Claimed, TypeOK, Replay, BeginStep, AnswerStep, BeginRows, CompleteRows, storeVars, legVars, repairVars
<1>2. job[w].stage # "dispatch"
  BY ReplayJob, BeginStepJob, AnswerStepJob DEF StagedBegin, At
<1>3. StepName(w) \in ContextSteps \cup {job[w].stage}
  BY DEF StepName, ContextStep, ContextSteps
<1>4. ASSUME NEW s, s \in ContextSteps \cup (Stages \ {"dispatch"})
      PROVE  s \notin DISPATCH_STEP_NAMES
  BY <1>4 DEF ContextSteps, Stages, DISPATCH_STEP_NAMES
<1>5. StepName(w) \notin DISPATCH_STEP_NAMES
  BY <1>1, <1>2, <1>3, <1>4 DEF Job
<1>6. \A s \in DISPATCH_STEP_NAMES : steps'[m][s] = steps[m][s]
  <2>1. CASE Replay(w)
    BY <2>1, ReplayJob
  <2>2. CASE BeginStep(w)
    <3> DEFINE x == StepName(w)
    <3>1. PICK begun : steps' = [steps EXCEPT ![m][x] = begun]
      BY <2>2 DEF BeginStep, BeginRows
    <3>2. x \notin DISPATCH_STEP_NAMES
      BY <1>5
    <3> HIDE DEF x
    <3>3. QED
      BY <1>1, <3>1, <3>2 DEF StoreTypeOK, StepNames
  <2>3. CASE AnswerStep(w)
    <3>1. PICK a : steps' = [steps EXCEPT ![m][job[w].step] = a]
      BY <2>3, AnswerStepJob DEF CompleteRows
    <3>2. job[w].pc = "calling"
      BY <2>3, AnswerStepJob
    <3>3. job[w].step \in ContextSteps \cup {job[w].stage}
      BY <1>2, <3>2 DEF Placed
    <3>4. job[w].step \notin DISPATCH_STEP_NAMES
      BY <1>1, <1>2, <1>4, <3>3 DEF Job
    <3>5. QED
      BY <1>1, <3>1, <3>4 DEF StoreTypeOK, StepNames
  <2>4. QED
    BY <2>1, <2>2, <2>3
<1>7. CurrentStep(m)' = CurrentStep(m) /\ steps'[m][CurrentStep(m)] = steps[m][CurrentStep(m)]
  BY <1>6, CurrentStepType DEF CurrentStep, effective_dispatch_step, DISPATCH_STEP_NAMES
<1>8. Traced(m)' /\ OncePerProof(m)'
  BY <1>1, <1>7 DEF Traced, OncePerProof, Spared
<1>9. /\ job'[w].stage # "dispatch" /\ job'[w].attempted = job[w].attempted /\ job'[w].on = m
      /\ job'[w].pc # "send"
  <2>1. CASE Replay(w)
    <3> DEFINE pc == AfterStep(job[w].stage)
               s == StepName(w)
               a == steps[Mission(w)][s]
    <3>1. job'[w] = [job[w] EXCEPT !.pc = pc, !.step = s, !.heard = a]
      BY <2>1, ReplayJob
    <3>2. pc # "send"
      BY DEF AfterStep
    <3> HIDE DEF pc, s, a
    <3>3. QED
      BY <1>1, <1>2, <3>1, <3>2 DEF Job, Mission
  <2>2. CASE BeginStep(w)
    <3> DEFINE s == StepName(w)
    <3>1. job'[w] = [job[w] EXCEPT !.pc = "calling", !.step = s]
      BY <2>2, BeginStepJob
    <3> HIDE DEF s
    <3>2. QED
      BY <1>1, <1>2, <3>1 DEF Job, Mission
  <2>3. CASE AnswerStep(w)
    <3> DEFINE pc == AfterStep(job[w].stage)
    <3>1. PICK a : job'[w] = [job[w] EXCEPT !.pc = pc, !.heard = a]
      BY <2>3, AnswerStepJob
    <3>2. pc # "send"
      BY DEF AfterStep
    <3> HIDE DEF pc
    <3>3. QED
      BY <1>1, <1>2, <3>1, <3>2 DEF Job, Mission
  <2>4. QED
    BY <2>1, <2>2, <2>3
<1>10. Named(w)' /\ Clear(w)'
  BY <1>1, <1>9 DEF Named, Clear, Mission
<1>11. QED
  BY <1>8, <1>10
ISpared == IShown /\ SparedInv

\* What the acting worker does to its own mission and to itself.
LEMMA TalkSpared ==
    ASSUME ISpared, [Next]_vars, NEW w \in Workers, Work(w), NEW m \in Missions, m = Mission(w)
    PROVE  /\ Traced(m)' /\ OncePerProof(m)'
           /\ job'[w].pc # "idle" => Named(w)' /\ Clear(w)'
<1>1. IInv /\ Claimed(w) /\ StagedBegin(w) /\ ~At(w, "idle") /\ StoreTypeOK
  BY WorkIsClaimed DEF ISpared, IShown, IMemo, Claimed, TypeOK
<1>2. Grow /\ Placed(w) /\ Traced(m) /\ OncePerProof(m) /\ Named(w) /\ Clear(w)
  BY <1>1, NextGrow DEF ISpared, IShown, PlaceInv, SparedInv
<1>3. CASE Send(w)
  BY <1>1, <1>2, <1>3, SendSpared
<1>4. CASE ~Send(w)
  <2>1. UNCHANGED processes
    BY <1>4, WorkLegs
  <2>2. UNCHANGED steps => Traced(m)' /\ OncePerProof(m)'
    BY <1>2, <2>1, RowsSpared
  <2>3. CASE Drift(w)
    <3>1. UNCHANGED steps
      BY <2>3 DEF Drift, Leave, Park, Start, Proceed, Pass
    <3>2. QED
      BY <1>1, <1>2, <2>1, <2>2, <2>3, <3>1, DriftSpared
  <2>4. CASE Chosen(w)
    <3>1. UNCHANGED steps
      BY <2>4 DEF Chosen, Decide, storeVars
    <3>2. QED
      BY <1>1, <1>2, <2>1, <2>2, <2>4, <3>1, ChosenSpared
  <2>5. CASE ReplayDispatch(w)
    <3> DEFINE a == steps[Mission(w)][job[w].step]
    <3>1. job'[w] = [job[w] EXCEPT !.pc = "record", !.ran = FALSE, !.heard = a] /\ UNCHANGED steps
      BY <1>1, <2>5, ReplayDispatchJob
    <3> HIDE DEF a
    <3>2. job'[w].pc = "record" /\ job'[w].attempted = job[w].attempted /\ job'[w].on = Mission(w)
      BY <1>1, <3>1 DEF Claimed, TypeOK, Job, Mission
    <3>3. Named(w)' /\ Clear(w)'
      BY <1>2, <3>2 DEF Named, Clear, Grow, Mission
    <3>4. QED
      BY <2>2, <3>1, <3>3
  <2>6. CASE AnswerDispatch(w)
    BY <1>1, <1>2, <2>1, <2>6, AnswerDispatchSpared
  <2>7. CASE RecordLeg(w)
    <3>1. UNCHANGED steps
      BY <1>1, <2>7, RecordLegJob
    <3>2. QED
      BY <1>1, <1>2, <2>2, <2>7, <3>1, RecordLegSpared
  <2>8. CASE Replay(w) \/ BeginStep(w) \/ AnswerStep(w)
    BY <1>1, <1>2, <2>1, <2>8, OtherStageSpared
  <2>9. QED
    BY <1>4, <2>3, <2>4, <2>5, <2>6, <2>7, <2>8, WorkDrifts DEF Talk
<1>5. QED
  BY <1>3, <1>4

LEMMA ClaimSpared ==
    ASSUME TypeOK, NEW w \in Workers, NEW m \in Missions, Lease(w, m)
    PROVE  Named(w)' /\ Clear(w)'
<1>1. job'[w].pc = "claimed" /\ job'[w].attempted = {}
  BY ClaimPlaced
<1>2. QED
  BY <1>1 DEF Named, Clear

LEMMA NextSpared == ISpared /\ [Next]_vars => SparedInv'
<1> SUFFICES ASSUME ISpared, [Next]_vars PROVE SparedInv'
  OBVIOUS
<1>1. IInv /\ TypeOK /\ StoreTypeOK /\ KeptMemo /\ Grow
  BY NextMemo, NextGrow DEF ISpared, IShown, IMemo, IInv, TypeOK
<1>2. ASSUME NEW w \in Workers, Work(w) PROVE SparedInv'
  <2>1. /\ ~At(w, "idle") /\ Mission(w) \in Missions
        /\ \A v \in Workers \ {w} : job'[v] = job[v]
    BY <1>1, <1>2, WorkIsClaimed, WorkFrame DEF Claimed, Framed, JobFrame
  <2>2. ASSUME NEW m \in Missions PROVE Traced(m)' /\ OncePerProof(m)'
    <3>1. CASE m = Mission(w)
      BY <1>2, <3>1, TalkSpared
    <3>2. CASE m # Mission(w)
      BY <1>1, <1>2, <3>2, OnlyItsRows, RowsSpared DEF ISpared, SparedInv
    <3>3. QED
      BY <3>1, <3>2
  <2>3. ASSUME NEW v \in Workers, ~At(v, "idle")' PROVE Named(v)' /\ Clear(v)'
    <3>1. CASE v = w
      BY <1>2, <2>1, <2>3, <3>1, TalkSpared DEF At
    <3>2. CASE v # w
      <4>1. job'[v] = job[v] /\ ~At(v, "idle") /\ Named(v) /\ Clear(v)
        BY <2>1, <2>3, <3>2 DEF At, ISpared, SparedInv
      <4>2. Mission(v) \in Missions
        BY <1>1, <4>1 DEF IInv, LeaseInv, Working
      <4>3. Holds(v) => Mission(v) # Mission(w) \/ ~Holds(w)
        BY <1>1, <2>1, <3>2, <4>1 DEF IInv, LeaseInv, Holds
      <4>4. Holds(v) => /\ processes'[Mission(v)] = processes[Mission(v)]
                        /\ steps'[Mission(v)] = steps[Mission(v)]
        BY <1>1, <1>2, <4>2, <4>3, OnlyItsRows
      <4>5. QED
        BY <1>1, <4>1, <4>4, WorkerSpared
    <3>3. QED
      BY <3>1, <3>2
  <2>4. QED
    BY <2>2, <2>3 DEF SparedInv
<1>3. CASE \A w \in Workers : ~Work(w)
  <2>1. UNCHANGED <<steps, processes>>
    BY <1>3 DEF Next, Claim, ClaimNamed, Lease, GrantLease, NoEffect, Heartbeat, Crash, Expire, RecoverStale,
       recover_stale, Operator, submit, cancel, record_reconciliation, resume_pre_provider, add_dependency,
       vars, storeVars
  <2>2. ASSUME NEW m \in Missions PROVE Traced(m)' /\ OncePerProof(m)'
    BY <1>1, <2>1, RowsSpared DEF ISpared, SparedInv
  <2>3. ASSUME NEW v \in Workers, ~At(v, "idle")' PROVE Named(v)' /\ Clear(v)'
    <3>1. CASE job'[v] = job[v]
      <4>1. ~At(v, "idle") /\ Named(v) /\ Clear(v)
        BY <2>3, <3>1 DEF At, ISpared, SparedInv
      <4>2. QED
        BY <1>1, <2>1, <3>1, <4>1, WorkerSpared
    <3>2. job'[v] # Idle
      BY <2>3 DEF At, Idle
    <3>3. QED
      BY <1>1, <1>3, <3>1, <3>2, OtherSteps, ClaimSpared DEF Elsewhere
  <2>4. QED
    BY <2>2, <2>3 DEF SparedInv
<1>4. QED
  BY <1>2, <1>3

\* A second process of one mission needs a leg that proved that an earlier call
\* started nothing, whatever leases expired, answers were lost or runs resumed in
\* between (begin_step, _dispatch, record_run).
THEOREM SecondProcessNeedsProof == Spec => []OneProcessPerProof
<1>1. Init => ISpared
  <2> SUFFICES ASSUME Init PROVE SparedInv
    BY InitIShown DEF ISpared
  <2>1. \A w \in Workers : At(w, "idle")
    BY DEF Init, At, Idle
  <2>2. QED
    BY <2>1 DEF SparedInv, Traced, Spared, OncePerProof, Init
<1>2. ISpared /\ [Next]_vars => ISpared'
  BY NextIShown, NextSpared DEF ISpared
<1>3. ISpared => OneProcessPerProof
  BY DEF ISpared, SparedInv, OncePerProof, OneProcessPerProof
<1>4. QED
  BY <1>1, <1>2, <1>3, PTL DEF Spec
-----------------------------------------------------------------------------
(* Nothing stalls silently.  An admitted mission that may not start waits for   *)
(* another one; the declared edges admit no cycle, so on finitely many missions *)
(* the waiting ends at one that has a cause of its own to stand still.          *)

LEMMA ReachesSelf ==
    ASSUME NEW E, NEW a \in Missions
    PROVE  Reaches(E, a, a)
  BY DEF Reaches

LEMMA ReachesNext ==
    ASSUME NEW E, NEW a \in Missions, NEW e \in E, e.on \in Missions, Reaches(E, a, e.of)
    PROVE  Reaches(E, a, e.on)
  BY DEF Reaches

LEMMA ReachesVia ==
    ASSUME NEW E, NEW e \in E, NEW b \in Missions, Reaches(E, e.on, b)
    PROVE  Reaches(E, e.of, b)
  BY DEF Reaches

\* In every set of finitely many missions one has no edge into the set.
LEMMA LastOfThem ==
    ASSUME IsFiniteSet(Missions), edges \in SUBSET Edge, Acyclic,
           NEW R \in SUBSET Missions, R # {}
    PROVE  \E y \in R : \A e \in edges : e.of = y => e.on \notin R
<1> DEFINE Down(y) == {z \in Missions : Reaches(edges, y, z)}
           Family == {Down(y) : y \in R}
           Order == StrictSubsetOrdering(Missions)
<1>1. IsWellFoundedOn(Order, SUBSET Missions)
  BY FS_StrictSubsetOrderingWellFounded, FS_FiniteSubsetsOfFinite
<1>2. Family \subseteq SUBSET Missions /\ Family # {}
  OBVIOUS
<1>3. PICK D \in Family : \A C \in Family : ~(<<C, D>> \in Order)
  <2> HIDE DEF Family, Order
  <2>1. QED
    BY <1>1, <1>2, WFMin
<1>4. PICK y \in R : D = Down(y)
  BY <1>3
<1>5. ASSUME NEW e \in edges, e.of = y, e.on \in R
      PROVE  FALSE
  <2>1. Down(e.on) \subseteq Down(y)
    BY <1>5, ReachesVia
  <2>2. y \in Down(y) /\ y \notin Down(e.on)
    BY <1>5, ReachesSelf DEF Acyclic
  <2>3. Down(e.on) \in Family /\ Down(e.on) \in SUBSET Missions /\ D \in SUBSET Missions
    BY <1>4, <1>5
  <2>4. <<Down(e.on), D>> \in Order
    <3> HIDE DEF Down
    <3>1. QED
      BY <1>4, <2>1, <2>2, <2>3 DEF StrictSubsetOrdering
  <2>5. QED
    BY <1>3, <2>3, <2>4
<1>6. QED
  BY <1>5

\* A dispatch that is nobody's and that the scheduler does not offer either: its
\* uncertainty was settled, by a leg that was recorded late, after it was left for
\* a resume.
Stranded(d) == state[d] = "dispatching" /\ lease[d] = 0 /\ ~uncertain_dispatch(d)

Halted(d) == Stopped(d) \/ Stranded(d)

LEMMA QuietHasCause ==
    ASSUME IsFiniteSet(Missions), StoreTypeOK, Acyclic, EndsSubmitted, Quiet,
           NEW m \in Missions, state[m] = "admitted"
    PROVE  \E d \in Missions : Reaches(Waits, m, d) /\ Halted(d)
<1> SUFFICES ASSUME \A d \in Missions : Reaches(Waits, m, d) => ~Halted(d) PROVE FALSE
  OBVIOUS
<1> DEFINE R == {x \in Missions : state[x] = "admitted" /\ Reaches(Waits, m, x)}
<1>1. edges \in SUBSET Edge /\ Waits \subseteq edges
  BY DEF StoreTypeOK, Waits
<1>2. PICK y \in R : \A e \in edges : e.of = y => e.on \notin R
  <2>1. m \in R
    BY ReachesSelf
  <2>2. R \in SUBSET Missions /\ R # {}
    BY <2>1
  <2> HIDE DEF R
  <2>3. QED
    BY <1>1, <2>2, LastOfThem
<1>3. lease[y] = 0 /\ ~Schedulable(y) /\ Candidate(y)
  BY <1>2 DEF Quiet, Candidate, Halted, Stopped
<1>4. \A x \in Missions : ~Resume(x)
  BY DEF Quiet, Schedulable
<1>5. PICK e \in edges : e.of = y /\ state[e.on] # "completed" /\ ~(Failed(e.on) /\ e.on_failure = "ignore")
  BY <1>3, <1>4 DEF Schedulable, Ready
<1>6. e \in Waits /\ e.on \in Missions
  BY <1>1, <1>5 DEF Waits, Edge
<1>7. Reaches(Waits, m, e.on)
  BY <1>2, <1>5, <1>6, ReachesNext
<1>8. lease[e.on] = 0 /\ ~cancelRequested[e.on] /\ ~Failed(e.on) /\ state[e.on] # "escalated"
      /\ ~Stranded(e.on)
  BY <1>6, <1>7 DEF Quiet, Halted, Stopped
<1>9. state[e.on] \in States /\ state[e.on] # "absent"
  BY <1>6 DEF EndsSubmitted, StoreTypeOK
<1>10. state[e.on] \notin RECOVERABLE
  BY <1>4, <1>6, <1>8 DEF Resume, Candidate, RECOVERABLE
<1>11. state[e.on] # "dispatching"
  BY <1>4, <1>6, <1>8 DEF Resume, Candidate, Stranded
<1>12. state[e.on] = "admitted"
  BY <1>5, <1>8, <1>9, <1>10, <1>11 DEF States, Failed, TERMINAL
<1>13. QED
  BY <1>2, <1>5, <1>6, <1>7, <1>12

-----------------------------------------------------------------------------
(* Where no live worker misses its renewals nothing is stranded: who works has   *)
(* the lease, and what is left without one in dispatching is uncertain.           *)

NoStall == "stall" \notin Env \/ MaxFaults = 0

AtWorkInv == \A w \in Workers : ~At(w, "idle") => Holds(w) /\ ~expired[Mission(w)]
LeftInv == \A m \in Missions : state[m] = "dispatching" /\ lease[m] = 0 => uncertain_dispatch(m)

\* A worker lets no lease expire.
ExpiryMove == \A m \in Missions : expired'[m] => expired[m]

LEMMA ClearExpiry ==
    ASSUME NEW m, ClearLease(m)
    PROVE  ExpiryMove
  BY DEF ClearLease, ExpiryMove
LEMMA KeepExpiry ==
    ASSUME UNCHANGED expired
    PROVE  ExpiryMove
  BY DEF ExpiryMove

LEMMA EndWithExpiry ==
    ASSUME NEW w, NEW new, EndWith(w, new) \/ LeaseLost(w)
    PROVE  ExpiryMove
<1>1. ClearLease(Mission(w)) \/ UNCHANGED expired
  BY DEF EndWith, TransitionTo, InvalidTransition, LeaseLost, storeVars, leaseVars
<1>2. QED
  BY <1>1, ClearExpiry, KeepExpiry

LEMMA SettleExpiry ==
    ASSUME NEW w, Settle(w)
    PROVE  ExpiryMove
<1>1. ASSUME NEW new, NEW before, NEW stage, Advance(w, new, before, stage) PROVE ExpiryMove
  BY <1>1, KeepExpiry DEF Advance, TransitionTo, InvalidTransition, KeepLease, storeVars, leaseVars
<1>2. CASE SettleContext(w) \/ SettleDispatch(w)
  BY <1>1, <1>2, EndWithExpiry, KeepExpiry DEF SettleContext, SettleDispatch, Raise, storeVars, leaseVars
<1>3. CASE SettleVerify(w) \/ SettleEvaluate(w) \/ Finish(w)
  BY <1>1, <1>3, EndWithExpiry, KeepExpiry DEF SettleVerify, SettleEvaluate, Finish, Raise, storeVars, leaseVars
<1>4. CASE SettleEvidence(w)
  BY <1>4, KeepExpiry DEF SettleEvidence, Raise, TransitionTo, InvalidTransition, KeepLease, storeVars, leaseVars
<1>5. QED
  BY <1>2, <1>3, <1>4 DEF Settle

LEMMA WorkExpiry ==
    ASSUME StoreTypeOK, NEW w, Work(w)
    PROVE  ExpiryMove
<1>1. ASSUME NEW m, expired' = [expired EXCEPT ![m] = FALSE] PROVE ExpiryMove
  BY <1>1 DEF ExpiryMove, StoreTypeOK
<1>2. CASE ObserveCancel(w) \/ CheckCancel(w)
  BY <1>2, EndWithExpiry, KeepExpiry DEF ObserveCancel, CheckCancel, storeVars, leaseVars
<1>3. CASE Step(w)
  BY <1>1, <1>3, KeepExpiry DEF Step, Replay, BeginStep, AnswerStep, AdapterFails, RefuseContext,
     CompleteRows, storeVars, leaseVars
<1>4. CASE Dispatch(w)
  <2>1. CASE Recover(w) \/ Reconcile(w) \/ \E p \in Selectable(w) : Select(w, p)
    BY <2>1, KeepExpiry DEF Recover, Reconcile, Select, Decide, storeVars, leaseVars
  <2>2. CASE Send(w)
    BY <1>1, <2>2 DEF Send
  <2>3. CASE ReplayDispatch(w) \/ AnswerDispatch(w)
    BY <2>3, KeepExpiry DEF ReplayDispatch, AnswerDispatch, CompleteRows, storeVars, leaseVars
  <2>4. CASE CapacityGate(w) \/ BudgetGate(w) \/ Exhausted(w)
    <3>1. RecordRows(Mission(w), None, TRUE)
      BY <2>4 DEF CapacityGate, BudgetGate, Exhausted, GateLeg
    <3>2. QED
      BY <3>1, KeepExpiry DEF RecordRows, leaseVars
  <2>5. CASE RecordLeg(w) \/ RejectReceipt(w) \/ RefuseSwitch(w)
    <3>1. UNCHANGED expired
      BY <2>5 DEF RecordLeg, RejectReceipt, RefuseSwitch, RecordRows, storeVars, leaseVars
    <3>2. QED
      BY <3>1, KeepExpiry
  <2>6. QED
    BY <1>4, <2>1, <2>2, <2>3, <2>4, <2>5 DEF Dispatch
<1>5. CASE Handle(w)
  BY <1>5, EndWithExpiry, ClearExpiry, KeepExpiry DEF Handle, OnRetryable, OnNonRetryable, OnDefer, Fenced,
     RetryRows, DeferRows, storeVars, leaseVars
<1>6. QED
  BY <1>2, <1>3, <1>4, <1>5, SettleExpiry DEF Work

LEMMA UncertainKept ==
    ASSUME NEW m, steps'[m] = steps[m], freeLeg'[m] = freeLeg[m], keptLeg'[m] = keptLeg[m],
           uncertain_dispatch(m)
    PROVE  uncertain_dispatch(m)'
  BY DEF uncertain_dispatch, DispatchStarted, NoLeg

ILeft == IInv /\ AtWorkInv /\ LeftInv

\* work_once under a lease that has not expired: the other missions keep their
\* rows, its own is not left in dispatching.
LEMMA WorkLeft ==
    ASSUME ILeft, Recorded, NEW w \in Workers, Work(w)
    PROVE  AtWorkInv' /\ LeftInv'
<1>1. /\ IInv /\ ~At(w, "idle") /\ Claimed(w) /\ StoreTypeOK /\ Mission(w) \in Missions
      /\ Framed(w) /\ LeasesMove(w) /\ ExpiryMove /\ RowsMove(w) /\ LegsMove(w)
  BY WorkIsClaimed, WorkFrame, WorkMoves, WorkExpiry, WorkRows, WorkLegs DEF ILeft, Claimed, TypeOK, Moves
<1>2. Holds(w) /\ lease[Mission(w)] # 0
  <2>1. Holds(w)
    BY <1>1 DEF ILeft, AtWorkInv
  <2>2. job[w].tok >= 1
    BY <1>1 DEF IInv, LeaseInv, Working
  <2>3. QED
    BY <2>1, <2>2 DEF Holds
<1>3. AtWorkInv'
  <2> SUFFICES ASSUME NEW v \in Workers, job'[v].pc # "idle"
               PROVE  lease'[job'[v].on] = job'[v].tok /\ ~expired'[job'[v].on]
    BY DEF AtWorkInv, At, Holds, Mission
  <2>1. job'[v].on = job[v].on /\ job'[v].tok = job[v].tok /\ ~At(v, "idle") /\ job'[v] # Idle
    BY <1>1 DEF Framed, JobFrame, Idle, At
  <2>2. Mission(v) \in Missions /\ Holds(v) /\ ~expired[Mission(v)]
    BY <1>1, <2>1 DEF ILeft, AtWorkInv, IInv, LeaseInv, Working
  <2>3. v # w => Mission(v) # Mission(w)
    BY <1>1, <1>2, <2>1, <2>2 DEF IInv, LeaseInv, Holds
  <2>4. lease'[Mission(v)] = lease[Mission(v)]
    BY <1>1, <2>1, <2>2, <2>3 DEF LeasesMove
  <2>5. QED
    BY <1>1, <2>1, <2>2, <2>4 DEF Holds, Mission, ExpiryMove
<1>4. LeftInv'
  <2> SUFFICES ASSUME NEW m \in Missions, state'[m] = "dispatching", lease'[m] = 0
               PROVE  uncertain_dispatch(m)'
    BY DEF LeftInv
  <2>1. CASE m = Mission(w)
    <3>1. lease' # lease
      BY <1>2, <2>1
    <3>2. state'[m] # "dispatching"
      <4>1. ASSUME NEW new \in States, CanTransition(m, new), TransitionRows(m, new)
            PROVE  state'[m] # "dispatching"
        <5>1. \A s \in States : "dispatching" \notin ALLOWED_TRANSITIONS[s]
          BY DEF ALLOWED_TRANSITIONS
        <5>2. new # "dispatching"
          BY <1>1, <4>1, <5>1 DEF CanTransition, StoreTypeOK
        <5>3. QED
          BY <4>1, <5>2 DEF TransitionRows
      <4>2. ASSUME NEW new \in {"admitted", "escalated"}, state' = [state EXCEPT ![m] = new]
            PROVE  state'[m] # "dispatching"
        BY <1>1, <4>2 DEF StoreTypeOK
      <4>3. QED
        BY <1>1, <2>1, <3>1, <4>1, <4>2 DEF RowsMove
    <3>3. QED
      BY <3>2
  <2>2. CASE m # Mission(w)
    <3>1. lease[m] = 0
      BY <1>1, <2>2 DEF LeasesMove
    <3>2. state[m] = "dispatching"
      BY <1>1, <2>2 DEF RowsMove, TransitionRows, StoreTypeOK
    <3>3. uncertain_dispatch(m)
      BY <3>1, <3>2 DEF ILeft, LeftInv
    <3>4. steps'[m] = steps[m]
      BY <1>1, <2>2, OnlyItsRows
    <3>5. freeLeg'[m] = freeLeg[m] /\ keptLeg'[m] = keptLeg[m]
      BY <1>1, <2>2 DEF LegsMove, RecordRows, legVars, StoreTypeOK
    <3>6. QED
      BY <3>3, <3>4, <3>5, UncertainKept
  <2>3. QED
    BY <2>1, <2>2
<1>5. QED
  BY <1>3, <1>4

LEMMA NextLeft ==
    ASSUME NoStall, ILeft, Recorded, [Next]_vars
    PROVE  AtWorkInv' /\ LeftInv'
<1>1. IInv /\ TypeOK /\ StoreTypeOK
  BY DEF ILeft, IInv, TypeOK
<1>2. \A v \in Workers : ~At(v, "idle") =>
          /\ Mission(v) \in Missions /\ Holds(v) /\ ~expired[Mission(v)]
          /\ lease[Mission(v)] # 0
  <2> SUFFICES ASSUME NEW v \in Workers, ~At(v, "idle")
               PROVE  /\ Mission(v) \in Missions /\ Holds(v) /\ ~expired[Mission(v)]
                      /\ lease[Mission(v)] # 0
    OBVIOUS
  <2>1. Mission(v) \in Missions /\ job[v].tok >= 1 /\ Holds(v) /\ ~expired[Mission(v)]
    BY <1>1 DEF ILeft, AtWorkInv, IInv, LeaseInv, Working
  <2>2. QED
    BY <2>1 DEF Holds
<1>3. ASSUME NEW w \in Workers, NEW m \in Missions, Lease(w, m) PROVE AtWorkInv' /\ LeftInv'
  <2>1. /\ lease[m] = 0 /\ lease' = [lease EXCEPT ![m] = serial[m] + 1]
        /\ expired' = [expired EXCEPT ![m] = FALSE]
        /\ state' = [state EXCEPT ![m] = IF @ = "admitted" THEN "dispatching" ELSE @]
        /\ UNCHANGED <<steps, freeLeg, keptLeg>>
    BY <1>3 DEF Lease, GrantLease, legVars
  <2>2. job'[w].on = m /\ job'[w].tok = lease'[m] /\ \A v \in Workers \ {w} : job'[v] = job[v]
    <3> DEFINE tok == lease'[m]
               from == state'[m]
    <3>1. job' = [job EXCEPT ![w] = [Idle EXCEPT !.pc = "claimed", !.on = m, !.tok = tok,
                                                 !.resume_state = from]]
      BY <1>3 DEF Lease
    <3> HIDE DEF tok, from
    <3>2. job'[w] = [Idle EXCEPT !.pc = "claimed", !.on = m, !.tok = tok, !.resume_state = from]
      BY <1>1, <3>1 DEF TypeOK
    <3>3. job'[w].on = m /\ job'[w].tok = tok
      BY <3>2 DEF Idle
    <3>4. QED
      BY <1>1, <3>1, <3>3 DEF TypeOK, tok
  <2>3. AtWorkInv'
    <3> SUFFICES ASSUME NEW v \in Workers, job'[v].pc # "idle"
                 PROVE  lease'[job'[v].on] = job'[v].tok /\ ~expired'[job'[v].on]
      BY DEF AtWorkInv, At, Holds, Mission
    <3>1. CASE v = w
      BY <1>1, <2>1, <2>2, <3>1 DEF StoreTypeOK
    <3>2. CASE v # w
      <4>1. job'[v] = job[v] /\ ~At(v, "idle") /\ Mission(v) # m
        BY <1>2, <2>1, <2>2, <3>2 DEF At
      <4>2. QED
        BY <1>1, <1>2, <2>1, <4>1 DEF Mission, Holds, StoreTypeOK
    <3>3. QED
      BY <3>1, <3>2
  <2>4. LeftInv'
    <3> SUFFICES ASSUME NEW x \in Missions, state'[x] = "dispatching", lease'[x] = 0
                 PROVE  uncertain_dispatch(x)'
      BY DEF LeftInv
    <3>1. x # m
      BY <1>1, <2>1 DEF StoreTypeOK
    <3>2. uncertain_dispatch(x)
      BY <1>1, <2>1, <3>1 DEF ILeft, LeftInv, StoreTypeOK
    <3>3. QED
      BY <2>1, <3>2, UncertainKept
  <2>5. QED
    BY <2>3, <2>4
<1>4. ASSUME NEW w \in Workers, Crash(w) PROVE AtWorkInv' /\ LeftInv'
  <2>1. UNCHANGED storeVars /\ \A v \in Workers : job'[v] = job[v] \/ job'[v] = Idle
    BY <1>1, <1>4 DEF Crash, Return, TypeOK
  <2>2. AtWorkInv'
    BY <2>1 DEF AtWorkInv, ILeft, At, Holds, Mission, storeVars, leaseVars, Idle
  <2>3. LeftInv'
    BY <2>1, UncertainKept DEF LeftInv, ILeft, storeVars, leaseVars, missionVars, legVars
  <2>4. QED
    BY <2>2, <2>3
<1>5. ASSUME NEW m \in Missions, Expire(m) PROVE AtWorkInv' /\ LeftInv'
  <2>1. ~Live(m)
    BY <1>1, <1>5 DEF Expire, NoStall, TypeOK
  <2>2. /\ expired' = [expired EXCEPT ![m] = TRUE]
        /\ UNCHANGED <<lease, job, steps, freeLeg, keptLeg, state>>
    BY <1>5 DEF Expire, missionVars, legVars
  <2>3. \A v \in Workers : ~At(v, "idle") => Mission(v) # m
    BY <1>2, <2>1 DEF Live
  <2>4. AtWorkInv'
    BY <1>1, <1>2, <2>2, <2>3 DEF AtWorkInv, At, Holds, Mission, StoreTypeOK
  <2>5. LeftInv'
    BY <2>2, UncertainKept DEF LeftInv, ILeft
  <2>6. QED
    BY <2>4, <2>5
<1>6. ASSUME NEW w \in Workers, Heartbeat(w) PROVE AtWorkInv' /\ LeftInv'
  <2>1. /\ expired' = [expired EXCEPT ![Mission(w)] = FALSE]
        /\ UNCHANGED <<lease, job, steps, freeLeg, keptLeg, state>>
    BY <1>6 DEF Heartbeat, missionVars, legVars
  <2>2. AtWorkInv'
    BY <1>1, <1>2, <2>1 DEF AtWorkInv, At, Holds, Mission, StoreTypeOK
  <2>3. LeftInv'
    BY <2>1, UncertainKept DEF LeftInv, ILeft
  <2>4. QED
    BY <2>2, <2>3
<1>7. CASE RecoverStale
  <2>1. /\ state' = [m \in Missions |-> IF Stale(m) THEN RecoveredState(m) ELSE state[m]]
        /\ lease' = [m \in Missions |-> IF Stale(m) THEN 0 ELSE lease[m]]
        /\ expired' = [m \in Missions |-> IF Stale(m) THEN FALSE ELSE expired[m]]
        /\ UNCHANGED <<job, steps, freeLeg, keptLeg>>
    BY <1>7 DEF RecoverStale, recover_stale, legVars
  <2>2. AtWorkInv'
    BY <1>1, <1>2, <2>1 DEF AtWorkInv, At, Holds, Mission, Stale
  <2>3. LeftInv'
    <3> SUFFICES ASSUME NEW m \in Missions, state'[m] = "dispatching", lease'[m] = 0
                 PROVE  uncertain_dispatch(m)'
      BY DEF LeftInv
    <3>1. uncertain_dispatch(m)
      BY <2>1 DEF ILeft, LeftInv, RecoveredState, RECOVERABLE
    <3>2. QED
      BY <2>1, <3>1, UncertainKept
  <2>4. QED
    BY <2>2, <2>3
<1>8. CASE Operator
  <2>1. /\ UNCHANGED <<job, lease, expired, steps, freeLeg, keptLeg>>
        /\ \A m \in Missions : state'[m] = "dispatching" => state[m] = "dispatching"
    BY <1>1, <1>8 DEF Operator, submit, cancel, record_reconciliation, resume_pre_provider, add_dependency,
       leaseVars, missionVars, legVars, StoreTypeOK
  <2>2. AtWorkInv'
    BY <2>1 DEF AtWorkInv, ILeft, At, Holds, Mission
  <2>3. LeftInv'
    BY <2>1, UncertainKept DEF LeftInv, ILeft
  <2>4. QED
    BY <2>2, <2>3
<1>9. CASE UNCHANGED vars
  <2>1. AtWorkInv'
    BY <1>9 DEF AtWorkInv, ILeft, At, Holds, Mission, vars, storeVars, leaseVars
  <2>2. LeftInv'
    BY <1>9, UncertainKept DEF LeftInv, ILeft, vars, storeVars, leaseVars, missionVars, legVars
  <2>3. QED
    BY <2>1, <2>2
<1>10. QED
  BY <1>3, <1>4, <1>5, <1>6, <1>7, <1>8, <1>9, WorkLeft DEF Next, Claim, ClaimNamed

LEMMA FreshLeft == Init => AtWorkInv /\ LeftInv
<1> SUFFICES ASSUME Init PROVE AtWorkInv /\ LeftInv
  OBVIOUS
<1>1. \A w \in Workers : At(w, "idle")
  BY DEF Init, At, Idle
<1>2. QED
  BY <1>1 DEF AtWorkInv, LeftInv, Init, InitStore

\* Finitely many missions that all stand still have a cause on record, or a dispatch
\* was stranded: a recovered dispatch that a late leg took off the scheduler's list.
THEOREM StallHasCause ==
    ASSUME IsFiniteSet(Missions)
    PROVE  Spec => [](Quiet => \A m \in Missions : state[m] = "admitted" =>
                         \E d \in Missions : Reaches(Waits, m, d) /\ Halted(d))
<1>1. ILedger /\ Acyclic =>
          (Quiet => \A m \in Missions : state[m] = "admitted" =>
               \E d \in Missions : Reaches(Waits, m, d) /\ Halted(d))
  BY QuietHasCause DEF ILedger, LedgerInv, IInv, TypeOK
<1>2. QED
  BY <1>1, Ledger, GraphIsAcyclic, PTL

\* When no live worker misses its renewals nothing is stranded, and nothing stalls
\* without a cause on record (add_dependency, dependency_reading, recover_stale,
\* _schedule_locked together).
THEOREM NothingStallsSilently ==
    ASSUME IsFiniteSet(Missions), NoStall
    PROVE  Spec => []NoSilentStall
<1>1. Init => AtWorkInv /\ LeftInv
  BY FreshLeft
<1>2. ILedger /\ AtWorkInv /\ LeftInv /\ [Next]_vars => AtWorkInv' /\ LeftInv'
  BY NextLeft DEF ILedger, LedgerInv, ILeft
<1>3. ILedger /\ Acyclic /\ LeftInv => NoSilentStall
  <2> SUFFICES ASSUME ILedger, Acyclic, LeftInv, Quiet, NEW m \in Missions, state[m] = "admitted"
               PROVE  \E d \in Missions : Reaches(Waits, m, d) /\ Stopped(d)
    BY DEF NoSilentStall
  <2>1. \E d \in Missions : Reaches(Waits, m, d) /\ Halted(d)
    BY QuietHasCause DEF ILedger, LedgerInv, IInv, TypeOK
  <2>2. \A d \in Missions : ~Stranded(d)
    BY DEF LeftInv, Stranded
  <2>3. QED
    BY <2>1, <2>2 DEF Halted
<1>4. QED
  BY <1>1, <1>2, <1>3, Ledger, GraphIsAcyclic, PTL DEF Spec

=============================================================================
