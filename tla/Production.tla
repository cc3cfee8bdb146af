----------------------------- MODULE Production -----------------------------
(***************************************************************************)
(* The production boundary: the deployment ledger of production.py, every  *)
(* verb of it one SQLite transaction, and the callers of deploy() and      *)
(* rollback(), which claim an operation, call the hosting adapter outside  *)
(* any transaction and settle its answer afterwards.  Several processes    *)
(* share the ledger; each may die between two of its steps.                *)
(*                                                                         *)
(* Abstractions.  A deployment id is its place in the order of admission,  *)
(* which the event log keeps.  A bundle and the artifact in it are one     *)
(* value.  environment.state is the flag open (enabled or not).  Incidents *)
(* and service-level events have no effect on a deployment and are left    *)
(* out.  The adapter is external: it serves a bundle or not, and answers.  *)
(***************************************************************************)
EXTENDS Integers, FiniteSets

CONSTANTS
    Envs,            \* environment ids
    ProductionEnvs,  \* those of class production; the others are staging
    Policies,        \* [Envs -> sets of policies the Owner may register]
    Bundles,         \* release bundles
    Actors,          \* who requests and approves
    Callers,         \* processes that run deploy() or rollback()
    Grants,          \* Owner validations an approval may name
    MaxDeployments,  \* bound: deployments admitted
    MaxAttempt,      \* deploy_review gives up after this attempt (8)
    MaxRollbacks,    \* the largest max_rollback_attempts of a policy
    None             \* no actor, environment, bundle or grant

Policy == [autonomous: BOOLEAN, approvers: SUBSET Actors,
           concurrency: Nat \ {0}, rollbacks: 0..MaxRollbacks]

\* EnvironmentPolicy refuses any other declaration.
ASSUME ProductionAssumption ==
    /\ ProductionEnvs \subseteq Envs
    /\ Policies \in [Envs -> SUBSET Policy]
    /\ \A e \in ProductionEnvs : \A p \in Policies[e] :
           ~p.autonomous /\ p.approvers # {}
    /\ MaxDeployments \in Nat /\ MaxAttempt \in Nat \ {0} /\ MaxRollbacks \in Nat
    /\ None \notin Envs \cup Bundles \cup Actors \cup Grants

VARIABLES
    env,       \* environments: the policy in force, open, stop
    dep,       \* deployments, by order of admission
    admitted,  \* how many there are
    op,        \* what each caller is doing
    served,    \* what each environment serves: outside the ledger
    calls,     \* history: calls of the adapter, by operation key
    restored   \* history: the deployments a rollback of d put back

ledgerVars == <<env, dep, admitted>>
hostVars == <<served, calls, restored>>
productionVars == <<env, dep, admitted, op, served, calls, restored>>

Ids == 1..MaxDeployments
Rows == 1..admitted
Verbs == {"deploy", "rollback"}
Keys == Ids \X Verbs \X (0..MaxRollbacks)
Outcomes == {"healthy", "degraded", "failed"}
Answers == {"reached", "missed", "unknown", "raised"}

ALLOWED_TRANSITIONS ==
    [none |-> {}, cancelled |-> {}, recovered |-> {}, escalated |-> {},
     awaiting_approval |-> {"approved", "cancelled"},
     approved |-> {"deploying", "cancelled"},
     deploying |-> {"verifying", "failed", "uncertain"},
     verifying |-> {"healthy", "degraded", "failed", "uncertain"},
     degraded |-> {"rolling_back", "healthy", "failed", "escalated"},
     failed |-> {"rolling_back", "escalated"},
     rolling_back |-> {"recovered", "rollback_failed", "uncertain"},
     rollback_failed |-> {"escalated"},
     uncertain |-> {"verifying", "healthy", "degraded", "failed",
                    "rolling_back", "escalated"},
     healthy |-> {"degraded", "failed", "rolling_back"}]

States == DOMAIN ALLOWED_TRANSITIONS
IN_FLIGHT == {"awaiting_approval", "approved", "deploying", "verifying",
              "degraded", "rolling_back", "uncertain"}

\* grant is the Owner validation promote_validated approved the row with; ref the
\* operation_ref, a platform version or something that is none; seen the last health
\* observation, which a probe proves or an operator counts; stood whether the event
\* log has the deployment healthy at some time.
NoRow == [state |-> "none", env |-> None, bundle |-> None, attempt |-> 0,
          requester |-> None, approver |-> None, grant |-> None, rollbacks |-> 0,
          target |-> 0, ref |-> "none", seen |-> "none", stood |-> FALSE]
Idle == [pc |-> "idle", verb |-> "deploy", dep |-> 0, try |-> 0, answer |-> "none"]

InitProduction ==
    /\ \E p \in [Envs -> UNION {Policies[e] : e \in Envs}] :
           /\ \A e \in Envs : p[e] \in Policies[e]
           /\ env = [e \in Envs |-> [policy |-> p[e], open |-> TRUE, stop |-> FALSE]]
    /\ dep = [d \in Ids |-> NoRow]
    /\ admitted = 0
    /\ op = [c \in Callers |-> Idle]
    /\ served = [e \in Envs |-> None]
    /\ calls = [k \in Keys |-> 0]
    /\ restored = [d \in Ids |-> {}]

-----------------------------------------------------------------------------
(* Environments.                                                           *)

\* Registering again replaces the policy, never the class or the stop.
RegisterEnvironment(e) ==
    /\ \E p \in Policies[e], open \in BOOLEAN :
           env' = [env EXCEPT ![e].policy = p, ![e].open = open]
    /\ UNCHANGED <<dep, admitted, op, hostVars>>

SetEnvironmentState(e) ==
    /\ env' = [env EXCEPT ![e].open = ~@]
    /\ UNCHANGED <<dep, admitted, op, hostVars>>

\* One environment, or every one: the scopes project and portfolio.
EmergencyStop(engaged) ==
    /\ \E reached \in {{e} : e \in Envs} \cup {Envs} :
           env' = [e \in Envs |-> IF e \in reached
                                  THEN [env[e] EXCEPT !.stop = engaged] ELSE env[e]]
    /\ UNCHANGED <<dep, admitted, op, hostVars>>

Gated(e) == e \in ProductionEnvs \/ ~env[e].policy.autonomous

-----------------------------------------------------------------------------
(* Admission, approval and the verbs that settle a row.                    *)

\* Mutant: a release that waits for its approval holds no slot.
ForgetfulInFlight(e) ==
    {d \in Rows : dep[d].env = e /\ dep[d].state \in IN_FLIGHT \ {"awaiting_approval"}}

InFlight(e) == {d \in Rows : dep[d].env = e /\ dep[d].state \in IN_FLIGHT}

AdmissionOpen(e) ==
    /\ env[e].open /\ ~env[e].stop
    /\ \A d \in Rows : dep[d].env = e => dep[d].state # "uncertain"
    /\ Cardinality(InFlight(e)) < env[e].policy.concurrency

\* The deployment a repeated request collides with.
Existing(b, e, n) ==
    {d \in Rows : dep[d].env = e /\ dep[d].bundle = b /\ dep[d].attempt = n}

Admission(b, e, who, n) ==
    /\ AdmissionOpen(e)
    /\ Existing(b, e, n) = {}
    /\ admitted < MaxDeployments
    /\ admitted' = admitted + 1
    /\ dep' = [dep EXCEPT ![admitted + 1] =
                  [NoRow EXCEPT !.state = IF Gated(e) THEN "awaiting_approval"
                                                      ELSE "approved",
                                !.env = e, !.bundle = b, !.attempt = n,
                                !.requester = who]]

AdmitRelease(b, e, who, n) ==
    /\ Admission(b, e, who, n)
    /\ UNCHANGED <<env, op, hostVars>>

Approvable(d, who) ==
    /\ dep[d].state = "awaiting_approval"
    /\ who \in env[dep[d].env].policy.approvers
    /\ who # dep[d].requester

ApproveRow(d, who, grant) ==
    /\ Approvable(d, who)
    /\ dep' = [dep EXCEPT ![d].state = "approved", ![d].approver = who,
                          ![d].grant = grant]

Approve(d, who, grant) ==
    /\ ApproveRow(d, who, grant)
    /\ UNCHANGED <<env, admitted, op, hostVars>>

MayMove(d, s) == s = dep[d].state \/ s \in ALLOWED_TRANSITIONS[dep[d].state]

Moved(d, s) == [dep[d] EXCEPT !.state = s, !.stood = @ \/ s = "healthy"]

\* _settle as record_health, cancel, escalate and reconcile call it.
Settles(d, s) ==
    /\ MayMove(d, s)
    /\ dep' = [dep EXCEPT ![d] = Moved(d, s)]
    /\ UNCHANGED <<env, admitted, op, hostVars>>

RecordHealthRow(d, outcome, seen) ==
    /\ MayMove(d, outcome)
    /\ dep' = [dep EXCEPT ![d] = [Moved(d, outcome) EXCEPT !.seen = seen]]

\* The counts an operator typed: they prove nothing about what is served.
RecordHealth(d, outcome) ==
    /\ RecordHealthRow(d, outcome, "unproven")
    /\ UNCHANGED <<env, admitted, op, hostVars>>

Cancel(d) == Settles(d, "cancelled")
Escalate(d) == Settles(d, "escalated")

\* reconcile takes any state uncertain may resolve to, and never looks whether
\* the deployment is uncertain.
Reconcile(d) == \E s \in ALLOWED_TRANSITIONS["uncertain"] : Settles(d, s)

\* Run after a restart, and by any operator at any time.
ReconcileOnRestart ==
    /\ dep' = [d \in Ids |-> IF dep[d].state \in {"deploying", "verifying"}
                             THEN [dep[d] EXCEPT !.state = "uncertain"] ELSE dep[d]]
    /\ UNCHANGED <<env, admitted, op, hostVars>>

-----------------------------------------------------------------------------
(* deploy() and rollback(): claim, call, settle.                           *)

\* Mutant: a second deploy() finds nothing that stops it.
ClaimWhileDeploying(d) ==
    dep[d].state \in {"approved", "deploying"} /\ ~env[dep[d].env].stop

Claimable(d) == dep[d].state = "approved" /\ ~env[dep[d].env].stop

ClaimDeploy(c, d) ==
    /\ op[c].pc = "idle"
    /\ Claimable(d)
    /\ dep' = [dep EXCEPT ![d].state = "deploying"]
    /\ op' = [op EXCEPT ![c] = [Idle EXCEPT !.pc = "call", !.dep = d,
                                            !.try = dep[d].rollbacks]]
    /\ UNCHANGED <<env, admitted, hostVars>>

\* Mutant: the newest healthy release, whenever it was admitted.
AnyHealthy(d) ==
    {t \in Rows \ {d} : dep[t].env = dep[d].env /\ dep[t].state = "healthy"}

\* Releases admitted before d that are recorded healthy.
Targets(d) ==
    {t \in Rows : t < d /\ dep[t].env = dep[d].env /\ dep[t].state = "healthy"}

Newest(S) == CHOOSE t \in S : \A u \in S : u <= t

\* Mutant: one attempt more than the environment permits.
RollsBackOnceMore(d) ==
    /\ "rolling_back" \in ALLOWED_TRANSITIONS[dep[d].state]
    /\ dep[d].rollbacks <= env[dep[d].env].policy.rollbacks
    /\ Targets(d) # {}

\* Mutant: the row is moved without asking the state machine.
RollsBackAnything(d) ==
    /\ dep[d].rollbacks < env[dep[d].env].policy.rollbacks
    /\ Targets(d) # {}

RollsBack(d) ==
    /\ "rolling_back" \in ALLOWED_TRANSITIONS[dep[d].state]
    /\ dep[d].rollbacks < env[dep[d].env].policy.rollbacks
    /\ Targets(d) # {}

\* rollback() moves the row in one transaction and claims in the next.
StartRollback(c, d) ==
    /\ op[c].pc = "idle"
    /\ RollsBack(d)
    /\ dep' = [dep EXCEPT ![d].state = "rolling_back", ![d].rollbacks = @ + 1,
                          ![d].target = Newest(Targets(d))]
    /\ op' = [op EXCEPT ![c] = [Idle EXCEPT !.pc = "claim", !.verb = "rollback",
                                            !.dep = d]]
    /\ UNCHANGED <<env, admitted, hostVars>>

\* The claim leaves the row in rolling_back; a refusal leaves it there too.
ClaimRollback(c) ==
    LET d == op[c].dep IN
    /\ op[c].pc = "claim"
    /\ op' = [op EXCEPT ![c] =
                 IF dep[d].state = "rolling_back" /\ ~env[dep[d].env].stop
                 THEN [@ EXCEPT !.pc = "call", !.try = dep[d].rollbacks] ELSE Idle]
    /\ UNCHANGED <<ledgerVars, hostVars>>

Called(c) == calls' = [calls EXCEPT ![<<op[c].dep, op[c].verb, op[c].try>>] = @ + 1]

Answered(c, a) == op' = [op EXCEPT ![c].pc = "settle", ![c].answer = a]

\* An adapter that answers reached has served the bundle, one that answers
\* missed has not; after the two other answers nobody knows.
CallDeploy(c) ==
    /\ op[c].pc = "call" /\ op[c].verb = "deploy"
    /\ \E a \in Answers :
           /\ \/ a # "missed"
                 /\ served' = [served EXCEPT ![dep[op[c].dep].env] = dep[op[c].dep].bundle]
              \/ a # "reached" /\ UNCHANGED served
           /\ Answered(c, a)
    /\ Called(c)
    /\ UNCHANGED <<ledgerVars, restored>>

\* The adapter reads the target from the row at the time of the call, and refuses
\* one without a platform version or with the bytes it is to withdraw.
PriorVersion(d) ==
    LET t == dep[d].target IN dep[t].ref = "version" /\ dep[t].bundle # dep[d].bundle

CallRollback(c) ==
    LET d == op[c].dep IN
    /\ op[c].pc = "call" /\ op[c].verb = "rollback"
    /\ \E a \in Answers :
           /\ \/ a # "missed" /\ PriorVersion(d)
                 /\ served' = [served EXCEPT ![dep[d].env] = dep[dep[d].target].bundle]
                 /\ restored' = [restored EXCEPT ![d] = @ \cup {dep[d].target}]
              \/ /\ a # "reached" /\ (a = "missed" \/ PriorVersion(d))
                 /\ UNCHANGED <<served, restored>>
           /\ Answered(c, a)
    /\ Called(c)
    /\ UNCHANGED ledgerVars

\* Mutant: an adapter that cannot tell is taken at its best.
HopefulState(verb, a) ==
    IF verb = "deploy"
    THEN CASE a = "reached" -> "verifying" [] a = "missed" -> "failed" [] OTHER -> "uncertain"
    ELSE IF a = "missed" THEN "rollback_failed" ELSE "recovered"

\* _record_outcome, and the end of rollback().
OutcomeState(verb, a) ==
    CASE a = "reached" -> IF verb = "deploy" THEN "verifying" ELSE "recovered"
      [] a = "missed" -> IF verb = "deploy" THEN "failed" ELSE "rollback_failed"
      [] OTHER -> "uncertain"

\* operation_ref is kept when the adapter raised.
OutcomeRef(d, verb, a) ==
    CASE a = "raised" -> dep[d].ref
      [] a = "reached" /\ verb = "deploy" -> "version"
      [] OTHER -> "other"

\* An answer the row no longer has a transition for is refused, and lost.
SettleCall(c) ==
    LET d == op[c].dep
        s == OutcomeState(op[c].verb, op[c].answer) IN
    /\ op[c].pc = "settle"
    /\ dep' = IF MayMove(d, s)
              THEN [dep EXCEPT ![d] = [Moved(d, s) EXCEPT
                       !.ref = OutcomeRef(d, op[c].verb, op[c].answer)]]
              ELSE dep
    /\ op' = [op EXCEPT ![c] = Idle]
    /\ UNCHANGED <<env, admitted, hostVars>>

Crash(c) ==
    /\ op[c].pc # "idle"
    /\ op' = [op EXCEPT ![c] = Idle]
    /\ UNCHANGED <<ledgerVars, hostVars>>

-----------------------------------------------------------------------------

Operator ==
    \/ \E e \in Envs : RegisterEnvironment(e) \/ SetEnvironmentState(e)
    \/ \E engaged \in BOOLEAN : EmergencyStop(engaged)
    \/ \E b \in Bundles, e \in Envs, who \in Actors, n \in 1..MaxAttempt :
           AdmitRelease(b, e, who, n)
    \/ \E d \in Rows, who \in Actors : Approve(d, who, None)
    \/ \E d \in Rows, outcome \in Outcomes : RecordHealth(d, outcome)
    \/ \E d \in Rows : Cancel(d) \/ Escalate(d) \/ Reconcile(d)
    \/ ReconcileOnRestart

Caller(c) ==
    \/ \E d \in Rows : ClaimDeploy(c, d) \/ StartRollback(c, d)
    \/ ClaimRollback(c)
    \/ CallDeploy(c) \/ CallRollback(c)
    \/ SettleCall(c)
    \/ Crash(c)

NextProduction == Operator \/ \E c \in Callers : Caller(c)

SpecProduction == InitProduction /\ [][NextProduction]_productionVars
=============================================================================
