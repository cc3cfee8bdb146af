------------------------ MODULE ProductionProperties ------------------------
(* What the deployment ledger promises, whoever calls it and in what order. *)
EXTENDS Production

Row == [state: States, env: Envs \cup {None}, bundle: Bundles \cup {None},
        attempt: 0..MaxAttempt, requester: Actors \cup {None},
        approver: Actors \cup {None}, grant: Grants \cup {None},
        rollbacks: 0..MaxRollbacks, target: 0..MaxDeployments,
        ref: {"none", "version", "other"}, seen: {"none", "unproven", "proven"},
        stood: BOOLEAN]

Job == [pc: {"idle", "claim", "call", "settle"}, verb: Verbs,
        dep: 0..MaxDeployments, try: 0..MaxRollbacks, answer: Answers \cup {"none"}]

\* Type correctness of the ledger, the callers and the host.
ProductionTypeOK ==
    /\ env \in [Envs -> [policy: Policy, open: BOOLEAN, stop: BOOLEAN]]
    /\ dep \in [Ids -> Row]
    /\ admitted \in 0..MaxDeployments
    /\ op \in [Callers -> Job]
    /\ served \in [Envs -> Bundles \cup {None}]
    /\ calls \in [Keys -> Nat]
    /\ restored \in [Ids -> SUBSET Ids]

\* Whatever reaches a production environment, forward or backward, was approved
\* by a person other than the one who asked for it (approve, _claim_operation,
\* rollback).
ApprovedBeforeReached ==
    \A k \in Keys :
        calls[k] > 0 /\ dep[k[1]].env \in ProductionEnvs
            => dep[k[1]].approver \notin {None, dep[k[1]].requester}

\* deploy() reaches the adapter at most once for a deployment, however many
\* processes call it and whatever is recorded meanwhile (_claim_operation).
DeployedOnce == \A d \in Ids, n \in 0..MaxRollbacks : calls[<<d, "deploy", n>>] <= 1

\* What a rollback puts back was admitted before the release it withdraws and was
\* recorded healthy: restoring anything newer is a promotion (rollback).
RollbackGoesBack ==
    \A d \in Ids : \A t \in restored[d] :
        t < d /\ dep[t].env = dep[d].env /\ dep[t].stood

\* recovered is recorded only of an environment on which the adapter restored
\* something for this deployment (rollback, _settle).
RecoveredWasRestored ==
    \A d \in Rows : dep[d].state = "recovered" => restored[d] # {}

\* At most deployment_concurrency releases are on their way into an environment,
\* whatever failed, was rolled back or reconciled meanwhile, as long as the policy
\* is the one it was registered with (_admission_refusal).
OnTheirWay(e) ==
    {d \in Rows : dep[d].env = e
                  /\ dep[d].state \in {"awaiting_approval", "approved", "deploying"}}
ForwardBounded ==
    \A e \in Envs : Cardinality(OnTheirWay(e)) <= env[e].policy.concurrency

\* A deployment that is cancelled, recovered or escalated is never reopened, by
\* an operator, a restart or an answer that comes late (_settle).
Closed == {"cancelled", "recovered", "escalated"}
ClosedStays ==
    [][\A d \in Rows : dep[d].state \in Closed => dep'[d].state = dep[d].state]_productionVars
=============================================================================
