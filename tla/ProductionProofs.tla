-------------------------- MODULE ProductionProofs --------------------------
(***************************************************************************)
(* Proofs about the deployment ledger and the release path over it, for    *)
(* any environments, policies, callers, candidates and number of           *)
(* deployments.  Of the ledger: its typing, that nothing reaches a         *)
(* production environment without a second person's approval, that a       *)
(* deployment is handed to the adapter once, what a rollback may put back, *)
(* and how many releases are under way at once.  Of the release path: that *)
(* it keeps all this, that what is decided was served, and that what is    *)
(* promoted is what was decided.                                           *)
(***************************************************************************)
EXTENDS ProductionProperties, ReleaseProperties, WellFoundedInduction, FiniteSetTheorems, TLAPS

\* A row in one of these has had an operation claimed for it.
Reached == {"deploying", "verifying", "healthy", "degraded", "failed", "rolling_back",
            "recovered", "rollback_failed", "uncertain", "escalated"}

\* The states the table of transitions names.
LEMMA StateNames ==
    States = {"none", "cancelled", "recovered", "escalated", "awaiting_approval",
              "approved", "deploying", "verifying", "degraded", "failed",
              "rolling_back", "rollback_failed", "uncertain", "healthy"}
  BY DEF States, ALLOWED_TRANSITIONS

\* The lifecycle never leads back to a state before the claim, so a deployment
\* that was claimed once can neither be claimed nor cancelled again.
LEMMA NoWayBack ==
    ASSUME NEW s \in States, NEW t \in ALLOWED_TRANSITIONS[s]
    PROVE  /\ t \in States
           /\ s \in Reached => t \in Reached
           /\ t \in Reached => s \in Reached \cup {"approved"}
           /\ s # "none" /\ t # "none" /\ s # "cancelled"
  BY StateNames DEF ALLOWED_TRANSITIONS, Reached

-----------------------------------------------------------------------------
(* The inductive invariant.                                                *)

\* Rows are filled in the order of admission, and an admitted row is complete.
RowsInOrder ==
    \A d \in Ids :
        /\ dep[d].state = "none" <=> d > admitted
        /\ d <= admitted => dep[d].env \in Envs /\ dep[d].bundle \in Bundles

\* The adapter was called, and a process is busy, only with what was claimed; a
\* rollback under way has its target on record.
ClaimedFirst ==
    /\ \A k \in Keys : calls[k] > 0 => dep[k[1]].state \in Reached
    /\ \A c \in Callers : op[c].pc # "idle" =>
           /\ op[c].dep \in Ids
           /\ dep[op[c].dep].state \in Reached
           /\ op[c].verb = "rollback" => dep[op[c].dep].target \in Ids
           /\ op[c].pc = "claim" => op[c].verb = "rollback"

\* A row of a production environment that is past its approval names the approver.
Authority ==
    \A d \in Ids :
        dep[d].env \in ProductionEnvs /\ dep[d].state \in Reached \cup {"approved"}
            => dep[d].approver # None /\ dep[d].approver # dep[d].requester

\* A process about to call deploy is alone with its deployment, and nobody has.
Deploying(c) == op[c].pc = "call" /\ op[c].verb = "deploy"
Unspent ==
    /\ \A c \in Callers : Deploying(c) =>
           \A n \in 0..MaxRollbacks : calls[<<op[c].dep, "deploy", n>>] = 0
    /\ \A c1, c2 \in Callers :
           Deploying(c1) /\ Deploying(c2) /\ op[c1].dep = op[c2].dep => c1 = c2

IInv ==
    /\ ProductionTypeOK /\ RowsInOrder /\ ClaimedFirst
    /\ Authority /\ Unspent /\ DeployedOnce

LEMMA RowIds == IInv => /\ admitted \in Nat /\ MaxDeployments \in Nat
                        /\ \A d \in Rows : d \in Ids /\ d <= admitted
                        /\ dep \in [Ids -> Row]
  BY ProductionAssumption DEF IInv, ProductionTypeOK, Rows, Ids

\* A process that is idle has a job of no account.
LEMMA IdleJob == Idle \in Job
  BY ProductionAssumption DEF Idle, Job, Verbs

\* The initial states satisfy the invariant.
LEMMA Initially == InitProduction => IInv
<1> SUFFICES ASSUME InitProduction PROVE IInv
  OBVIOUS
<1>1. NoRow \in Row /\ Idle \in Job
  BY ProductionAssumption, IdleJob DEF NoRow, Row, States, ALLOWED_TRANSITIONS
<1>2. ProductionTypeOK
  <2>2. MaxDeployments \in Nat
    BY ProductionAssumption
  <2>1. env \in [Envs -> [policy: Policy, open: BOOLEAN, stop: BOOLEAN]]
    BY ProductionAssumption DEF InitProduction
  <2> QED
    BY <2>1, <2>2, <1>1 DEF InitProduction, ProductionTypeOK
<1>3. RowsInOrder /\ Authority /\ ClaimedFirst
  BY ProductionAssumption DEF InitProduction, RowsInOrder, Authority, ClaimedFirst, NoRow, Idle, Ids, Reached
<1>4. Unspent /\ DeployedOnce
  BY DEF InitProduction, Unspent, DeployedOnce, Deploying, Idle, Keys, Verbs
<1> QED
  BY <1>2, <1>3, <1>4 DEF IInv

\* What _settle writes is a row, of the same environment and authority.
LEMMA MovedRow ==
    ASSUME IInv, NEW d \in Rows, NEW s \in States, MayMove(d, s)
    PROVE  /\ d \in Ids /\ dep[d] \in Row
           /\ Moved(d, s) \in Row
           /\ Moved(d, s) = [dep[d] EXCEPT !.state = s, !.stood = @ \/ s = "healthy"]
           /\ dep[d].state # "none" /\ s # "none"
           /\ dep[d].state \in Reached => s \in Reached
           /\ s \in Reached => dep[d].state \in Reached \cup {"approved"}
<1>1. d \in Ids /\ dep[d] \in Row
  BY RowIds
<1>2. dep[d].state # "none" /\ dep[d].state \in States
  <2>1. d <= admitted /\ admitted \in Nat /\ d \in Nat
    BY RowIds DEF Rows
  <2> QED
    BY <1>1, <2>1 DEF IInv, RowsInOrder, Row
<1>3. Moved(d, s) \in Row
  BY <1>1 DEF Moved, Row
<1> QED
  BY <1>1, <1>2, <1>3, NoWayBack DEF MayMove, Moved

-----------------------------------------------------------------------------
(* Steps.  Most of them write one row; what a write has to keep is stated   *)
(* once.                                                                    *)

RowsKept ==
    /\ dep' \in [Ids -> Row] /\ admitted' \in 0..MaxDeployments
    /\ RowsInOrder' /\ Authority'
    /\ \A d \in Ids : dep[d].state \in Reached =>
           /\ dep'[d].state \in Reached
           /\ dep[d].target \in Ids => dep'[d].target \in Ids

HostTyped ==
    /\ served' \in [Envs -> Bundles \cup {None}]
    /\ calls' \in [Keys -> Nat]
    /\ restored' \in [Ids -> SUBSET Ids]

LEMMA RowWritten ==
    ASSUME IInv, NEW d \in Rows, NEW r \in Row,
           dep' = [dep EXCEPT ![d] = r], admitted' = admitted,
           r.state # "none", r.env = dep[d].env, r.bundle = dep[d].bundle,
           dep[d].state \in Reached => r.state \in Reached,
           dep[d].target \in Ids => r.target \in Ids,
           r.env \in ProductionEnvs /\ r.state \in Reached \cup {"approved"}
               => r.approver # None /\ r.approver # r.requester
    PROVE  RowsKept
<1>1. /\ d \in Ids /\ d <= admitted /\ dep \in [Ids -> Row] /\ admitted \in 0..MaxDeployments
      /\ d \in Nat /\ admitted \in Nat
  BY RowIds DEF IInv, ProductionTypeOK, Rows
<1>2. dep' \in [Ids -> Row] /\ dep'[d] = r /\ \A e \in Ids \ {d} : dep'[e] = dep[e]
  BY <1>1
<1>3. RowsInOrder'
  BY <1>1, <1>2 DEF IInv, RowsInOrder, Ids
<1>4. Authority'
  BY <1>1, <1>2 DEF IInv, Authority
<1> QED
  BY <1>1, <1>2, <1>3, <1>4 DEF RowsKept

LEMMA RowsSame ==
    ASSUME IInv, UNCHANGED <<dep, admitted>> PROVE RowsKept
  BY DEF IInv, ProductionTypeOK, RowsInOrder, Authority, RowsKept

LEMMA HostSame ==
    ASSUME IInv, UNCHANGED hostVars PROVE HostTyped
  BY DEF IInv, ProductionTypeOK, HostTyped, hostVars

\* While no operation changes, keeping the rows keeps everything.
LEMMA QuietStep ==
    ASSUME IInv, RowsKept, UNCHANGED <<op, hostVars>>,
           env' \in [Envs -> [policy: Policy, open: BOOLEAN, stop: BOOLEAN]]
    PROVE  IInv'
<1>1. ProductionTypeOK'
  BY DEF IInv, ProductionTypeOK, RowsKept, hostVars
<1>2. ClaimedFirst'
  BY DEF IInv, ClaimedFirst, RowsKept, hostVars, Keys
<1>3. Unspent' /\ DeployedOnce'
  BY DEF IInv, Unspent, DeployedOnce, Deploying, hostVars
<1> QED
  BY <1>1, <1>2, <1>3 DEF IInv, RowsKept

\* One caller moves on, without calling the adapter.
LEMMA CallerStep ==
    ASSUME IInv, RowsKept, UNCHANGED <<env, hostVars>>,
           NEW c \in Callers, NEW j \in Job, op' = [op EXCEPT ![c] = j],
           j.pc # "idle" =>
               /\ j.dep \in Ids /\ dep'[j.dep].state \in Reached
               /\ j.verb = "rollback" => dep'[j.dep].target \in Ids
               /\ j.pc = "claim" => j.verb = "rollback",
           j.pc = "call" /\ j.verb = "deploy" =>
               /\ \A n \in 0..MaxRollbacks : calls[<<j.dep, "deploy", n>>] = 0
               /\ \A b \in Callers \ {c} : Deploying(b) => op[b].dep # j.dep
    PROVE  IInv'
<1>1. /\ op \in [Callers -> Job] /\ op' \in [Callers -> Job] /\ op'[c] = j
      /\ \A b \in Callers \ {c} : op'[b] = op[b]
  BY DEF IInv, ProductionTypeOK
<1>2. ProductionTypeOK'
  BY <1>1 DEF IInv, ProductionTypeOK, RowsKept, hostVars
<1>3. ClaimedFirst'
  <2>1. \A k \in Keys : calls'[k] > 0 => dep'[k[1]].state \in Reached
    BY DEF IInv, ClaimedFirst, RowsKept, hostVars, Keys
  <2>2. ASSUME NEW b \in Callers, op'[b].pc # "idle"
        PROVE  /\ op'[b].dep \in Ids /\ dep'[op'[b].dep].state \in Reached
               /\ op'[b].verb = "rollback" => dep'[op'[b].dep].target \in Ids
               /\ op'[b].pc = "claim" => op'[b].verb = "rollback"
    BY <1>1, <2>2 DEF IInv, ClaimedFirst, RowsKept
  <2> QED
    BY <2>1, <2>2 DEF ClaimedFirst
<1>4. Unspent'
  BY <1>1 DEF IInv, Unspent, Deploying, hostVars
<1>5. DeployedOnce'
  BY DEF IInv, DeployedOnce, hostVars
<1> QED
  BY <1>2, <1>3, <1>4, <1>5 DEF IInv, RowsKept

\* One caller hands its key to the adapter and has the answer.
LEMMA AdapterStep ==
    ASSUME IInv, UNCHANGED ledgerVars, NEW c \in Callers, NEW a \in Answers,
           op[c].pc = "call", Answered(c, a), Called(c),
           served' \in [Envs -> Bundles \cup {None}], restored' \in [Ids -> SUBSET Ids]
    PROVE  IInv'
<1> DEFINE key == <<op[c].dep, op[c].verb, op[c].try>>
           j == [op[c] EXCEPT !.pc = "settle", !.answer = a]
<1>1. /\ op \in [Callers -> Job] /\ op[c] \in Job /\ calls \in [Keys -> Nat]
      /\ op[c].dep \in Ids
  BY DEF IInv, ProductionTypeOK, ClaimedFirst
<1>2. key \in Keys /\ j \in Job
  BY <1>1 DEF Keys, Job, Verbs
<1>3. /\ op' = [op EXCEPT ![c] = j] /\ op' \in [Callers -> Job] /\ op'[c] = j
      /\ \A b \in Callers \ {c} : op'[b] = op[b]
  BY <1>1, <1>2 DEF Answered
<1>4. /\ calls' \in [Keys -> Nat] /\ calls'[key] = calls[key] + 1
      /\ \A k \in Keys : k # key => calls'[k] = calls[k]
  BY <1>1, <1>2 DEF Called
<1>5. UNCHANGED <<env, dep, admitted>>
  BY DEF ledgerVars
<1>6. ProductionTypeOK'
  BY <1>3, <1>4, <1>5 DEF IInv, ProductionTypeOK
<1>7. RowsInOrder' /\ Authority'
  BY <1>5 DEF IInv, RowsInOrder, Authority
<1>8. ClaimedFirst'
  <2>1. ASSUME NEW k \in Keys, calls'[k] > 0 PROVE dep'[k[1]].state \in Reached
    <3>1. CASE k = key
      <4>1. k[1] = op[c].dep
        BY <3>1
      <4> QED
        BY <1>5, <4>1 DEF IInv, ClaimedFirst
    <3>2. CASE k # key
      BY <1>4, <1>5, <2>1, <3>2 DEF IInv, ClaimedFirst
    <3> QED
      BY <3>1, <3>2
  <2>2. ASSUME NEW b \in Callers, op'[b].pc # "idle"
        PROVE  /\ op'[b].dep \in Ids /\ dep'[op'[b].dep].state \in Reached
               /\ op'[b].verb = "rollback" => dep'[op'[b].dep].target \in Ids
               /\ op'[b].pc = "claim" => op'[b].verb = "rollback"
    BY <1>1, <1>3, <1>5, <2>2 DEF IInv, ClaimedFirst, Job
  <2> QED
    BY <2>1, <2>2 DEF ClaimedFirst
<1>9. Unspent'
  <2>1. ASSUME NEW b \in Callers, Deploying(b)'
        PROVE  b # c /\ op'[b] = op[b] /\ Deploying(b)
    BY <1>1, <1>3, <2>1 DEF Deploying, Job
  <2>2. ASSUME NEW b \in Callers, Deploying(b)', NEW n \in 0..MaxRollbacks
        PROVE  calls'[<<op'[b].dep, "deploy", n>>] = 0
    <3>1. <<op[b].dep, "deploy", n>> \in Keys
      BY <2>1, <2>2 DEF IInv, ClaimedFirst, Deploying, Keys, Verbs
    <3>2. <<op[b].dep, "deploy", n>> # key
      BY <2>1, <2>2 DEF IInv, Unspent, Deploying
    <3> QED
      BY <1>4, <2>1, <2>2, <3>1, <3>2 DEF IInv, Unspent
  <2> QED
    BY <2>1, <2>2 DEF IInv, Unspent
<1>10. DeployedOnce'
  <2> SUFFICES ASSUME NEW d \in Ids, NEW n \in 0..MaxRollbacks
               PROVE  calls'[<<d, "deploy", n>>] <= 1
    BY DEF DeployedOnce
  <2>1. <<d, "deploy", n>> \in Keys
    BY DEF Keys, Verbs
  <2>2. CASE <<d, "deploy", n>> = key
    <3>1. op[c].verb = "deploy" /\ op[c].try = n /\ op[c].dep = d
      BY <2>2
    <3>2. calls[key] = 0
      BY <2>2, <3>1 DEF IInv, Unspent, Deploying
    <3> QED
      BY <1>4, <2>2, <3>2
  <2>3. CASE <<d, "deploy", n>> # key
    BY <1>4, <2>1, <2>3 DEF IInv, DeployedOnce
  <2> QED
    BY <2>2, <2>3
<1> QED
  BY <1>6, <1>7, <1>8, <1>9, <1>10 DEF IInv
-----------------------------------------------------------------------------
(* Operator's verbs.                                                       *)

\* Registering, opening and stopping an environment leave the rows alone.
LEMMA EnvironmentSteps ==
    ASSUME IInv,
           \/ \E e \in Envs : RegisterEnvironment(e) \/ SetEnvironmentState(e)
           \/ \E engaged \in BOOLEAN : EmergencyStop(engaged)
    PROVE  IInv'
<1>1. env \in [Envs -> [policy: Policy, open: BOOLEAN, stop: BOOLEAN]]
  BY DEF IInv, ProductionTypeOK
<1>2. ASSUME NEW e \in Envs, RegisterEnvironment(e) PROVE IInv'
  <2>1. PICK p \in Policies[e], open \in BOOLEAN :
            env' = [env EXCEPT ![e].policy = p, ![e].open = open]
    BY <1>2 DEF RegisterEnvironment
  <2>2. p \in Policy
    BY <2>1, ProductionAssumption
  <2>3. env' \in [Envs -> [policy: Policy, open: BOOLEAN, stop: BOOLEAN]]
    BY <1>1, <2>1, <2>2
  <2> QED
    BY <1>2, <2>3, RowsSame, QuietStep DEF RegisterEnvironment
<1>3. ASSUME NEW e \in Envs, SetEnvironmentState(e) PROVE IInv'
  <2>1. env' \in [Envs -> [policy: Policy, open: BOOLEAN, stop: BOOLEAN]]
    BY <1>1, <1>3 DEF SetEnvironmentState
  <2> QED
    BY <1>3, <2>1, RowsSame, QuietStep DEF SetEnvironmentState
<1>4. ASSUME NEW engaged \in BOOLEAN, EmergencyStop(engaged) PROVE IInv'
  <2>1. env' \in [Envs -> [policy: Policy, open: BOOLEAN, stop: BOOLEAN]]
    BY <1>1, <1>4 DEF EmergencyStop
  <2> QED
    BY <1>4, <2>1, RowsSame, QuietStep DEF EmergencyStop
<1> QED
  BY <1>2, <1>3, <1>4

\* A new row is filled in complete, and nothing has reached its environment.
LEMMA AdmissionStep ==
    ASSUME IInv, NEW b \in Bundles, NEW e \in Envs, NEW who \in Actors,
           NEW n \in 1..MaxAttempt, AdmitRelease(b, e, who, n)
    PROVE  IInv'
<1> DEFINE r == [NoRow EXCEPT !.state = IF Gated(e) THEN "awaiting_approval" ELSE "approved",
                              !.env = e, !.bundle = b, !.attempt = n, !.requester = who]
<1>1. /\ admitted < MaxDeployments /\ admitted' = admitted + 1
      /\ dep' = [dep EXCEPT ![admitted + 1] = r]
      /\ UNCHANGED <<env, op, hostVars>>
  BY DEF AdmitRelease, Admission
<1>2. /\ dep \in [Ids -> Row] /\ admitted \in 0..MaxDeployments /\ MaxDeployments \in Nat
      /\ admitted + 1 \in Ids
  BY <1>1, RowIds DEF IInv, ProductionTypeOK, Ids
<1>3. r \in Row /\ r.env = e /\ r.bundle = b
      /\ r.state = IF Gated(e) THEN "awaiting_approval" ELSE "approved"
  <2>1. NoRow \in Row /\ n \in 0..MaxAttempt
    BY ProductionAssumption, StateNames DEF NoRow, Row
  <2> QED
    BY <2>1, StateNames DEF NoRow, Row
<1>4. /\ dep' \in [Ids -> Row] /\ dep'[admitted + 1] = r
      /\ \A d \in Ids \ {admitted + 1} : dep'[d] = dep[d]
  BY <1>1, <1>2, <1>3
<1>5. RowsInOrder'
  <2> SUFFICES ASSUME NEW d \in Ids
               PROVE  /\ dep'[d].state = "none" <=> d > admitted'
                      /\ d <= admitted' => dep'[d].env \in Envs /\ dep'[d].bundle \in Bundles
    BY DEF RowsInOrder
  <2>1. CASE d = admitted + 1
    BY <1>1, <1>2, <1>3, <1>4, <2>1
  <2>2. CASE d # admitted + 1
    <3>1. d \in Nat /\ (d > admitted' <=> d > admitted) /\ (d <= admitted' <=> d <= admitted)
      BY <1>1, <1>2, <2>2 DEF Ids
    <3> QED
      BY <1>4, <2>2, <3>1 DEF IInv, RowsInOrder
  <2> QED
    BY <2>1, <2>2
<1>6. Authority'
  <2>1. e \in ProductionEnvs => r.state \notin Reached \cup {"approved"}
    BY <1>3 DEF Gated, Reached
  <2> SUFFICES ASSUME NEW d \in Ids, dep'[d].env \in ProductionEnvs,
                      dep'[d].state \in Reached \cup {"approved"}
               PROVE  dep'[d].approver # None /\ dep'[d].approver # dep'[d].requester
    BY DEF Authority
  <2>2. d # admitted + 1
    BY <1>3, <1>4, <2>1
  <2> QED
    BY <1>4, <2>2 DEF IInv, Authority
<1>7. \A d \in Ids : dep[d].state \in Reached => dep'[d] = dep[d]
  <2>1. dep[admitted + 1].state = "none"
    BY <1>2 DEF IInv, RowsInOrder
  <2>2. dep[admitted + 1].state \notin Reached
    BY <2>1 DEF Reached
  <2> QED
    BY <1>4, <2>2
<1>8. RowsKept
  <2>1. admitted' \in 0..MaxDeployments
    BY <1>1, <1>2
  <2>2. \A d \in Ids : dep[d].state \in Reached =>
            /\ dep'[d].state \in Reached
            /\ dep[d].target \in Ids => dep'[d].target \in Ids
    BY <1>7
  <2> QED
    BY <1>4, <1>5, <1>6, <2>1, <2>2 DEF RowsKept
<1> QED
  BY <1>1, <1>8, QuietStep DEF IInv, ProductionTypeOK

\* The Owner's approval.
LEMMA ApproveStep ==
    ASSUME IInv, NEW d \in Rows, NEW who \in Actors, NEW grant \in Grants \cup {None},
           Approve(d, who, grant)
    PROVE  IInv'
<1> DEFINE r == [dep[d] EXCEPT !.state = "approved", !.approver = who, !.grant = grant]
<1>1. /\ dep[d].state = "awaiting_approval" /\ who # dep[d].requester
      /\ dep' = [dep EXCEPT ![d] = r]
      /\ UNCHANGED <<env, admitted, op, hostVars>>
  BY DEF Approve, ApproveRow, Approvable
<1>2. d \in Ids /\ dep[d] \in Row
  BY RowIds
<1>3. r \in Row
  <2>1. "approved" \in States /\ who \in Actors \cup {None} /\ grant \in Grants \cup {None}
    BY StateNames
  <2> QED
    BY <1>2, <2>1 DEF Row
<1>4. who # None
  BY ProductionAssumption
<1>5. dep[d].state \notin Reached
  BY <1>1 DEF Reached
<1>6. RowsKept
  <2>1. /\ r.state = "approved" /\ r.env = dep[d].env /\ r.bundle = dep[d].bundle
        /\ r.approver = who /\ r.requester = dep[d].requester
        /\ r.target = dep[d].target
    BY <1>2 DEF Row
  <2> QED
    BY <1>1, <1>3, <1>4, <1>5, <2>1, RowWritten
<1> QED
  BY <1>1, <1>6, QuietStep DEF IInv, ProductionTypeOK

\* A settled row, whatever is noted beside its state.
LEMMA SettledRow ==
    ASSUME IInv, NEW d \in Rows, NEW s \in States, MayMove(d, s), NEW r \in Row,
           dep' = [dep EXCEPT ![d] = r], admitted' = admitted,
           s # "approved", r.state = s, r.env = dep[d].env, r.bundle = dep[d].bundle,
           r.approver = dep[d].approver, r.requester = dep[d].requester,
           r.target = dep[d].target
    PROVE  RowsKept
<1>1. /\ d \in Ids /\ s # "none"
      /\ dep[d].state \in Reached => s \in Reached
      /\ s \in Reached => dep[d].state \in Reached \cup {"approved"}
  BY MovedRow
<1> QED
  BY <1>1, RowWritten DEF IInv, Authority

LEMMA SeenRow ==
    ASSUME NEW x \in Row, NEW seen \in {"unproven", "proven"}
    PROVE  [x EXCEPT !.seen = seen] \in Row
<1>1. seen \in {"none", "unproven", "proven"}
  OBVIOUS
<1> QED
  BY <1>1 DEF Row

\* record_health, cancel, escalate and reconcile.
LEMMA SettlesStep ==
    ASSUME IInv, NEW d \in Rows, NEW s \in States \ {"approved"},
           Settles(d, s) \/ \E seen \in {"unproven", "proven"} : RecordHealthRow(d, s, seen)
                                 /\ UNCHANGED <<env, admitted, op, hostVars>>
    PROVE  IInv'
<1>1. MayMove(d, s) /\ UNCHANGED <<env, admitted, op, hostVars>>
  BY DEF Settles, RecordHealthRow
<1>2. /\ d \in Ids /\ dep[d] \in Row /\ Moved(d, s) \in Row
      /\ Moved(d, s) = [dep[d] EXCEPT !.state = s, !.stood = @ \/ s = "healthy"]
  BY <1>1, MovedRow
<1>3. RowsKept
  <2>1. CASE dep' = [dep EXCEPT ![d] = Moved(d, s)]
    <3> DEFINE r == Moved(d, s)
    <3>1. /\ r.state = s /\ r.env = dep[d].env /\ r.bundle = dep[d].bundle
          /\ r.approver = dep[d].approver /\ r.requester = dep[d].requester
          /\ r.target = dep[d].target
      BY <1>2 DEF Row
    <3> QED
      BY <1>1, <1>2, <2>1, <3>1, SettledRow
  <2>2. ASSUME NEW seen \in {"unproven", "proven"},
               dep' = [dep EXCEPT ![d] = [Moved(d, s) EXCEPT !.seen = seen]]
        PROVE  RowsKept
    <3> DEFINE r == [Moved(d, s) EXCEPT !.seen = seen]
    <3>1. r \in Row
      BY <1>2, SeenRow
    <3>2. /\ r.state = s /\ r.env = dep[d].env /\ r.bundle = dep[d].bundle
          /\ r.approver = dep[d].approver /\ r.requester = dep[d].requester
          /\ r.target = dep[d].target
      BY <1>2 DEF Row
    <3> QED
      BY <1>1, <2>2, <3>1, <3>2, SettledRow
  <2> QED
    BY <2>1, <2>2 DEF Settles, RecordHealthRow
<1> QED
  BY <1>1, <1>3, QuietStep DEF IInv, ProductionTypeOK

\* reconcile_on_restart.
LEMMA RestartStep ==
    ASSUME IInv, ReconcileOnRestart
    PROVE  IInv'
<1> DEFINE taken(d) == dep[d].state \in {"deploying", "verifying"}
           row(d) == IF taken(d) THEN [dep[d] EXCEPT !.state = "uncertain"] ELSE dep[d]
<1>1. /\ dep' = [d \in Ids |-> row(d)]
      /\ UNCHANGED <<env, admitted, op, hostVars>>
  BY DEF ReconcileOnRestart
<1>2. dep \in [Ids -> Row] /\ admitted \in 0..MaxDeployments
  BY DEF IInv, ProductionTypeOK
<1>3. ASSUME NEW d \in Ids
      PROVE  /\ dep'[d] \in Row
             /\ dep'[d].env = dep[d].env /\ dep'[d].bundle = dep[d].bundle
             /\ dep'[d].approver = dep[d].approver /\ dep'[d].requester = dep[d].requester
             /\ dep'[d].target = dep[d].target
             /\ dep'[d].state = dep[d].state
                  \/ (dep[d].state \in {"deploying", "verifying"} /\ dep'[d].state = "uncertain")
  <2>1. dep'[d] = row(d) /\ dep[d] \in Row
    BY <1>1, <1>2
  <2>2. CASE taken(d)
    <3>1. dep'[d] = [dep[d] EXCEPT !.state = "uncertain"]
      BY <2>1, <2>2
    <3> QED
      BY <2>1, <2>2, <3>1, StateNames DEF Row
  <2>3. CASE ~taken(d)
    <3>1. dep'[d] = dep[d]
      BY <2>1, <2>3
    <3> QED
      BY <2>1, <3>1
  <2> QED
    BY <2>2, <2>3
<1>4. dep' \in [Ids -> Row]
  BY <1>1, <1>3
<1>5. RowsInOrder'
  BY <1>1, <1>3 DEF IInv, RowsInOrder
<1>6. Authority'
  BY <1>3 DEF IInv, Authority, Reached
<1>7. \A d \in Ids : dep[d].state \in Reached =>
          /\ dep'[d].state \in Reached
          /\ dep[d].target \in Ids => dep'[d].target \in Ids
  BY <1>3 DEF Reached
<1>8. RowsKept
  BY <1>1, <1>2, <1>4, <1>5, <1>6, <1>7 DEF RowsKept
<1> QED
  BY <1>1, <1>8, QuietStep DEF IInv, ProductionTypeOK

-----------------------------------------------------------------------------
(* The callers' steps.                                                     *)

\* The newest of some admitted deployments is one of them.
LEMMA NewestIsOne ==
    ASSUME IInv, NEW S \in SUBSET Rows, S # {}
    PROVE  Newest(S) \in S
<1> DEFINE left == {admitted - t : t \in S}
<1>1. admitted \in Nat /\ \A t \in S : t \in 1..admitted
  BY RowIds DEF Rows
<1>2. left \subseteq Nat /\ left # {}
  BY <1>1
<1>3. \E m \in left : \A n \in left : ~ (<<n, m>> \in OpToRel(<, Nat))
  BY <1>2, NatLessThanWellFounded, WFMin
<1>4. PICK m \in left : \A n \in left : ~ (n < m)
  BY <1>2, <1>3 DEF OpToRel
<1>5. PICK t \in S : m = admitted - t
  OBVIOUS
<1>6. \A u \in S : u <= t
  <2> TAKE u \in S
  <2>1. ~ (admitted - u < admitted - t)
    BY <1>4, <1>5
  <2> QED
    BY <1>1, <1>5, <2>1
<1> QED
  BY <1>6 DEF Newest

LEMMA ClaimDeployStep ==
    ASSUME IInv, NEW c \in Callers, NEW d \in Rows, ClaimDeploy(c, d)
    PROVE  IInv'
<1> DEFINE r == [dep[d] EXCEPT !.state = "deploying"]
           j == [Idle EXCEPT !.pc = "call", !.dep = d, !.try = dep[d].rollbacks]
<1>1. /\ dep[d].state = "approved"
      /\ dep' = [dep EXCEPT ![d] = r] /\ op' = [op EXCEPT ![c] = j]
      /\ UNCHANGED <<env, admitted, hostVars>>
  BY DEF ClaimDeploy, Claimable
<1>2. d \in Ids /\ dep[d] \in Row /\ dep \in [Ids -> Row]
  BY RowIds
<1>3. /\ r \in Row /\ r.state = "deploying" /\ r.env = dep[d].env /\ r.bundle = dep[d].bundle
      /\ r.approver = dep[d].approver /\ r.requester = dep[d].requester
      /\ r.target = dep[d].target
  BY <1>2, StateNames DEF Row
<1>4. j \in Job /\ j.pc = "call" /\ j.dep = d /\ j.verb = "deploy"
  <2>1. d \in 0..MaxDeployments /\ dep[d].rollbacks \in 0..MaxRollbacks
    BY <1>2, ProductionAssumption DEF Row, Ids
  <2> QED
    BY <2>1, IdleJob DEF Idle, Job
<1>5. dep[d].state \notin Reached
  BY <1>1 DEF Reached
<1>6. RowsKept
  BY <1>1, <1>2, <1>3, <1>5, RowWritten DEF IInv, Authority
<1>7. dep'[d].state \in Reached
  BY <1>1, <1>2, <1>3 DEF Reached
<1>8. \A n \in 0..MaxRollbacks : calls[<<d, "deploy", n>>] = 0
  <2> TAKE n \in 0..MaxRollbacks
  <2>1. <<d, "deploy", n>> \in Keys /\ <<d, "deploy", n>>[1] = d
    BY <1>2 DEF Keys, Verbs
  <2>2. calls[<<d, "deploy", n>>] \in Nat
    BY <2>1 DEF IInv, ProductionTypeOK
  <2>3. ~ (calls[<<d, "deploy", n>>] > 0)
    BY <1>5, <2>1 DEF IInv, ClaimedFirst
  <2> QED
    BY <2>2, <2>3
<1>9. \A b \in Callers \ {c} : Deploying(b) => op[b].dep # d
  BY <1>5 DEF IInv, ClaimedFirst, Deploying
<1> QED
  BY <1>1, <1>2, <1>4, <1>6, <1>7, <1>8, <1>9, CallerStep

LEMMA StartRollbackStep ==
    ASSUME IInv, NEW c \in Callers, NEW d \in Rows, StartRollback(c, d)
    PROVE  IInv'
<1> DEFINE t == Newest(Targets(d))
           r == [dep[d] EXCEPT !.state = "rolling_back", !.rollbacks = @ + 1, !.target = t]
           j == [Idle EXCEPT !.pc = "claim", !.verb = "rollback", !.dep = d]
<1>1. /\ "rolling_back" \in ALLOWED_TRANSITIONS[dep[d].state]
      /\ dep[d].rollbacks < env[dep[d].env].policy.rollbacks /\ Targets(d) # {}
      /\ dep' = [dep EXCEPT ![d] = r] /\ op' = [op EXCEPT ![c] = j]
      /\ UNCHANGED <<env, admitted, hostVars>>
  BY DEF StartRollback, RollsBack
<1>2. d \in Ids /\ dep[d] \in Row /\ dep \in [Ids -> Row] /\ MaxDeployments \in Nat
  BY RowIds
<1>3. t \in Ids
  <2>1. Targets(d) \subseteq Rows
    BY DEF Targets
  <2> QED
    BY <1>1, <2>1, NewestIsOne, RowIds
<1>4. dep[d].rollbacks + 1 \in 0..MaxRollbacks
  <2>1. dep[d].env \in Envs
    BY <1>2, RowIds DEF IInv, RowsInOrder
  <2>2. env[dep[d].env].policy.rollbacks \in 0..MaxRollbacks
    BY <2>1 DEF IInv, ProductionTypeOK, Policy
  <2>3. dep[d].rollbacks \in Nat
    BY <1>2, ProductionAssumption DEF Row
  <2> QED
    BY <1>1, <2>2, <2>3, ProductionAssumption
<1>5. r \in Row /\ r.state = "rolling_back" /\ r.env = dep[d].env /\ r.bundle = dep[d].bundle
      /\ r.approver = dep[d].approver /\ r.requester = dep[d].requester /\ r.target = t
  <2>1. "rolling_back" \in States /\ t \in 0..MaxDeployments
    BY <1>2, <1>3, StateNames DEF Ids
  <2> QED
    BY <1>2, <1>4, <2>1 DEF Row
<1>6. j \in Job /\ j.pc = "claim" /\ j.dep = d /\ j.verb = "rollback"
  <2>1. d \in 0..MaxDeployments
    BY <1>2, ProductionAssumption DEF Ids
  <2> QED
    BY <2>1, IdleJob DEF Idle, Job, Verbs
<1>7. dep[d].state \in Reached \cup {"approved"} /\ r.state \in Reached
  <2>1. dep[d].state \in States
    BY <1>2 DEF Row
  <2>2. "rolling_back" \in Reached
    BY DEF Reached
  <2> QED
    BY <1>1, <1>5, <2>1, <2>2, NoWayBack
<1>8. RowsKept
  BY <1>1, <1>2, <1>3, <1>5, <1>7, RowWritten DEF IInv, Authority, Reached
<1>9. dep'[d].state \in Reached /\ dep'[d].target \in Ids
  BY <1>1, <1>2, <1>3, <1>5, <1>7
<1> QED
  BY <1>1, <1>2, <1>6, <1>8, <1>9, CallerStep

LEMMA ClaimRollbackStep ==
    ASSUME IInv, NEW c \in Callers, ClaimRollback(c)
    PROVE  IInv'
<1> DEFINE d == op[c].dep
           go == dep[d].state = "rolling_back" /\ ~env[dep[d].env].stop
           j == IF go THEN [op[c] EXCEPT !.pc = "call", !.try = dep[d].rollbacks] ELSE Idle
<1>1. op[c].pc = "claim" /\ UNCHANGED <<env, dep, admitted, hostVars>>
  BY DEF ClaimRollback, ledgerVars
<1>2. op \in [Callers -> Job] /\ op[c] \in Job /\ d \in Ids /\ dep[d] \in Row
  BY <1>1 DEF IInv, ProductionTypeOK, ClaimedFirst
<1>3. op' = [op EXCEPT ![c] = j]
  BY DEF ClaimRollback
<1>4. CASE go
  <2>1. j = [op[c] EXCEPT !.pc = "call", !.try = dep[d].rollbacks]
    BY <1>4
  <2>2. dep[d].rollbacks \in 0..MaxRollbacks
    BY <1>2 DEF Row
  <2>3. j \in Job /\ j.dep = d /\ j.pc = "call" /\ j.verb = op[c].verb
    BY <1>2, <2>1, <2>2 DEF Job
  <2>4. op[c].verb = "rollback"
    BY <1>1 DEF IInv, ClaimedFirst
  <2> QED
    BY <1>1, <1>2, <1>3, <2>3, <2>4, RowsSame, CallerStep DEF IInv, ClaimedFirst
<1>5. CASE ~go
  <2>1. j = Idle
    BY <1>5
  <2> QED
    BY <1>1, <1>3, <2>1, IdleJob, RowsSame, CallerStep DEF Idle
<1> QED
  BY <1>4, <1>5

LEMMA SettleCallStep ==
    ASSUME IInv, NEW c \in Callers, SettleCall(c)
    PROVE  IInv'
<1> DEFINE d == op[c].dep
           s == OutcomeState(op[c].verb, op[c].answer)
           ref == OutcomeRef(d, op[c].verb, op[c].answer)
           r == [Moved(d, s) EXCEPT !.ref = ref]
<1>1. /\ op[c].pc = "settle" /\ op' = [op EXCEPT ![c] = Idle]
      /\ UNCHANGED <<env, admitted, hostVars>>
      /\ dep' = IF MayMove(d, s) THEN [dep EXCEPT ![d] = r] ELSE dep
  BY DEF SettleCall
<1>2. d \in Ids /\ dep \in [Ids -> Row] /\ dep[d] \in Row
  BY <1>1 DEF IInv, ProductionTypeOK, ClaimedFirst
<1>3. d \in Rows
  <2>1. dep[d].state # "none"
    BY <1>1 DEF IInv, ClaimedFirst, Reached
  <2>2. ~ (d > admitted) /\ d \in Nat /\ d >= 1 /\ admitted \in Nat
    BY <1>2, <2>1, RowIds DEF IInv, RowsInOrder, Ids
  <2> QED
    BY <2>2 DEF Rows
<1>4. s \in States \ {"approved"}
  BY StateNames DEF OutcomeState
<1>5. RowsKept
  <2>1. CASE MayMove(d, s)
    <3>1. /\ Moved(d, s) \in Row
          /\ Moved(d, s) = [dep[d] EXCEPT !.state = s, !.stood = @ \/ s = "healthy"]
      BY <1>3, <1>4, <2>1, MovedRow
    <3>2. ref \in {"none", "version", "other"}
      BY <1>2 DEF OutcomeRef, Row
    <3>3. r \in Row
      BY <3>1, <3>2 DEF Row
    <3>4. /\ r.state = s /\ r.env = dep[d].env /\ r.bundle = dep[d].bundle
          /\ r.approver = dep[d].approver /\ r.requester = dep[d].requester
          /\ r.target = dep[d].target
      BY <1>2, <3>1 DEF Row
    <3> QED
      BY <1>1, <1>3, <1>4, <2>1, <3>3, <3>4, SettledRow
  <2>2. CASE ~MayMove(d, s)
    BY <1>1, <2>2, RowsSame
  <2> QED
    BY <2>1, <2>2
<1> QED
  BY <1>1, <1>5, IdleJob, CallerStep DEF Idle

LEMMA CrashStep ==
    ASSUME IInv, NEW c \in Callers, Crash(c)
    PROVE  IInv'
  BY IdleJob, RowsSame, CallerStep DEF Crash, ledgerVars, Idle

\* What the adapter serves and restores is on record.
LEMMA CallStep ==
    ASSUME IInv, NEW c \in Callers, CallDeploy(c) \/ CallRollback(c)
    PROVE  IInv'
<1> DEFINE d == op[c].dep
<1>1. /\ op[c].pc = "call" /\ UNCHANGED ledgerVars /\ Called(c)
      /\ d \in Ids /\ dep[d].state \in Reached
      /\ served \in [Envs -> Bundles \cup {None}] /\ restored \in [Ids -> SUBSET Ids]
  BY DEF CallDeploy, CallRollback, IInv, ClaimedFirst, ProductionTypeOK, ledgerVars
<1>2. CASE CallDeploy(c)
  <2>1. PICK a \in Answers :
            /\ \/ served' = [served EXCEPT ![dep[d].env] = dep[d].bundle]
               \/ UNCHANGED served
            /\ Answered(c, a)
    BY <1>2 DEF CallDeploy
  <2>2. dep[d].bundle \in Bundles \cup {None}
    BY <1>1 DEF IInv, ProductionTypeOK, Row
  <2>3. served' \in [Envs -> Bundles \cup {None}] /\ restored' = restored
    BY <1>1, <1>2, <2>1, <2>2 DEF CallDeploy
  <2> QED
    BY <1>1, <2>1, <2>3, AdapterStep
<1>3. CASE CallRollback(c)
  <2>1. PICK a \in Answers :
            /\ \/ /\ served' = [served EXCEPT ![dep[d].env] = dep[dep[d].target].bundle]
                  /\ restored' = [restored EXCEPT ![d] = @ \cup {dep[d].target}]
               \/ UNCHANGED <<served, restored>>
            /\ Answered(c, a)
    BY <1>3 DEF CallRollback
  <2>2. dep[d].target \in Ids
    BY <1>1, <1>3 DEF CallRollback, IInv, ClaimedFirst
  <2>3. dep[dep[d].target].bundle \in Bundles \cup {None}
    BY <2>2 DEF IInv, ProductionTypeOK, Row
  <2>4. served' \in [Envs -> Bundles \cup {None}] /\ restored' \in [Ids -> SUBSET Ids]
    BY <1>1, <2>1, <2>2, <2>3
  <2> QED
    BY <1>1, <2>1, <2>4, AdapterStep
<1> QED
  BY <1>2, <1>3

-----------------------------------------------------------------------------
(* The theorems.                                                           *)

LEMMA Step ==
    ASSUME IInv, [NextProduction]_productionVars
    PROVE  IInv'
<1>1. CASE Operator
  <2>1. ASSUME NEW d \in Rows, NEW outcome \in Outcomes, RecordHealth(d, outcome) PROVE IInv'
    <3>1. outcome \in States \ {"approved"}
      BY StateNames DEF Outcomes
    <3> QED
      BY <2>1, <3>1, SettlesStep DEF RecordHealth
  <2>2. ASSUME NEW d \in Rows, Cancel(d) \/ Escalate(d) \/ Reconcile(d) PROVE IInv'
    <3>1. {"cancelled", "escalated"} \cup ALLOWED_TRANSITIONS["uncertain"]
              \subseteq States \ {"approved"}
      BY StateNames DEF ALLOWED_TRANSITIONS
    <3>2. PICK s \in States \ {"approved"} : Settles(d, s)
      BY <2>2, <3>1 DEF Cancel, Escalate, Reconcile
    <3> QED
      BY <3>2, SettlesStep
  <2> QED
    BY <1>1, <2>1, <2>2, EnvironmentSteps, AdmissionStep, ApproveStep, RestartStep
       DEF Operator
<1>2. ASSUME NEW c \in Callers, Caller(c) PROVE IInv'
  BY <1>2, ClaimDeployStep, StartRollbackStep, ClaimRollbackStep, CallStep,
     SettleCallStep, CrashStep DEF Caller
<1>3. CASE UNCHANGED productionVars
  <2>1. env' \in [Envs -> [policy: Policy, open: BOOLEAN, stop: BOOLEAN]]
    BY <1>3 DEF productionVars, IInv, ProductionTypeOK
  <2> QED
    BY <1>3, <2>1, RowsSame, QuietStep DEF productionVars, hostVars
<1> QED
  BY <1>1, <1>2, <1>3 DEF NextProduction

\* IInv holds in every reachable state.
THEOREM ProductionInvariance == SpecProduction => []IInv
  BY Initially, Step, PTL DEF SpecProduction

\* Type correctness of the ledger, the callers and the host.
THEOREM ProductionTyping == SpecProduction => []ProductionTypeOK
<1>1. IInv => ProductionTypeOK
  BY DEF IInv
<1> QED
  BY <1>1, ProductionInvariance, PTL

\* deploy() reaches the adapter at most once for a deployment, for any number of
\* processes, restarts and verbs in between.
THEOREM DeployedAtMostOnce == SpecProduction => []DeployedOnce
<1>1. IInv => DeployedOnce
  BY DEF IInv
<1> QED
  BY <1>1, ProductionInvariance, PTL

LEMMA ReachedIsApproved == IInv => ApprovedBeforeReached
<1> SUFFICES ASSUME IInv, NEW k \in Keys, calls[k] > 0,
                    dep[k[1]].env \in ProductionEnvs
             PROVE  dep[k[1]].approver \notin {None, dep[k[1]].requester}
  BY DEF ApprovedBeforeReached
<1>1. k[1] \in Ids /\ dep[k[1]].state \in Reached
  BY DEF IInv, ClaimedFirst, Keys
<1> QED
  BY <1>1 DEF IInv, Authority

\* Nothing reaches a production environment, forward or backward, that a person
\* other than the requester did not approve.
THEOREM ReachedOnlyApproved == SpecProduction => []ApprovedBeforeReached
  BY ReachedIsApproved, ProductionInvariance, PTL

\* A deployment cancelled, recovered or escalated is never reopened.
THEOREM ClosedIsFinal == SpecProduction => ClosedStays
<1> DEFINE Final == \A d \in Rows : dep[d].state \in Closed => dep'[d].state = dep[d].state
<1>1. ASSUME IInv, [NextProduction]_productionVars, NEW d \in Rows,
             dep[d].state \in Closed
      PROVE  dep'[d].state = dep[d].state
  <2>1. d \in Ids /\ dep \in [Ids -> Row] /\ d <= admitted /\ admitted \in Nat /\ d \in Nat
    BY <1>1, RowIds DEF Rows
  <2>2. /\ ALLOWED_TRANSITIONS[dep[d].state] = {}
        /\ dep[d].state \notin {"awaiting_approval", "approved", "deploying", "verifying"}
    BY <1>1 DEF Closed, ALLOWED_TRANSITIONS
  <2>3. ASSUME NEW e \in Rows, NEW s \in States, NEW r \in Row, MayMove(e, s),
               r.state = s, dep' = [dep EXCEPT ![e] = r]
        PROVE  dep'[d].state = dep[d].state
    <3>1. dep[e].state = dep[d].state /\ e = d => s = dep[d].state
      BY <2>2, <2>3 DEF MayMove
    <3> QED
      BY <2>1, <2>3, <3>1
  <2>4. ASSUME NEW e \in Rows, NEW s \in States,
               Settles(e, s) \/ \E seen \in {"unproven"} : RecordHealthRow(e, s, seen)
        PROVE  dep'[d].state = dep[d].state
    <3>1. MayMove(e, s)
      BY <2>4 DEF Settles, RecordHealthRow
    <3>2. Moved(e, s) \in Row /\ Moved(e, s).state = s
      <4>1. /\ dep[e] \in Row /\ Moved(e, s) \in Row
            /\ Moved(e, s) = [dep[e] EXCEPT !.state = s, !.stood = @ \/ s = "healthy"]
        BY <1>1, <3>1, MovedRow
      <4> QED
        BY <4>1 DEF Row
    <3> DEFINE r == [Moved(e, s) EXCEPT !.seen = "unproven"]
    <3>3. r \in Row /\ r.state = s
      BY <3>2 DEF Row
    <3> QED
      BY <2>3, <2>4, <3>1, <3>2, <3>3 DEF Settles, RecordHealthRow
  <2>5. CASE Operator
    <3>1. ASSUME NEW b \in Bundles, NEW e \in Envs, NEW who \in Actors, NEW n \in 1..MaxAttempt,
                 AdmitRelease(b, e, who, n)
          PROVE  dep'[d].state = dep[d].state
      <4>1. d # admitted + 1
        BY <2>1
      <4> QED
        BY <2>1, <3>1, <4>1 DEF AdmitRelease, Admission
    <3>2. ASSUME NEW e \in Rows, NEW who \in Actors, Approve(e, who, None)
          PROVE  dep'[d].state = dep[d].state
      BY <2>1, <2>2, <3>2 DEF Approve, ApproveRow, Approvable
    <3>3. ASSUME NEW e \in Rows, NEW outcome \in Outcomes, RecordHealth(e, outcome)
          PROVE  dep'[d].state = dep[d].state
      <4>1. outcome \in States
        BY StateNames DEF Outcomes
      <4> QED
        BY <2>4, <3>3, <4>1 DEF RecordHealth
    <3>4. ASSUME NEW e \in Rows, Cancel(e) \/ Escalate(e) \/ Reconcile(e)
          PROVE  dep'[d].state = dep[d].state
      <4>1. {"cancelled", "escalated"} \cup ALLOWED_TRANSITIONS["uncertain"] \subseteq States
        BY StateNames DEF ALLOWED_TRANSITIONS
      <4>2. PICK s \in States : Settles(e, s)
        BY <3>4, <4>1 DEF Cancel, Escalate, Reconcile
      <4> QED
        BY <2>4, <4>2
    <3>5. ASSUME ReconcileOnRestart
          PROVE  dep'[d].state = dep[d].state
      BY <2>1, <2>2, <3>5 DEF ReconcileOnRestart
    <3>6. ASSUME NEW e \in Envs, RegisterEnvironment(e) \/ SetEnvironmentState(e)
          PROVE  dep'[d].state = dep[d].state
      BY <3>6 DEF RegisterEnvironment, SetEnvironmentState
    <3>7. ASSUME NEW engaged \in BOOLEAN, EmergencyStop(engaged)
          PROVE  dep'[d].state = dep[d].state
      BY <3>7 DEF EmergencyStop
    <3> QED
      BY <2>5, <3>1, <3>2, <3>3, <3>4, <3>5, <3>6, <3>7 DEF Operator
  <2>6. ASSUME NEW c \in Callers, Caller(c)
        PROVE  dep'[d].state = dep[d].state
    <3>1. ASSUME NEW e \in Rows, ClaimDeploy(c, e)
          PROVE  dep'[d].state = dep[d].state
      BY <2>1, <2>2, <3>1 DEF ClaimDeploy, Claimable
    <3>2. ASSUME NEW e \in Rows, StartRollback(c, e)
          PROVE  dep'[d].state = dep[d].state
      <4>1. e # d
        BY <2>2, <3>2 DEF StartRollback, RollsBack
      <4> QED
        BY <2>1, <3>2, <4>1 DEF StartRollback
    <3>3. CASE SettleCall(c)
      <4>1. ASSUME op[c].dep = d, dep' # dep PROVE dep'[d].state = dep[d].state
        <5>1. MayMove(d, OutcomeState(op[c].verb, op[c].answer))
          BY <3>3, <4>1 DEF SettleCall
        <5>2. OutcomeState(op[c].verb, op[c].answer) = dep[d].state
          BY <2>2, <5>1 DEF MayMove
        <5>3. dep' = [dep EXCEPT ![d] = [Moved(d, dep[d].state) EXCEPT
                          !.ref = OutcomeRef(d, op[c].verb, op[c].answer)]]
          BY <3>3, <4>1, <5>1, <5>2 DEF SettleCall
        <5>4. Moved(d, dep[d].state) \in Row /\ Moved(d, dep[d].state).state = dep[d].state
          <6> DEFINE s == dep[d].state
          <6>1. dep[d] \in Row /\ s \in States
            BY <2>1 DEF Row
          <6>2. /\ Moved(d, s) \in Row
                /\ Moved(d, s) = [dep[d] EXCEPT !.state = s, !.stood = @ \/ s = "healthy"]
            BY <1>1, <6>1, MovedRow DEF MayMove
          <6> HIDE DEF s
          <6>3. Moved(d, s).state = s
            BY <6>1, <6>2 DEF Row
          <6> QED
            BY <6>2, <6>3 DEF s
        <5> QED
          BY <2>1, <5>3, <5>4 DEF Row
      <4>2. CASE op[c].dep # d
        BY <2>1, <3>3, <4>2 DEF SettleCall
      <4> QED
        BY <4>1, <4>2
    <3>4. CASE ClaimRollback(c) \/ CallDeploy(c) \/ CallRollback(c) \/ Crash(c)
      BY <3>4 DEF ClaimRollback, CallDeploy, CallRollback, Crash, ledgerVars
    <3> QED
      BY <2>6, <3>1, <3>2, <3>3, <3>4 DEF Caller
  <2>7. CASE UNCHANGED productionVars
    BY <2>7 DEF productionVars
  <2> QED
    BY <1>1, <2>5, <2>6, <2>7 DEF NextProduction
<1>2. IInv /\ [NextProduction]_productionVars => [Final]_productionVars
  BY <1>1
<1> QED
  BY <1>2, ProductionInvariance, PTL DEF SpecProduction, ClosedStays

-----------------------------------------------------------------------------
(* What a step may do to the rows.  Either a release is admitted, or every  *)
(* row is followed by one of the same release that forgets no health it     *)
(* stood in and comes no nearer to its deployment.                          *)
Forward == {"awaiting_approval", "approved", "deploying"}

Follows(r, s) ==
    /\ s.env = r.env /\ s.bundle = r.bundle /\ s.requester = r.requester
    /\ r.stood => s.stood
    /\ s.state = "healthy" => s.stood \/ r.state = "healthy"
    /\ s.state \in Forward => r.state \in Forward

\* What a rollback of d may put back.
GoesBack(d, t) ==
    d \in Rows /\ t \in Rows /\ t < d /\ dep[t].env = dep[d].env /\ dep[t].stood

RowStep ==
    \/ \E b \in Bundles, e \in Envs, who \in Actors, n \in 1..MaxAttempt :
           Admission(b, e, who, n)
    \/ /\ admitted' = admitted
       /\ \A d \in Ids :
              /\ Follows(dep[d], dep'[d])
              /\ dep'[d].target = dep[d].target \/ GoesBack(d, dep'[d].target)

LEMMA ForwardFirst ==
    ASSUME NEW s \in States, NEW t \in ALLOWED_TRANSITIONS[s], t \in Forward
    PROVE  s \in Forward
  BY StateNames DEF ALLOWED_TRANSITIONS, Forward

\* A row that _settle wrote, whatever is noted beside its state.
SettledAs(d, s, r) ==
    /\ r.state = s /\ r.env = dep[d].env /\ r.bundle = dep[d].bundle
    /\ r.requester = dep[d].requester /\ r.target = dep[d].target
    /\ dep[d].stood \/ s = "healthy" => r.stood

LEMMA SettledFollows ==
    ASSUME IInv, NEW d \in Rows, NEW s \in States, MayMove(d, s), NEW r, SettledAs(d, s, r)
    PROVE  Follows(dep[d], r) /\ r.target = dep[d].target
<1>1. s \in Forward => dep[d].state \in Forward
  BY MovedRow, ForwardFirst DEF MayMove, Row
<1> QED
  BY <1>1 DEF Follows, SettledAs

LEMMA OneRowFollows ==
    ASSUME IInv, NEW d \in Rows, NEW r, dep' = [dep EXCEPT ![d] = r],
           admitted' = admitted, Follows(dep[d], r),
           r.target = dep[d].target \/ GoesBack(d, r.target)
    PROVE  RowStep
<1>1. \A e \in Ids : dep'[e] = IF e = d THEN r ELSE dep[e]
  BY RowIds
<1> QED
  BY <1>1 DEF RowStep, Follows

LEMMA RowsRest ==
    ASSUME UNCHANGED <<dep, admitted>> PROVE RowStep
  BY DEF RowStep, Follows

\* Every verb of the ledger, and every step of a caller, is such a step.
LEMMA SettleIsRowStep ==
    ASSUME IInv, NEW d \in Rows, NEW s \in States, MayMove(d, s), admitted' = admitted,
           \/ dep' = [dep EXCEPT ![d] = Moved(d, s)]
           \/ \E seen : dep' = [dep EXCEPT ![d] = [Moved(d, s) EXCEPT !.seen = seen]]
           \/ \E ref : dep' = [dep EXCEPT ![d] = [Moved(d, s) EXCEPT !.ref = ref]]
    PROVE  RowStep /\ dep'[d].state = s /\ \A e \in Ids \ {d} : dep'[e] = dep[e]
<1> DEFINE m == Moved(d, s)
<1>1. m \in Row /\ dep[d] \in Row
      /\ m = [dep[d] EXCEPT !.state = s, !.stood = @ \/ s = "healthy"]
  BY MovedRow
<1>2. m = [dep[d] EXCEPT !.state = s, !.stood = m.stood] /\ (dep[d].stood \/ s = "healthy" => m.stood)
  BY <1>1 DEF Row
<1> HIDE DEF m
<1>3. SettledAs(d, s, m)
  BY <1>1, <1>2 DEF Row, SettledAs
<1>4. ASSUME NEW r, dep' = [dep EXCEPT ![d] = r], SettledAs(d, s, r)
      PROVE  RowStep /\ dep'[d].state = s /\ \A e \in Ids \ {d} : dep'[e] = dep[e]
  BY <1>4, SettledFollows, OneRowFollows, RowIds DEF SettledAs
<1>5. CASE dep' = [dep EXCEPT ![d] = m]
  BY <1>3, <1>4, <1>5
<1>6. ASSUME NEW seen, dep' = [dep EXCEPT ![d] = [m EXCEPT !.seen = seen]]
      PROVE  RowStep /\ dep'[d].state = s /\ \A e \in Ids \ {d} : dep'[e] = dep[e]
  <2>1. SettledAs(d, s, [m EXCEPT !.seen = seen])
    BY <1>1, <1>3 DEF Row, SettledAs
  <2> QED
    BY <1>4, <1>6, <2>1
<1>7. ASSUME NEW ref, dep' = [dep EXCEPT ![d] = [m EXCEPT !.ref = ref]]
      PROVE  RowStep /\ dep'[d].state = s /\ \A e \in Ids \ {d} : dep'[e] = dep[e]
  <2>1. SettledAs(d, s, [m EXCEPT !.ref = ref])
    BY <1>1, <1>3 DEF Row, SettledAs
  <2> QED
    BY <1>4, <1>7, <2>1
<1> QED
  BY <1>5, <1>6, <1>7 DEF m

LEMMA ApproveIsRowStep ==
    ASSUME IInv, NEW d \in Rows, NEW who, NEW grant, ApproveRow(d, who, grant),
           admitted' = admitted
    PROVE  RowStep
<1> DEFINE r == [dep[d] EXCEPT !.state = "approved", !.approver = who, !.grant = grant]
<1>1. dep[d] \in Row /\ dep[d].state = "awaiting_approval" /\ dep' = [dep EXCEPT ![d] = r]
  BY RowIds DEF ApproveRow, Approvable
<1>2. Follows(dep[d], r) /\ r.target = dep[d].target
  BY <1>1 DEF Follows, Row, Forward
<1> QED
  BY <1>1, <1>2, OneRowFollows

LEMMA RestartIsRowStep ==
    ASSUME IInv, ReconcileOnRestart
    PROVE  RowStep
<1>1. ASSUME NEW d \in Ids
      PROVE  Follows(dep[d], dep'[d]) /\ dep'[d].target = dep[d].target
  <2>1. dep[d] \in Row
    BY DEF IInv, ProductionTypeOK
  <2>2. \/ dep'[d] = dep[d]
        \/ dep'[d] = [dep[d] EXCEPT !.state = "uncertain"]
    BY DEF ReconcileOnRestart
  <2> QED
    BY <2>1, <2>2 DEF Follows, Row, Forward
<1> QED
  BY <1>1 DEF ReconcileOnRestart, RowStep

LEMMA ClaimIsRowStep ==
    ASSUME IInv, NEW c \in Callers, NEW d \in Rows, ClaimDeploy(c, d)
    PROVE  RowStep
<1> DEFINE r == [dep[d] EXCEPT !.state = "deploying"]
<1>1. /\ dep[d] \in Row /\ dep[d].state = "approved" /\ dep' = [dep EXCEPT ![d] = r]
      /\ admitted' = admitted
  BY RowIds DEF ClaimDeploy, Claimable
<1>2. Follows(dep[d], r) /\ r.target = dep[d].target
  BY <1>1 DEF Follows, Row, Forward
<1> QED
  BY <1>1, <1>2, OneRowFollows

\* A caller settles the answer it has, on a row that was claimed.
LEMMA SettledJob ==
    ASSUME IInv, NEW c \in Callers, op[c].pc # "idle"
    PROVE  op[c].dep \in Rows /\ OutcomeState(op[c].verb, op[c].answer) \in States
<1> DEFINE d == op[c].dep
<1>1. d \in Ids /\ dep[d].state # "none"
  BY DEF IInv, ClaimedFirst, Reached
<1>2. ~ (d > admitted) /\ d \in Nat /\ d >= 1 /\ admitted \in Nat
  BY <1>1, RowIds DEF IInv, RowsInOrder, Ids
<1> QED
  BY <1>2, StateNames DEF Rows, OutcomeState

LEMMA AnswerIsRowStep ==
    ASSUME IInv, NEW c \in Callers, SettleCall(c)
    PROVE  RowStep
<1> DEFINE d == op[c].dep
           s == OutcomeState(op[c].verb, op[c].answer)
           ref == OutcomeRef(d, op[c].verb, op[c].answer)
<1>1. /\ op[c].pc = "settle" /\ admitted' = admitted
      /\ dep' = IF MayMove(d, s) THEN [dep EXCEPT ![d] = [Moved(d, s) EXCEPT !.ref = ref]]
                                 ELSE dep
  BY DEF SettleCall
<1>2. d \in Rows /\ s \in States
  BY <1>1, SettledJob
<1> HIDE DEF s, ref, d
<1>3. CASE MayMove(d, s)
  BY <1>1, <1>2, <1>3, SettleIsRowStep
<1>4. CASE ~MayMove(d, s)
  BY <1>1, <1>4, RowsRest
<1> QED
  BY <1>3, <1>4

\* A release recorded healthy stood healthy; a rollback goes back.
StoodInv ==
    \A d \in Ids : /\ dep[d].state = "healthy" => dep[d].stood
                   /\ \A t \in Ids : t = dep[d].target => GoesBack(d, t)

LEMMA RollbackIsRowStep ==
    ASSUME IInv, StoodInv, NEW c \in Callers, NEW d \in Rows, StartRollback(c, d)
    PROVE  RowStep
<1> DEFINE t == Newest(Targets(d))
           r == [dep[d] EXCEPT !.state = "rolling_back", !.rollbacks = @ + 1, !.target = t]
<1>1. /\ Targets(d) # {} /\ dep' = [dep EXCEPT ![d] = r] /\ admitted' = admitted
  BY DEF StartRollback, RollsBack
<1>2. t \in Targets(d)
  <2>1. Targets(d) \subseteq Rows
    BY DEF Targets
  <2> QED
    BY <1>1, <2>1, NewestIsOne
<1> HIDE DEF t
<1>3. GoesBack(d, t)
  BY <1>2, RowIds DEF Targets, GoesBack, StoodInv
<1>4. dep[d] \in Row
  BY RowIds
<1>5. Follows(dep[d], r) /\ r.target = t
  BY <1>4 DEF Follows, Row, Forward
<1> QED
  BY <1>1, <1>3, <1>5, OneRowFollows

\* What such a step keeps: what stood stays as it was, whatever goes back.
LEMMA RowStepKeeps ==
    ASSUME IInv, StoodInv, RowStep
    PROVE  /\ StoodInv'
           /\ \A d, t \in Ids : GoesBack(d, t) => GoesBack(d, t)'
           /\ \A d \in Rows : d \in Rows' /\ dep'[d].env = dep[d].env
                              /\ dep'[d].bundle = dep[d].bundle
                              /\ dep'[d].requester = dep[d].requester
<1>0. /\ admitted \in Nat /\ MaxDeployments \in Nat /\ dep \in [Ids -> Row]
      /\ \A d \in Rows : d \in Ids /\ d <= admitted /\ d \in Nat
  BY RowIds DEF Rows
<1>1. ASSUME NEW b \in Bundles, NEW e \in Envs, NEW who \in Actors, NEW n \in 1..MaxAttempt,
             Admission(b, e, who, n)
      PROVE  /\ StoodInv'
             /\ \A d, t \in Ids : GoesBack(d, t) => GoesBack(d, t)'
             /\ \A d \in Rows : d \in Rows' /\ dep'[d] = dep[d]
  <2> DEFINE r == [NoRow EXCEPT !.state = IF Gated(e) THEN "awaiting_approval" ELSE "approved",
                                !.env = e, !.bundle = b, !.attempt = n, !.requester = who]
  <2>1. /\ admitted' = admitted + 1 /\ dep' = [dep EXCEPT ![admitted + 1] = r]
        /\ admitted + 1 \in Ids
    BY <1>0, <1>1 DEF Admission, Ids
  <2>2. r.state # "healthy" /\ r.target = 0
    BY DEF NoRow
  <2> HIDE DEF r
  <2>3. \A d \in Ids : dep'[d] = IF d = admitted + 1 THEN r ELSE dep[d]
    BY <1>0, <2>1
  <2>4. \A d \in Rows : d \in Rows' /\ dep'[d] = dep[d]
    <3>1. \A d \in Rows : d # admitted + 1 /\ d \in 1..(admitted + 1)
      BY <1>0 DEF Rows
    <3> QED
      BY <1>0, <2>1, <2>3, <3>1 DEF Rows
  <2>5. \A d, t \in Ids : GoesBack(d, t) => GoesBack(d, t)'
    BY <2>4 DEF GoesBack
  <2>6. StoodInv'
    <3> SUFFICES ASSUME NEW d \in Ids
                 PROVE  /\ dep'[d].state = "healthy" => dep'[d].stood
                        /\ \A t \in Ids : t = dep'[d].target => GoesBack(d, t)'
      BY DEF StoodInv
    <3>1. CASE d = admitted + 1
      BY <1>0, <2>2, <2>3, <3>1 DEF Ids
    <3>2. CASE d # admitted + 1
      <4>1. dep'[d] = dep[d]
        BY <2>3, <3>2
      <4>2. \A t \in Ids : t = dep[d].target => GoesBack(d, t)'
        BY <2>5 DEF StoodInv
      <4> QED
        BY <4>1, <4>2 DEF StoodInv
    <3> QED
      BY <3>1, <3>2
  <2> QED
    BY <2>4, <2>5, <2>6
<1>2. ASSUME admitted' = admitted,
             \A d \in Ids :
                 /\ Follows(dep[d], dep'[d])
                 /\ dep'[d].target = dep[d].target \/ GoesBack(d, dep'[d].target)
      PROVE  /\ StoodInv'
             /\ \A d, t \in Ids : GoesBack(d, t) => GoesBack(d, t)'
             /\ \A d \in Rows : d \in Rows' /\ Follows(dep[d], dep'[d])
  <2>1. Rows' = Rows
    BY <1>2 DEF Rows
  <2>2. \A d, t \in Ids : GoesBack(d, t) => GoesBack(d, t)'
    BY <1>2, <2>1 DEF GoesBack, Follows
  <2>3. StoodInv'
    <3> SUFFICES ASSUME NEW d \in Ids
                 PROVE  /\ dep'[d].state = "healthy" => dep'[d].stood
                        /\ \A t \in Ids : t = dep'[d].target => GoesBack(d, t)'
      BY DEF StoodInv
    <3>1. dep'[d].state = "healthy" => dep'[d].stood
      BY <1>2 DEF Follows, StoodInv
    <3>2. \A t \in Ids : t = dep'[d].target => GoesBack(d, t)'
      BY <1>2, <2>2 DEF StoodInv
    <3> QED
      BY <3>1, <3>2
  <2> QED
    BY <1>0, <1>2, <2>1, <2>2, <2>3
<1> QED
  BY <1>1, <1>2 DEF RowStep, Follows

LEMMA NextIsRowStep ==
    ASSUME IInv, StoodInv, [NextProduction]_productionVars
    PROVE  RowStep
<1>1. CASE Operator
  <2>1. ASSUME NEW d \in Rows, NEW s \in States, Settles(d, s) PROVE RowStep
    BY <2>1, SettleIsRowStep DEF Settles
  <2>2. ASSUME NEW d \in Rows, NEW outcome \in Outcomes, RecordHealth(d, outcome)
        PROVE  RowStep
    <3>1. outcome \in States
      BY StateNames DEF Outcomes
    <3> QED
      BY <2>2, <3>1, SettleIsRowStep DEF RecordHealth, RecordHealthRow
  <2>3. ASSUME NEW d \in Rows, Cancel(d) \/ Escalate(d) \/ Reconcile(d) PROVE RowStep
    <3>1. {"cancelled", "escalated"} \cup ALLOWED_TRANSITIONS["uncertain"] \subseteq States
      BY StateNames DEF ALLOWED_TRANSITIONS
    <3> QED
      BY <2>1, <2>3, <3>1 DEF Cancel, Escalate, Reconcile
  <2>4. ASSUME NEW d \in Rows, NEW who \in Actors, Approve(d, who, None) PROVE RowStep
    BY <2>4, ApproveIsRowStep DEF Approve
  <2>5. CASE \/ \E e \in Envs : RegisterEnvironment(e) \/ SetEnvironmentState(e)
             \/ \E engaged \in BOOLEAN : EmergencyStop(engaged)
    BY <2>5, RowsRest DEF RegisterEnvironment, SetEnvironmentState, EmergencyStop
  <2>6. CASE \E b \in Bundles, e \in Envs, who \in Actors, n \in 1..MaxAttempt :
                 AdmitRelease(b, e, who, n)
    BY <2>6 DEF AdmitRelease, RowStep
  <2> QED
    BY <1>1, <2>2, <2>3, <2>4, <2>5, <2>6, RestartIsRowStep DEF Operator
<1>2. ASSUME NEW c \in Callers, Caller(c) PROVE RowStep
  <2>1. CASE SettleCall(c)
    BY <2>1, AnswerIsRowStep
  <2>2. CASE ClaimRollback(c) \/ CallDeploy(c) \/ CallRollback(c) \/ Crash(c)
    BY <2>2, RowsRest DEF ClaimRollback, CallDeploy, CallRollback, Crash, ledgerVars
  <2> QED
    BY <1>2, <2>1, <2>2, ClaimIsRowStep, RollbackIsRowStep DEF Caller
<1>3. CASE UNCHANGED productionVars
  BY <1>3, RowsRest DEF productionVars
<1> QED
  BY <1>1, <1>2, <1>3 DEF NextProduction

-----------------------------------------------------------------------------
(* What a rollback puts back.                                               *)

\* Restored goes back; and a caller that holds the adapter's word for a rollback
\* restored something, whatever the row became meanwhile.
RestoredInv ==
    /\ \A d \in Ids : \A t \in restored[d] : GoesBack(d, t)
    /\ \A c \in Callers :
           op[c].pc = "settle" /\ op[c].verb = "rollback" /\ op[c].answer = "reached"
               => restored[op[c].dep] # {}
    /\ \A d \in Ids : dep[d].state = "recovered" => restored[d] # {}

\* A step either leaves the host, the answers held and the recovered rows alone, or
\* is one of the three of a caller that do not.
HostStep ==
    \/ /\ UNCHANGED restored
       /\ \A c \in Callers : op'[c] = op[c] \/ op'[c].pc # "settle"
       /\ \A d \in Ids : dep'[d].state = "recovered" => dep[d].state = "recovered"
    \/ \E c \in Callers : CallDeploy(c) \/ CallRollback(c) \/ SettleCall(c)

LEMMA HostStepKeeps ==
    ASSUME IInv, IInv', StoodInv, RestoredInv, RowStep, HostStep
    PROVE  RestoredInv'
<1>0. /\ op \in [Callers -> Job] /\ restored \in [Ids -> SUBSET Ids]
      /\ dep \in [Ids -> Row]
  BY DEF IInv, ProductionTypeOK
<1>1. \A d, t \in Ids : GoesBack(d, t) => GoesBack(d, t)'
  BY RowStepKeeps
<1>2. CASE /\ UNCHANGED restored
           /\ \A c \in Callers : op'[c] = op[c] \/ op'[c].pc # "settle"
           /\ \A d \in Ids : dep'[d].state = "recovered" => dep[d].state = "recovered"
  BY <1>0, <1>1, <1>2 DEF RestoredInv
<1>3. ASSUME NEW c \in Callers, CallDeploy(c) PROVE RestoredInv'
  <2>1. PICK a \in Answers : Answered(c, a)
    BY <1>3 DEF CallDeploy
  <2>2. UNCHANGED <<dep, restored>> /\ op[c].verb = "deploy"
    BY <1>3 DEF CallDeploy, ledgerVars
  <2>3. \A b \in Callers : op'[b] = op[b] \/ op'[b].verb = "deploy"
    BY <1>0, <2>1, <2>2 DEF Answered, Job
  <2> QED
    BY <1>0, <1>1, <2>2, <2>3 DEF RestoredInv
<1>4. ASSUME NEW c \in Callers, CallRollback(c) PROVE RestoredInv'
  <2> DEFINE d == op[c].dep
             t == dep[d].target
  <2>1. PICK a \in Answers :
            /\ Answered(c, a)
            /\ \/ restored' = [restored EXCEPT ![d] = @ \cup {t}]
               \/ a # "reached" /\ UNCHANGED restored
    BY <1>4 DEF CallRollback
  <2>2. UNCHANGED <<dep, admitted>> /\ op[c].pc = "call" /\ op[c].verb = "rollback"
    BY <1>4 DEF CallRollback, ledgerVars
  <2>3. d \in Ids /\ t \in Ids
    BY <2>2 DEF IInv, ClaimedFirst
  <2>4. GoesBack(d, t)
    BY <2>3 DEF StoodInv
  <2> HIDE DEF d, t
  <2>5. \A e \in Ids : /\ restored[e] \subseteq restored'[e]
                       /\ \A u \in restored'[e] : u \in restored[e] \/ (e = d /\ u = t)
    BY <1>0, <2>1
  <2>6. \A b \in Callers : /\ b # c => op'[b] = op[b]
                           /\ b = c => op'[b].dep = d /\ op'[b].answer = a
    BY <1>0, <2>1 DEF Answered, Job, d
  <2>7. a = "reached" => restored'[d] # {}
    BY <1>0, <2>1, <2>3
  <2>8. \A b \in Callers :
            op'[b].pc = "settle" /\ op'[b].verb = "rollback" /\ op'[b].answer = "reached"
                => restored'[op'[b].dep] # {}
    <3> SUFFICES ASSUME NEW b \in Callers, op'[b].pc = "settle", op'[b].verb = "rollback",
                        op'[b].answer = "reached"
                 PROVE  restored'[op'[b].dep] # {}
      OBVIOUS
    <3>1. CASE b = c
      BY <2>6, <2>7, <3>1
    <3>2. CASE b # c
      <4>1. op'[b] = op[b] /\ restored[op[b].dep] # {}
        BY <2>6, <3>2 DEF RestoredInv
      <4>2. op[b].dep \in Ids
        BY <4>1 DEF IInv, ClaimedFirst
      <4> QED
        BY <2>5, <4>1, <4>2
    <3> QED
      BY <3>1, <3>2
  <2>9. \A e \in Ids : \A u \in restored'[e] : GoesBack(e, u)'
    <3> SUFFICES ASSUME NEW e \in Ids, NEW u \in restored'[e] PROVE GoesBack(e, u)'
      OBVIOUS
    <3>1. u \in Ids /\ GoesBack(e, u)
      BY <1>0, <2>3, <2>4, <2>5 DEF RestoredInv
    <3> QED
      BY <1>1, <3>1
  <2>10. \A e \in Ids : dep'[e].state = "recovered" => restored'[e] # {}
    BY <2>2, <2>5 DEF RestoredInv
  <2> QED
    BY <2>8, <2>9, <2>10 DEF RestoredInv
<1>5. ASSUME NEW c \in Callers, SettleCall(c) PROVE RestoredInv'
  <2> DEFINE d == op[c].dep
             s == OutcomeState(op[c].verb, op[c].answer)
             ref == OutcomeRef(d, op[c].verb, op[c].answer)
  <2>1. /\ op[c].pc = "settle" /\ UNCHANGED <<admitted, restored>>
        /\ op' = [op EXCEPT ![c] = Idle]
        /\ dep' = IF MayMove(d, s) THEN [dep EXCEPT ![d] = [Moved(d, s) EXCEPT !.ref = ref]]
                                   ELSE dep
    BY <1>5 DEF SettleCall, hostVars
  <2>2. d \in Rows /\ s \in States /\ d \in Ids
    BY <2>1, SettledJob, RowIds
  <2>3. s = "recovered" => op[c].verb = "rollback" /\ op[c].answer = "reached"
    BY <1>0 DEF OutcomeState, Job, Answers, Verbs
  <2> HIDE DEF ref, s, d
  <2>4. \A e \in Ids : dep'[e].state = "recovered" =>
            dep[e].state = "recovered" \/ (e = d /\ s = "recovered")
    <3>1. CASE MayMove(d, s)
      <4>1. dep'[d].state = s /\ \A e \in Ids \ {d} : dep'[e] = dep[e]
        BY <2>1, <2>2, <3>1, SettleIsRowStep
      <4> QED
        BY <4>1
    <3>2. CASE ~MayMove(d, s)
      BY <2>1, <3>2
    <3> QED
      BY <3>1, <3>2
  <2>5. \A b \in Callers : op'[b] = op[b] \/ op'[b].pc = "idle"
    BY <1>0, <2>1 DEF Idle
  <2>6. s = "recovered" => restored[d] # {}
    BY <2>1, <2>3 DEF RestoredInv, d
  <2> QED
    BY <1>0, <1>1, <2>1, <2>4, <2>5, <2>6 DEF RestoredInv
<1> QED
  BY <1>2, <1>3, <1>4, <1>5 DEF HostStep

\* Nobody records recovered by hand.
LEMMA SettleIsHostStep ==
    ASSUME IInv, NEW d \in Rows, NEW s \in States \ {"recovered"}, MayMove(d, s),
           UNCHANGED <<admitted, op, restored>>,
           \/ dep' = [dep EXCEPT ![d] = Moved(d, s)]
           \/ \E seen : dep' = [dep EXCEPT ![d] = [Moved(d, s) EXCEPT !.seen = seen]]
    PROVE  HostStep
<1>1. dep'[d].state = s /\ \A e \in Ids \ {d} : dep'[e] = dep[e]
  BY SettleIsRowStep
<1> QED
  BY <1>1 DEF HostStep

LEMMA OneRowHostStep ==
    ASSUME IInv, NEW d \in Rows, NEW r, dep' = [dep EXCEPT ![d] = r],
           r.state # "recovered", UNCHANGED restored,
           \A c \in Callers : op'[c] = op[c] \/ op'[c].pc # "settle"
    PROVE  HostStep
  BY RowIds DEF HostStep

LEMMA CallerHostSteps ==
    ASSUME IInv, NEW c \in Callers,
           \/ \E d \in Rows : ClaimDeploy(c, d) \/ StartRollback(c, d)
           \/ ClaimRollback(c)
           \/ op' = [op EXCEPT ![c] = Idle] /\ UNCHANGED <<dep, restored>>
    PROVE  HostStep
<1>0. op \in [Callers -> Job]
  BY DEF IInv, ProductionTypeOK
<1>1. ASSUME NEW d \in Rows, ClaimDeploy(c, d) \/ StartRollback(c, d)
      PROVE  HostStep
  <2>1. dep[d] \in Row
    BY RowIds
  <2>2. \A b \in Callers : op'[b] = op[b] \/ op'[b].pc # "settle"
    BY <1>0, <1>1 DEF ClaimDeploy, StartRollback, Idle
  <2>3. UNCHANGED restored
    BY <1>1 DEF ClaimDeploy, StartRollback, hostVars
  <2>4. PICK r : dep' = [dep EXCEPT ![d] = r] /\ r.state # "recovered"
    <3>1. CASE ClaimDeploy(c, d)
      <4>1. [dep[d] EXCEPT !.state = "deploying"].state # "recovered"
        BY <2>1 DEF Row
      <4> QED
        BY <3>1, <4>1 DEF ClaimDeploy
    <3>2. CASE StartRollback(c, d)
      <4> DEFINE r == [dep[d] EXCEPT !.state = "rolling_back", !.rollbacks = @ + 1,
                                     !.target = Newest(Targets(d))]
      <4>1. r.state # "recovered"
        BY <2>1 DEF Row
      <4>2. dep' = [dep EXCEPT ![d] = r]
        BY <3>2 DEF StartRollback
      <4> HIDE DEF r
      <4> QED
        BY <4>1, <4>2
    <3> QED
      BY <1>1, <3>1, <3>2
  <2> QED
    BY <2>2, <2>3, <2>4, OneRowHostStep
<1>2. CASE ClaimRollback(c)
  <2>1. \A b \in Callers : op'[b] = op[b] \/ op'[b].pc # "settle"
    <3> DEFINE j == [op[c] EXCEPT !.pc = "call", !.try = dep[op[c].dep].rollbacks]
    <3>1. op' = [op EXCEPT ![c] = Idle] \/ op' = [op EXCEPT ![c] = j]
      BY <1>2 DEF ClaimRollback
    <3>2. j.pc = "call" /\ Idle.pc = "idle"
      BY <1>0 DEF Idle, Job
    <3> HIDE DEF j
    <3> QED
      BY <1>0, <3>1, <3>2
  <2> QED
    BY <1>2, <2>1 DEF ClaimRollback, ledgerVars, hostVars, HostStep
<1>3. CASE op' = [op EXCEPT ![c] = Idle] /\ UNCHANGED <<dep, restored>>
  BY <1>0, <1>3 DEF HostStep, Idle
<1> QED
  BY <1>1, <1>2, <1>3

LEMMA AdmissionIsHostStep ==
    ASSUME IInv, NEW b \in Bundles, NEW e \in Envs, NEW who \in Actors,
           NEW n \in 1..MaxAttempt, Admission(b, e, who, n), UNCHANGED <<op, restored>>
    PROVE  HostStep
<1> DEFINE r == [NoRow EXCEPT !.state = IF Gated(e) THEN "awaiting_approval" ELSE "approved",
                              !.env = e, !.bundle = b, !.attempt = n, !.requester = who]
<1>1. dep' = [dep EXCEPT ![admitted + 1] = r] /\ r.state # "recovered"
  BY DEF Admission, NoRow
<1> HIDE DEF r
<1>2. \A d \in Ids : dep'[d] = dep[d] \/ dep'[d] = r
  BY <1>1, RowIds
<1> QED
  BY <1>1, <1>2 DEF HostStep

LEMMA RestartIsHostStep ==
    ASSUME IInv, ReconcileOnRestart
    PROVE  HostStep
<1>1. ASSUME NEW d \in Ids PROVE dep'[d].state = "recovered" => dep[d].state = "recovered"
  <2>1. dep[d] \in Row
    BY DEF IInv, ProductionTypeOK
  <2>2. \/ dep'[d] = dep[d]
        \/ dep'[d] = [dep[d] EXCEPT !.state = "uncertain"]
    BY DEF ReconcileOnRestart
  <2> QED
    BY <2>1, <2>2 DEF Row
<1> QED
  BY <1>1 DEF ReconcileOnRestart, HostStep, hostVars

LEMMA ApproveIsHostStep ==
    ASSUME IInv, NEW d \in Rows, NEW who, NEW grant, ApproveRow(d, who, grant),
           UNCHANGED <<op, restored>>
    PROVE  HostStep
<1> DEFINE r == [dep[d] EXCEPT !.state = "approved", !.approver = who, !.grant = grant]
<1>1. dep[d] \in Row /\ dep' = [dep EXCEPT ![d] = r]
  BY RowIds DEF ApproveRow
<1>2. r.state # "recovered"
  BY <1>1 DEF Row
<1> HIDE DEF r
<1> QED
  BY <1>1, <1>2, OneRowHostStep

LEMMA NextIsHostStep ==
    ASSUME IInv, [NextProduction]_productionVars
    PROVE  HostStep
<1>1. CASE Operator
  <2>1. ASSUME NEW d \in Rows, NEW s \in States \ {"recovered"}, Settles(d, s) PROVE HostStep
    BY <2>1, SettleIsHostStep DEF Settles, hostVars
  <2>2. ASSUME NEW d \in Rows, NEW outcome \in Outcomes, RecordHealth(d, outcome)
        PROVE  HostStep
    <3>1. outcome \in States \ {"recovered"}
      BY StateNames DEF Outcomes
    <3> QED
      BY <2>2, <3>1, SettleIsHostStep DEF RecordHealth, RecordHealthRow, hostVars
  <2>3. ASSUME NEW d \in Rows, Cancel(d) \/ Escalate(d) \/ Reconcile(d) PROVE HostStep
    <3>1. {"cancelled", "escalated"} \cup ALLOWED_TRANSITIONS["uncertain"]
              \subseteq States \ {"recovered"}
      BY StateNames DEF ALLOWED_TRANSITIONS
    <3> QED
      BY <2>1, <2>3, <3>1 DEF Cancel, Escalate, Reconcile
  <2>4. ASSUME NEW d \in Rows, NEW who \in Actors, Approve(d, who, None) PROVE HostStep
    BY <2>4, ApproveIsHostStep DEF Approve, hostVars
  <2>5. CASE \/ \E e \in Envs : RegisterEnvironment(e) \/ SetEnvironmentState(e)
             \/ \E engaged \in BOOLEAN : EmergencyStop(engaged)
    BY <2>5 DEF RegisterEnvironment, SetEnvironmentState, EmergencyStop, HostStep, hostVars
  <2>6. CASE \E b \in Bundles, e \in Envs, who \in Actors, n \in 1..MaxAttempt :
                 AdmitRelease(b, e, who, n)
    BY <2>6, AdmissionIsHostStep DEF AdmitRelease, hostVars
  <2> QED
    BY <1>1, <2>2, <2>3, <2>4, <2>5, <2>6, RestartIsHostStep DEF Operator
<1>2. ASSUME NEW c \in Callers, Caller(c) PROVE HostStep
  <2>1. CASE CallDeploy(c) \/ CallRollback(c) \/ SettleCall(c)
    BY <2>1 DEF HostStep
  <2>2. CASE Crash(c)
    BY <2>2, CallerHostSteps DEF Crash, ledgerVars, hostVars
  <2> QED
    BY <1>2, <2>1, <2>2, CallerHostSteps DEF Caller
<1>3. CASE UNCHANGED productionVars
  BY <1>3 DEF productionVars, HostStep
<1> QED
  BY <1>1, <1>2, <1>3 DEF NextProduction

LEMMA NothingRestored == InitProduction => StoodInv /\ RestoredInv
  BY ProductionAssumption
     DEF InitProduction, NoRow, Idle, StoodInv, RestoredInv, Ids

LEMMA RestoredIsInvariant == SpecProduction => [](IInv /\ StoodInv /\ RestoredInv)
<1>1. IInv /\ IInv' /\ StoodInv /\ RestoredInv /\ [NextProduction]_productionVars
          => StoodInv' /\ RestoredInv'
  <2> SUFFICES ASSUME IInv, IInv', StoodInv, RestoredInv, [NextProduction]_productionVars
               PROVE  StoodInv' /\ RestoredInv'
    OBVIOUS
  <2>1. RowStep /\ HostStep
    BY NextIsRowStep, NextIsHostStep
  <2> QED
    BY <2>1, RowStepKeeps, HostStepKeeps
<1> QED
  BY <1>1, NothingRestored, ProductionInvariance, PTL DEF SpecProduction

\* A rollback puts back only what was admitted before the release it withdraws, in
\* the same environment, and stood healthy there, however late the adapter is
\* called and whatever was recorded since the target was chosen.
THEOREM RollbackOnlyGoesBack == SpecProduction => []RollbackGoesBack
<1>1. StoodInv /\ RestoredInv => RollbackGoesBack
  BY DEF RestoredInv, GoesBack, RollbackGoesBack
<1> QED
  BY <1>1, RestoredIsInvariant, PTL

\* A deployment is recorded recovered only once the adapter restored something for
\* it: no operator and no reconciliation writes the state, and an answer does only
\* if it is one that a restored environment gave.
THEOREM RecoveredMeansRestored == SpecProduction => []RecoveredWasRestored
<1>1. IInv /\ RestoredInv => RecoveredWasRestored
  BY RowIds DEF RestoredInv, RecoveredWasRestored
<1> QED
  BY <1>1, RestoredIsInvariant, PTL

-----------------------------------------------------------------------------
(* What is on its way into an environment.                                  *)

\* Registering an environment again changes neither its ceiling, as long as every
\* policy the Owner may register for it has the same.
SteadyConcurrency ==
    \A e \in Envs : \A p, q \in Policies[e] : p.concurrency = q.concurrency

ForwardInv ==
    \A e \in Envs :
        /\ env[e].policy \in Policies[e]
        /\ IsFiniteSet(OnTheirWay(e))
        /\ Cardinality(OnTheirWay(e)) <= env[e].policy.concurrency

PolicyStep ==
    \A e \in Envs : env'[e].policy \in Policies[e] \cup {env[e].policy}

LEMMA ForwardRows ==
    ASSUME IInv, NEW e \in Envs
    PROVE  /\ OnTheirWay(e) = {d \in Rows : dep[d].env = e /\ dep[d].state \in Forward}
           /\ IsFiniteSet(InFlight(e)) /\ OnTheirWay(e) \subseteq InFlight(e)
<1>1. admitted \in Nat
  BY RowIds
<1>2. IsFiniteSet(Rows)
  BY <1>1, FS_Interval DEF Rows
<1>3. InFlight(e) \subseteq Rows
  BY DEF InFlight
<1>4. IsFiniteSet(InFlight(e))
  BY <1>2, <1>3, FS_Subset
<1> QED
  BY <1>4 DEF OnTheirWay, InFlight, Forward, IN_FLIGHT

\* Once in, nothing comes nearer; who comes in finds room.
LEMMA ForwardKept ==
    ASSUME SteadyConcurrency, IInv, IInv', ForwardInv, RowStep, PolicyStep
    PROVE  ForwardInv'
<1> SUFFICES ASSUME NEW e \in Envs
             PROVE  /\ env'[e].policy \in Policies[e]
                    /\ IsFiniteSet(OnTheirWay(e)')
                    /\ Cardinality(OnTheirWay(e)') <= env'[e].policy.concurrency
  BY DEF ForwardInv
<1> DEFINE W == OnTheirWay(e)
           k == env[e].policy.concurrency
<1>1. /\ IsFiniteSet(W) /\ Cardinality(W) <= k /\ env[e].policy \in Policies[e]
      /\ env'[e].policy \in Policies[e] /\ env'[e].policy.concurrency = k
  BY DEF ForwardInv, PolicyStep, SteadyConcurrency
<1>2. k \in Nat /\ Cardinality(W) \in Nat
  <2>1. env[e].policy \in Policy
    BY DEF IInv, ProductionTypeOK
  <2> QED
    BY <1>1, <2>1, FS_CardinalityType DEF Policy
<1>w. W = {d \in Rows : dep[d].env = e /\ dep[d].state \in Forward}
  BY ForwardRows
<1>v. OnTheirWay(e)' = {d \in Rows' : dep'[d].env = e /\ dep'[d].state \in Forward}
  BY DEF OnTheirWay, Forward
<1>r. admitted \in Nat /\ \A d \in Rows : d \in Ids /\ d \in Nat /\ d <= admitted
  BY RowIds DEF Rows
<1> HIDE DEF W, k
<1>3. ASSUME OnTheirWay(e)' \subseteq W
      PROVE  IsFiniteSet(OnTheirWay(e)') /\ Cardinality(OnTheirWay(e)') <= k
  <2>1. IsFiniteSet(OnTheirWay(e)') /\ Cardinality(OnTheirWay(e)') <= Cardinality(W)
    BY <1>1, <1>3, FS_Subset
  <2>2. Cardinality(OnTheirWay(e)') \in Nat
    BY <2>1, FS_CardinalityType
  <2> QED
    BY <1>1, <1>2, <2>1, <2>2
<1>4. CASE admitted' = admitted /\ \A d \in Ids : Follows(dep[d], dep'[d])
  <2>1. Rows' = Rows
    BY <1>4 DEF Rows
  <2>2. OnTheirWay(e)' \subseteq W
    BY <1>4, <1>r, <1>v, <1>w, <2>1 DEF Follows
  <2> QED
    BY <1>1, <1>3, <2>2
<1>5. ASSUME NEW b \in Bundles, NEW x \in Envs, NEW who \in Actors, NEW n \in 1..MaxAttempt,
             Admission(b, x, who, n)
      PROVE  IsFiniteSet(OnTheirWay(e)') /\ Cardinality(OnTheirWay(e)') <= k
  <2> DEFINE r == [NoRow EXCEPT !.state = IF Gated(x) THEN "awaiting_approval" ELSE "approved",
                                !.env = x, !.bundle = b, !.attempt = n, !.requester = who]
  <2>1. dep' = [dep EXCEPT ![admitted + 1] = r] /\ admitted' = admitted + 1 /\ r.env = x
        /\ admitted < MaxDeployments
    BY <1>5 DEF Admission, NoRow
  <2> HIDE DEF r
  <2>2. \A d \in Ids : dep'[d] = IF d = admitted + 1 THEN r ELSE dep[d]
    BY <1>r, <2>1, RowIds
  <2>3. admitted + 1 \in Ids /\ Rows' = Rows \cup {admitted + 1}
    <3>1. MaxDeployments \in Nat
      BY RowIds
    <3>2. 1..(admitted + 1) = (1..admitted) \cup {admitted + 1}
      BY <1>r
    <3> QED
      BY <1>r, <2>1, <3>1, <3>2 DEF Ids, Rows
  <2>4. \A d \in Rows : d # admitted + 1 /\ dep'[d] = dep[d]
    BY <1>r, <2>2
  <2>5. CASE x # e
    <3>1. OnTheirWay(e)' \subseteq W
      BY <1>v, <1>w, <2>1, <2>2, <2>3, <2>4, <2>5
    <3> QED
      BY <1>3, <3>1
  <2>6. CASE x = e
    <3>1. OnTheirWay(e)' \subseteq W \cup {admitted + 1}
      BY <1>v, <1>w, <2>3, <2>4
    <3>2. Cardinality(InFlight(e)) < k
      BY <1>5, <2>6 DEF Admission, AdmissionOpen, k
    <3>3. IsFiniteSet(InFlight(e)) /\ Cardinality(W) <= Cardinality(InFlight(e))
          /\ Cardinality(InFlight(e)) \in Nat
      BY ForwardRows, FS_Subset, FS_CardinalityType DEF W
    <3>4. /\ IsFiniteSet(W \cup {admitted + 1})
          /\ \/ Cardinality(W \cup {admitted + 1}) = Cardinality(W)
             \/ Cardinality(W \cup {admitted + 1}) = Cardinality(W) + 1
      BY <1>1, FS_AddElement
    <3>5. /\ IsFiniteSet(OnTheirWay(e)')
          /\ Cardinality(OnTheirWay(e)') <= Cardinality(W \cup {admitted + 1})
      BY <3>1, <3>4, FS_Subset
    <3>6. Cardinality(OnTheirWay(e)') \in Nat
      BY <3>5, FS_CardinalityType
    <3> QED
      BY <1>2, <3>2, <3>3, <3>4, <3>5, <3>6
  <2> QED
    BY <2>5, <2>6
<1> QED
  BY <1>1, <1>4, <1>5 DEF RowStep

LEMMA PolicySteps ==
    ASSUME IInv, [NextProduction]_productionVars
    PROVE  PolicyStep
<1>0. env \in [Envs -> [policy: Policy, open: BOOLEAN, stop: BOOLEAN]]
  BY DEF IInv, ProductionTypeOK
<1>1. ASSUME NEW e \in Envs, RegisterEnvironment(e) PROVE PolicyStep
  BY <1>0, <1>1 DEF RegisterEnvironment, PolicyStep
<1>2. ASSUME NEW e \in Envs, SetEnvironmentState(e) PROVE PolicyStep
  BY <1>0, <1>2 DEF SetEnvironmentState, PolicyStep
<1>3. ASSUME NEW engaged \in BOOLEAN, EmergencyStop(engaged) PROVE PolicyStep
  BY <1>0, <1>3 DEF EmergencyStop, PolicyStep
<1>4. CASE env' = env
  BY <1>4 DEF PolicyStep
<1> QED
  BY <1>1, <1>2, <1>3, <1>4
     DEF NextProduction, Operator, Caller, productionVars, AdmitRelease, Approve,
         RecordHealth, Cancel, Escalate, Reconcile, Settles, ReconcileOnRestart,
         ClaimDeploy, StartRollback, ClaimRollback, CallDeploy, CallRollback, SettleCall,
         Crash, ledgerVars

LEMMA NothingOnItsWay == InitProduction => ForwardInv
<1> SUFFICES ASSUME InitProduction, NEW e \in Envs
             PROVE  /\ env[e].policy \in Policies[e]
                    /\ IsFiniteSet(OnTheirWay(e))
                    /\ Cardinality(OnTheirWay(e)) <= env[e].policy.concurrency
  BY DEF ForwardInv
<1>1. env[e].policy \in Policies[e] /\ env[e].policy \in Policy
  BY ProductionAssumption DEF InitProduction
<1>2. OnTheirWay(e) = {}
  BY DEF InitProduction, OnTheirWay, Rows
<1>3. IsFiniteSet(OnTheirWay(e)) /\ Cardinality(OnTheirWay(e)) = 0
  BY <1>2, FS_EmptySet
<1> QED
  BY <1>1, <1>3 DEF Policy

\* As long as registering an environment again keeps its ceiling, no more releases
\* than the ceiling are on their way into it: nothing that left, failed or was
\* reconciled comes back without being admitted again.
THEOREM ForwardIsBounded ==
    ASSUME SteadyConcurrency
    PROVE  SpecProduction => []ForwardBounded
<1>1. InitProduction => ForwardInv
  BY NothingOnItsWay
<1>2. IInv /\ IInv' /\ StoodInv /\ ForwardInv /\ [NextProduction]_productionVars => ForwardInv'
  BY NextIsRowStep, PolicySteps, ForwardKept
<1>3. ForwardInv => ForwardBounded
  BY DEF ForwardInv, ForwardBounded
<1> QED
  BY <1>1, <1>2, <1>3, RestoredIsInvariant, ProductionInvariance, PTL DEF SpecProduction

-----------------------------------------------------------------------------
(* The release path.  Its steps do to the ledger what the verbs of the      *)
(* boundary do, and three things more: an approval that names a validation, *)
(* a health that a probe proved, and a process that dies.  So what holds of *)
(* the ledger under its own verbs holds under the release path.             *)

ReleaseMove ==
    \/ [NextProduction]_productionVars
    \/ /\ \E d \in Rows, who \in Actors, v \in Grants : ApproveRow(d, who, v)
       /\ UNCHANGED <<env, admitted, op, hostVars>>
    \/ /\ \E d \in Rows, outcome \in Outcomes, seen \in {"unproven", "proven"} :
              RecordHealthRow(d, outcome, seen)
       /\ UNCHANGED <<env, admitted, op, hostVars>>
    \/ /\ \E c \in Callers : op' = [op EXCEPT ![c] = Idle]
       /\ UNCHANGED <<ledgerVars, hostVars>>

LEMMA ReleaseMoveKeeps ==
    ASSUME IInv, StoodInv, ReleaseMove
    PROVE  IInv' /\ RowStep
<1>1. CASE [NextProduction]_productionVars
  BY <1>1, Step, NextIsRowStep
<1>2. ASSUME NEW d \in Rows, NEW who \in Actors, NEW v \in Grants, ApproveRow(d, who, v),
             UNCHANGED <<env, admitted, op, hostVars>>
      PROVE  IInv' /\ RowStep
  <2>1. Approve(d, who, v)
    BY <1>2 DEF Approve
  <2> QED
    BY <1>2, <2>1, ApproveStep, ApproveIsRowStep
<1>3. ASSUME NEW d \in Rows, NEW outcome \in Outcomes, NEW seen \in {"unproven", "proven"},
             RecordHealthRow(d, outcome, seen), UNCHANGED <<env, admitted, op, hostVars>>
      PROVE  IInv' /\ RowStep
  <2>1. outcome \in States \ {"approved"}
    BY StateNames DEF Outcomes
  <2>2. IInv'
    BY <1>3, <2>1, SettlesStep
  <2>3. RowStep
    BY <1>3, <2>1, SettleIsRowStep DEF RecordHealthRow
  <2> QED
    BY <2>2, <2>3
<1>4. ASSUME NEW c \in Callers, op' = [op EXCEPT ![c] = Idle], UNCHANGED <<ledgerVars, hostVars>>
      PROVE  IInv' /\ RowStep
  BY <1>4, IdleJob, RowsSame, CallerStep, RowsRest DEF ledgerVars, Idle
<1> QED
  BY <1>1, <1>2, <1>3, <1>4 DEF ReleaseMove

\* What a row may come to say of a probe and of a validation, when no probe and no
\* promotion writes it.
Noted(r, s) ==
    /\ s.seen = "proven" => r.seen = "proven"
    /\ s.grant # None => s.grant = r.grant /\ s.approver = r.approver

Notes ==
    \A d \in Rows' :
        /\ dep'[d].seen = "proven" => d \in Rows /\ dep[d].seen = "proven"
        /\ dep'[d].grant # None => /\ d \in Rows /\ dep'[d].grant = dep[d].grant
                                   /\ dep'[d].approver = dep[d].approver

LEMMA RowNoted ==
    ASSUME IInv, NEW d \in Rows, NEW r, dep' = [dep EXCEPT ![d] = r], admitted' = admitted,
           Noted(dep[d], r)
    PROVE  Notes
<1>1. Rows' = Rows /\ \A e \in Rows : e \in Ids
  BY RowIds DEF Rows
<1>2. \A e \in Rows : dep'[e] = IF e = d THEN r ELSE dep[e]
  BY <1>1, RowIds
<1> QED
  BY <1>1, <1>2 DEF Notes, Noted

LEMMA SettledNoted ==
    ASSUME IInv, NEW d \in Rows, NEW s \in States, MayMove(d, s), admitted' = admitted,
           \/ dep' = [dep EXCEPT ![d] = Moved(d, s)]
           \/ dep' = [dep EXCEPT ![d] = [Moved(d, s) EXCEPT !.seen = "unproven"]]
           \/ \E ref : dep' = [dep EXCEPT ![d] = [Moved(d, s) EXCEPT !.ref = ref]]
    PROVE  Notes
<1> DEFINE m == Moved(d, s)
<1>1. m \in Row /\ dep[d] \in Row
      /\ m = [dep[d] EXCEPT !.state = s, !.stood = @ \/ s = "healthy"]
  BY MovedRow
<1>2. m.seen = dep[d].seen /\ m.grant = dep[d].grant /\ m.approver = dep[d].approver
  BY <1>1 DEF Row
<1> HIDE DEF m
<1>3. CASE dep' = [dep EXCEPT ![d] = m]
  BY <1>2, <1>3, RowNoted DEF Noted
<1>4. CASE dep' = [dep EXCEPT ![d] = [m EXCEPT !.seen = "unproven"]]
  <2>1. Noted(dep[d], [m EXCEPT !.seen = "unproven"])
    BY <1>1, <1>2 DEF Row, Noted
  <2> QED
    BY <1>4, <2>1, RowNoted
<1>5. ASSUME NEW ref, dep' = [dep EXCEPT ![d] = [m EXCEPT !.ref = ref]]
      PROVE  Notes
  <2>1. Noted(dep[d], [m EXCEPT !.ref = ref])
    BY <1>1, <1>2 DEF Row, Noted
  <2> QED
    BY <1>5, <2>1, RowNoted
<1> QED
  BY <1>3, <1>4, <1>5 DEF m

LEMMA RowsNotTouched ==
    ASSUME UNCHANGED <<dep, admitted>> PROVE Notes
  BY DEF Notes, Rows

LEMMA NextNotes ==
    ASSUME IInv, [NextProduction]_productionVars
    PROVE  Notes
<1>1. CASE Operator
  <2>1. ASSUME NEW d \in Rows, NEW s \in States, Settles(d, s) PROVE Notes
    BY <2>1, SettledNoted DEF Settles
  <2>2. ASSUME NEW d \in Rows, NEW outcome \in Outcomes, RecordHealth(d, outcome)
        PROVE  Notes
    <3>1. outcome \in States
      BY StateNames DEF Outcomes
    <3> QED
      BY <2>2, <3>1, SettledNoted DEF RecordHealth, RecordHealthRow
  <2>3. ASSUME NEW d \in Rows, Cancel(d) \/ Escalate(d) \/ Reconcile(d) PROVE Notes
    <3>1. {"cancelled", "escalated"} \cup ALLOWED_TRANSITIONS["uncertain"] \subseteq States
      BY StateNames DEF ALLOWED_TRANSITIONS
    <3> QED
      BY <2>1, <2>3, <3>1 DEF Cancel, Escalate, Reconcile
  <2>4. ASSUME NEW d \in Rows, NEW who \in Actors, Approve(d, who, None) PROVE Notes
    <3> DEFINE r == [dep[d] EXCEPT !.state = "approved", !.approver = who, !.grant = None]
    <3>1. dep[d] \in Row /\ dep' = [dep EXCEPT ![d] = r] /\ admitted' = admitted
      BY <2>4, RowIds DEF Approve, ApproveRow
    <3>2. Noted(dep[d], r)
      BY <3>1 DEF Noted, Row
    <3> QED
      BY <3>1, <3>2, RowNoted
  <2>5. CASE \/ \E e \in Envs : RegisterEnvironment(e) \/ SetEnvironmentState(e)
             \/ \E engaged \in BOOLEAN : EmergencyStop(engaged)
    BY <2>5, RowsNotTouched DEF RegisterEnvironment, SetEnvironmentState, EmergencyStop
  <2>6. ASSUME NEW b \in Bundles, NEW e \in Envs, NEW who \in Actors, NEW n \in 1..MaxAttempt,
               AdmitRelease(b, e, who, n)
        PROVE  Notes
    <3> DEFINE r == [NoRow EXCEPT !.state = IF Gated(e) THEN "awaiting_approval" ELSE "approved",
                                  !.env = e, !.bundle = b, !.attempt = n, !.requester = who]
    <3>1. dep' = [dep EXCEPT ![admitted + 1] = r] /\ admitted' = admitted + 1
          /\ r.seen = "none" /\ r.grant = None /\ admitted < MaxDeployments
      BY <2>6 DEF AdmitRelease, Admission, NoRow
    <3> HIDE DEF r
    <3>2. admitted \in Nat /\ MaxDeployments \in Nat /\ dep \in [Ids -> Row]
      BY RowIds
    <3>3. \A d \in Rows' : d \in Ids /\ (d = admitted + 1 \/ d \in Rows)
      BY <3>1, <3>2 DEF Rows, Ids
    <3>4. \A d \in Rows' : dep'[d] = IF d = admitted + 1 THEN r ELSE dep[d]
      BY <3>1, <3>2, <3>3
    <3> QED
      BY <3>1, <3>3, <3>4 DEF Notes
  <2>7. CASE ReconcileOnRestart
    <3>1. \A d \in Ids : dep[d] \in Row
      BY DEF IInv, ProductionTypeOK
    <3>2. \A d \in Ids : \/ dep'[d] = dep[d]
                         \/ dep'[d] = [dep[d] EXCEPT !.state = "uncertain"]
      BY <2>7 DEF ReconcileOnRestart
    <3>3. \A d \in Ids : dep'[d].seen = dep[d].seen /\ dep'[d].grant = dep[d].grant
                         /\ dep'[d].approver = dep[d].approver
      BY <3>1, <3>2 DEF Row
    <3>4. Rows' = Rows /\ \A d \in Rows : d \in Ids
      BY <2>7, RowIds DEF ReconcileOnRestart, Rows
    <3> QED
      BY <3>3, <3>4 DEF Notes
  <2> QED
    BY <1>1, <2>2, <2>3, <2>4, <2>5, <2>6, <2>7 DEF Operator
<1>2. ASSUME NEW c \in Callers, Caller(c) PROVE Notes
  <2>1. CASE SettleCall(c)
    <3> DEFINE d == op[c].dep
               s == OutcomeState(op[c].verb, op[c].answer)
               ref == OutcomeRef(d, op[c].verb, op[c].answer)
    <3>1. /\ op[c].pc = "settle" /\ admitted' = admitted
          /\ dep' = IF MayMove(d, s) THEN [dep EXCEPT ![d] = [Moved(d, s) EXCEPT !.ref = ref]]
                                     ELSE dep
      BY <2>1 DEF SettleCall
    <3>2. d \in Rows /\ s \in States
      BY <3>1, SettledJob
    <3> HIDE DEF s, ref, d
    <3> QED
      BY <3>1, <3>2, SettledNoted, RowsNotTouched
  <2>2. CASE ClaimRollback(c) \/ CallDeploy(c) \/ CallRollback(c) \/ Crash(c)
    BY <2>2, RowsNotTouched DEF ClaimRollback, CallDeploy, CallRollback, Crash, ledgerVars
  <2>3. ASSUME NEW d \in Rows, ClaimDeploy(c, d) PROVE Notes
    <3>1. dep[d] \in Row /\ dep' = [dep EXCEPT ![d] = [dep[d] EXCEPT !.state = "deploying"]]
          /\ admitted' = admitted
      BY <2>3, RowIds DEF ClaimDeploy
    <3>2. Noted(dep[d], [dep[d] EXCEPT !.state = "deploying"])
      BY <3>1 DEF Noted, Row
    <3> QED
      BY <3>1, <3>2, RowNoted
  <2>4. ASSUME NEW d \in Rows, StartRollback(c, d) PROVE Notes
    <3> DEFINE r == [dep[d] EXCEPT !.state = "rolling_back", !.rollbacks = @ + 1,
                                   !.target = Newest(Targets(d))]
    <3>1. dep[d] \in Row /\ dep' = [dep EXCEPT ![d] = r] /\ admitted' = admitted
      BY <2>4, RowIds DEF StartRollback
    <3>2. Noted(dep[d], r)
      BY <3>1 DEF Noted, Row
    <3> HIDE DEF r
    <3> QED
      BY <3>1, <3>2, RowNoted
  <2> QED
    BY <1>2, <2>1, <2>2, <2>3, <2>4 DEF Caller
<1>3. CASE UNCHANGED productionVars
  BY <1>3, RowsNotTouched DEF productionVars
<1> QED
  BY <1>1, <1>2, <1>3 DEF NextProduction
-----------------------------------------------------------------------------
(* What the release path promises rests on three ties: what a sequence holds is *)
(* a deployment of its candidate, a record names one too, and a health that is  *)
(* called proven was served.                                                    *)

FlowPcs == {"idle", "admit", "check", "approve", "read", "start", "run", "record",
            "probe", "report"}
FlowRow == [pc: FlowPcs, rc: Candidates \cup {None}, env: Envs \cup {None},
            who: Actors \cup {None}, val: Grants \cup {None}, attempt: 0..MaxAttempt,
            dep: 0..MaxDeployments, state: States, seen: {"none", "unproven", "proven"}]
ValRow == [rc: Candidates \cup {None}, env: Envs \cup {None}, by: Actors \cup {None},
           verdict: Verdicts \cup {"none"}]
RecordRow == [dep: 0..MaxDeployments, firm: BOOLEAN]

ReleaseTypeOK ==
    /\ sealed \in [Candidates -> Bundles \cup {None}]
    /\ record \in [Candidates -> [Envs -> RecordRow]]
    /\ val \in [Grants -> ValRow]
    /\ flow \in [Callers -> FlowRow]

\* Deployment d put the bytes candidate r is sealed to into environment e.
Binds(d, r, e) ==
    /\ r \in Candidates /\ sealed[r] # None
    /\ d \in Rows /\ dep[d].env = e /\ dep[d].bundle = sealed[r]

\* Where a sequence may be: it holds a row from its admission on, and knows who
\* asked while it may yet ask (again).
Asks(f) == f.pc = "admit" \/ (f.pc = "read" /\ f.env \in StagingEnvs)
FlowOk(f) ==
    /\ f.pc = "idle" => f.val = None /\ f.dep = 0
    /\ f.pc # "idle" =>
           /\ f.rc \in Candidates /\ sealed[f.rc] # None /\ f.env \in Envs
           /\ f.env \in ProductionEnvs => f.val # None
           /\ f.val # None => Validated(f.rc, f.val)
    /\ Asks(f) => f.who \in Actors /\ f.attempt \in 1..MaxAttempt
    /\ f.pc \notin {"idle", "admit"} => Binds(f.dep, f.rc, f.env)
    /\ f.dep # 0 => f.dep \in Rows
    /\ f.pc \in {"check", "approve"} => f.env \in ProductionEnvs
    /\ f.pc = "report" =>
           /\ f.state \in Outcomes /\ f.seen \in {"unproven", "proven"}
           /\ f.seen = "proven" => <<f.env, sealed[f.rc]>> \in shown

FlowInv == \A c \in Callers : FlowOk(flow[c])

RecordInv ==
    \A r \in Candidates, e \in Envs : record[r][e].dep # 0 => Binds(record[r][e].dep, r, e)

\* Whatever is called proven, and whatever is served now, was served.
ShownInv ==
    /\ \A e \in Envs : served[e] # None => <<e, served[e]>> \in shown
    /\ \A d \in Rows : dep[d].seen = "proven" => <<dep[d].env, dep[d].bundle>> \in shown

ValInv ==
    \A v \in Grants : val[v] # NoVal =>
        /\ val[v].rc \in Candidates /\ sealed[val[v].rc] # None
        /\ <<val[v].env, sealed[val[v].rc]>> \in shown

\* An approval that names a validation is that validation's.
GrantInv ==
    \A d \in Rows : dep[d].grant # None =>
        /\ dep[d].grant \in Grants
        /\ val[dep[d].grant].rc \in Candidates /\ sealed[val[dep[d].grant].rc] # None
        /\ val[dep[d].grant].verdict = "VALIDATED"
        /\ sealed[val[dep[d].grant].rc] = dep[d].bundle
        /\ dep[d].approver = val[dep[d].grant].by
        /\ dep[d].approver # dep[d].requester

ReleaseInv == ReleaseTypeOK /\ FlowInv /\ RecordInv /\ ShownInv /\ ValInv /\ GrantInv

LEMMA FlowFields ==
    ASSUME ReleaseInv, NEW c \in Callers
    PROVE  /\ flow[c] \in FlowRow /\ FlowOk(flow[c]) /\ flow \in [Callers -> FlowRow]
           /\ flow[c].pc # "idle" =>
                  /\ flow[c].rc \in Candidates /\ flow[c].env \in Envs
                  /\ sealed[flow[c].rc] \in Bundles
           /\ flow[c].pc \notin {"idle", "admit"} => flow[c].dep \in Rows
           /\ flow[c].pc # "idle" /\ flow[c].val # None => flow[c].val \in Grants
<1>1. flow[c] \in FlowRow /\ FlowOk(flow[c]) /\ flow \in [Callers -> FlowRow]
  BY DEF ReleaseInv, ReleaseTypeOK, FlowInv
<1>2. sealed \in [Candidates -> Bundles \cup {None}]
  BY DEF ReleaseInv, ReleaseTypeOK
<1> QED
  BY <1>1, <1>2 DEF FlowOk, FlowRow, Binds

\* What a sequence writes of its own: an approval that names its validation, the
\* health its probe saw.
Writes(c) ==
    LET f == flow[c] IN
    \/ f.pc = "approve" /\ ApproveRow(f.dep, val[f.val].by, f.val)
    \/ f.pc = "report" /\ RecordHealthRow(f.dep, f.state, f.seen)

SequenceMove ==
    \/ [NextProduction]_productionVars
    \/ /\ \E c \in Callers : op' = [op EXCEPT ![c] = Idle]
       /\ UNCHANGED <<ledgerVars, hostVars>>
    \/ /\ \E c \in Callers : Writes(c)
       /\ UNCHANGED <<env, admitted, op, hostVars>>

LEMMA NextIsSequenceMove ==
    ASSUME IInv, ReleaseInv, [Next]_vars
    PROVE  SequenceMove
<1>1. ASSUME UNCHANGED productionVars PROVE SequenceMove
  BY <1>1 DEF SequenceMove
<1>2. ASSUME NEW c \in Callers, Caller(c) PROVE SequenceMove
  BY <1>2 DEF SequenceMove, NextProduction
<1>3. CASE Operator
  BY <1>3 DEF SequenceMove, NextProduction
<1>4. ASSUME NEW c \in Callers, Sequence(c) PROVE SequenceMove
  <2> USE FlowFields
  <2>1. CASE \/ \E r \in Candidates, e \in Envs, who \in Actors :
                    \/ BeginReview(c, r, e, who)
                    \/ \E v \in Grants : BeginPromotion(c, r, v, e, who)
             \/ Check(c) \/ Read(c) \/ Record(c) \/ Probe(c)
    BY <2>1, <1>1 DEF BeginReview, BeginPromotion, Check, Read, Record, Probe, Local
  <2>2. CASE Admit(c)
    <3>1. CASE UNCHANGED <<dep, admitted>>
      BY <2>2, <3>1, <1>1 DEF Admit, productionVars, hostVars
    <3>2. CASE ~ UNCHANGED <<dep, admitted>>
      <4>1. /\ flow[c].pc = "admit" /\ UNCHANGED <<env, op, hostVars>>
            /\ Admission(sealed[flow[c].rc], flow[c].env, flow[c].who, flow[c].attempt)
        BY <2>2, <3>2 DEF Admit
      <4>2. flow[c].who \in Actors /\ flow[c].attempt \in 1..MaxAttempt
        BY <4>1 DEF FlowOk, Asks
      <4>3. AdmitRelease(sealed[flow[c].rc], flow[c].env, flow[c].who, flow[c].attempt)
        BY <4>1 DEF AdmitRelease
      <4> QED
        BY <4>1, <4>2, <4>3, <1>3 DEF Operator
    <3> QED
      BY <3>1, <3>2
  <2>3. CASE Authorise(c)
    <3>1. flow[c].pc = "approve" /\ UNCHANGED <<env, admitted, op, hostVars>>
      BY <2>3 DEF Authorise
    <3>2. CASE UNCHANGED dep
      BY <3>1, <3>2, <1>1 DEF productionVars, hostVars
    <3>3. CASE dep' # dep
      <4>1. ApproveRow(flow[c].dep, val[flow[c].val].by, flow[c].val)
        BY <2>3, <3>3 DEF Authorise
      <4> QED
        BY <3>1, <4>1 DEF SequenceMove, Writes
    <3> QED
      BY <3>2, <3>3
  <2>4. CASE Start(c)
    <3>1. flow[c].dep \in Rows
      BY <2>4 DEF Start
    <3>2. ClaimDeploy(c, flow[c].dep) \/ UNCHANGED productionVars
      BY <2>4 DEF Start
    <3> QED
      BY <3>1, <3>2, <1>1, <1>2 DEF Caller
  <2>5. CASE Return(c)
    BY <2>5, <1>2 DEF Return, Caller
  <2>6. CASE Report(c)
    <3>1. flow[c].pc = "report" /\ UNCHANGED <<env, admitted, op, hostVars>>
      BY <2>6 DEF Report
    <3>2. RecordHealthRow(flow[c].dep, flow[c].state, flow[c].seen) \/ UNCHANGED dep
      BY <2>6 DEF Report
    <3> QED
      BY <3>1, <3>2, <1>1 DEF SequenceMove, Writes, productionVars, hostVars
  <2> QED
    BY <1>4, <2>1, <2>2, <2>3, <2>4, <2>5, <2>6 DEF Sequence
<1>5. ASSUME NEW c \in Callers, Call(c) \/ Bare(c) PROVE SequenceMove
  BY <1>2, <1>5 DEF Call, Bare, Caller
<1>6. ASSUME NEW c \in Callers, Die(c) PROVE SequenceMove
  BY <1>6 DEF Die, SequenceMove
<1>7. CASE Ledger
  BY <1>3, <1>7 DEF Ledger, Operator
<1>8. CASE \/ \E r \in Candidates, b \in Bundles : Seal(r, b)
           \/ \E v \in Grants, r \in Candidates, e \in Envs, who \in Actors,
                 verdict \in Verdicts : Validate(v, r, e, who, verdict)
           \/ UNCHANGED vars
  BY <1>1, <1>8 DEF Seal, Validate, vars
<1> QED
  BY <1>4, <1>5, <1>6, <1>7, <1>8 DEF Next

\* A step of the release path moves the ledger as its verbs do.
LEMMA NextIsReleaseMove ==
    ASSUME IInv, ReleaseInv, [Next]_vars
    PROVE  ReleaseMove
<1>1. ASSUME NEW c \in Callers, Writes(c), UNCHANGED <<env, admitted, op, hostVars>>
      PROVE  ReleaseMove
  <2>1. CASE flow[c].pc = "approve" /\ ApproveRow(flow[c].dep, val[flow[c].val].by, flow[c].val)
    <3>1. flow[c].val \in Grants /\ flow[c].dep \in Rows
      BY <2>1, FlowFields DEF FlowOk
    <3>2. dep[flow[c].dep].env \in Envs
      BY <3>1, RowIds DEF IInv, RowsInOrder
    <3>3. env[dep[flow[c].dep].env].policy.approvers \subseteq Actors
      BY <3>2 DEF IInv, ProductionTypeOK, Policy
    <3>4. val[flow[c].val].by \in Actors
      BY <2>1, <3>3 DEF ApproveRow, Approvable
    <3> QED
      BY <1>1, <2>1, <3>1, <3>4 DEF ReleaseMove
  <2>2. CASE flow[c].pc = "report" /\ RecordHealthRow(flow[c].dep, flow[c].state, flow[c].seen)
    <3>1. /\ flow[c].dep \in Rows /\ flow[c].state \in Outcomes
          /\ flow[c].seen \in {"unproven", "proven"}
      BY <2>2, FlowFields DEF FlowOk
    <3> QED
      BY <1>1, <2>2, <3>1 DEF ReleaseMove
  <2> QED
    BY <1>1, <2>1, <2>2 DEF Writes
<1> QED
  BY <1>1, NextIsSequenceMove DEF SequenceMove, ReleaseMove

\* What is sealed, decided and shown stays.
Lasting ==
    /\ \A r \in Candidates : sealed[r] # None => sealed'[r] = sealed[r]
    /\ \A v \in Grants : val[v] # NoVal => val'[v] = val[v]
    /\ shown \subseteq shown'

LEMMA NextLasts ==
    ASSUME ReleaseInv, [Next]_vars
    PROVE  Lasting
<1>1. ASSUME UNCHANGED <<sealed, val, shown>> PROVE Lasting
  BY <1>1 DEF Lasting
<1>2. ASSUME NEW r \in Candidates, NEW b \in Bundles, Seal(r, b) PROVE Lasting
  BY <1>2 DEF Seal, Lasting, ReleaseInv, ReleaseTypeOK
<1>3. ASSUME NEW v \in Grants, NEW r \in Candidates, NEW e \in Envs, NEW who \in Actors,
             NEW verdict \in Verdicts, Validate(v, r, e, who, verdict)
      PROVE  Lasting
  BY <1>3 DEF Validate, Lasting, ReleaseInv, ReleaseTypeOK
<1>4. ASSUME NEW c \in Callers, Sequence(c) PROVE Lasting
  BY <1>1, <1>4 DEF Sequence, BeginReview, BeginPromotion, Admit, Check, Authorise, Read,
                    Start, Return, Record, Probe, Report, Local
<1>5. ASSUME NEW c \in Callers, Call(c) PROVE Lasting
  BY <1>5 DEF Call, Lasting
<1>6. ASSUME NEW c \in Callers, Bare(c) \/ Die(c) PROVE Lasting
  BY <1>1, <1>6 DEF Bare, Die
<1>7. CASE Ledger
  BY <1>1, <1>7 DEF Ledger
<1>8. CASE UNCHANGED vars
  BY <1>1, <1>8 DEF vars, releaseVars
<1> QED
  BY <1>2, <1>3, <1>4, <1>5, <1>6, <1>7, <1>8 DEF Next
LEMMA BindsLasts ==
    ASSUME IInv, StoodInv, RowStep, Lasting
    PROVE  \A d, r, e : Binds(d, r, e) => Binds(d, r, e)'
  BY RowStepKeeps DEF Binds, Lasting

LEMMA FlowLasts ==
    ASSUME IInv, StoodInv, RowStep, ReleaseInv, Lasting
    PROVE  \A f \in FlowRow : FlowOk(f) => FlowOk(f)'
<1> SUFFICES ASSUME NEW f \in FlowRow, FlowOk(f) PROVE FlowOk(f)'
  OBVIOUS
<1>1. ASSUME NEW r \in Candidates, sealed[r] # None PROVE sealed'[r] = sealed[r]
  BY <1>1 DEF Lasting
<1>2. ASSUME NEW v \in Grants, NEW r \in Candidates, Validated(r, v) PROVE Validated(r, v)'
  BY <1>2, ReleaseAssumption DEF Lasting, Validated, NoVal
<1>3. \A d \in Rows : d \in Rows' /\ dep'[d].env = dep[d].env /\ dep'[d].bundle = dep[d].bundle
  BY RowStepKeeps
<1>4. \A d, r, e : Binds(d, r, e) => Binds(d, r, e)'
  BY BindsLasts
<1>5. f.pc # "idle" =>
          /\ f.rc \in Candidates /\ sealed'[f.rc] # None /\ f.env \in Envs
          /\ f.env \in ProductionEnvs => f.val # None
          /\ f.val # None => Validated(f.rc, f.val)'
  BY <1>1, <1>2 DEF FlowOk, FlowRow
<1>6. f.pc = "report" /\ f.seen = "proven" => <<f.env, sealed'[f.rc]>> \in shown'
  BY <1>1 DEF FlowOk, Lasting
<1> QED
  BY <1>3, <1>4, <1>5, <1>6 DEF FlowOk, Asks
\* A sequence moves on to a row of its own.
FlowMoves(c, g) ==
    /\ flow' = [flow EXCEPT ![c] = g]
    /\ g \in FlowRow
    /\ FlowOk(g) \/ FlowOk(g)'

FlowStep == UNCHANGED flow \/ \E c \in Callers, g \in FlowRow : FlowMoves(c, g)

LEMMA FlowStepKeeps ==
    ASSUME IInv, StoodInv, RowStep, ReleaseInv, Lasting, FlowStep
    PROVE  flow' \in [Callers -> FlowRow] /\ FlowInv'
<1>1. ASSUME NEW b \in Callers, flow'[b] = flow[b] PROVE FlowOk(flow[b])'
  <2> PICK f \in FlowRow : f = flow[b]
    BY FlowFields
  <2>1. FlowOk(f)'
    BY FlowFields, FlowLasts
  <2>2. f = flow'[b]
    BY <1>1
  <2> QED
    BY <2>1, <2>2 DEF FlowOk, Asks, Binds, Validated
<1>2. CASE UNCHANGED flow
  BY <1>1, <1>2 DEF ReleaseInv, ReleaseTypeOK, FlowInv
<1>3. ASSUME NEW c \in Callers, NEW g \in FlowRow, FlowMoves(c, g)
      PROVE  flow' \in [Callers -> FlowRow] /\ FlowInv'
  <2>1. flow \in [Callers -> FlowRow]
    BY DEF ReleaseInv, ReleaseTypeOK
  <2>2. /\ flow' \in [Callers -> FlowRow] /\ flow'[c] = g
        /\ \A b \in Callers \ {c} : flow'[b] = flow[b]
    BY <1>3, <2>1 DEF FlowMoves
  <2>3. FlowOk(g)'
    BY <1>3, FlowLasts DEF FlowMoves
  <2>4. FlowOk(flow[c])'
    BY <2>2, <2>3 DEF FlowOk, Asks, Binds, Validated
  <2>5. \A b \in Callers \ {c} : FlowOk(flow[b])'
    BY <1>1, <2>2
  <2> QED
    BY <2>2, <2>4, <2>5 DEF FlowInv
<1> QED
  BY <1>2, <1>3 DEF FlowStep

LEMMA Leaving ==
    ASSUME NEW c \in Callers, Leave(c)
    PROVE  FlowStep
<1>1. NoFlow \in FlowRow
  BY ProductionAssumption, StateNames DEF NoFlow, FlowRow, FlowPcs
<1>2. FlowOk(NoFlow)
  BY DEF NoFlow, FlowOk, Asks
<1> QED
  BY <1>1, <1>2 DEF Leave, FlowMoves, FlowStep
LEMMA FlowBegins ==
    ASSUME NEW n \in FlowRow, NEW r \in Candidates \cup {None}, NEW e \in Envs \cup {None},
           NEW who \in Actors \cup {None}, "admit" \in FlowPcs, 1 \in 0..MaxAttempt
    PROVE  /\ [n EXCEPT !.pc = "admit", !.rc = r, !.env = e, !.who = who, !.attempt = 1] \in FlowRow
           /\ \A v \in Grants \cup {None} :
                 [n EXCEPT !.pc = "admit", !.rc = r, !.env = e, !.who = who, !.val = v,
                           !.attempt = 1] \in FlowRow
  BY DEF FlowRow

LEMMA SequenceIsFlowStep ==
    ASSUME IInv, IInv', ReleaseInv, NEW c \in Callers, Sequence(c)
    PROVE  FlowStep
<1> PICK f \in FlowRow : f = flow[c]
  BY FlowFields
<1>1. /\ FlowOk(f) /\ flow \in [Callers -> FlowRow]
      /\ f.pc # "idle" => /\ f.rc \in Candidates /\ f.env \in Envs
                          /\ sealed[f.rc] \in Bundles
      /\ f.pc \notin {"idle", "admit"} => f.dep \in Rows
      /\ f.pc # "idle" /\ f.val # None => f.val \in Grants
  BY FlowFields
<1>2. None \notin Envs \cup Candidates \cup Actors \cup Grants
      /\ ProductionEnvs \subseteq Envs /\ MaxAttempt \in Nat \ {0}
  BY ProductionAssumption, ReleaseAssumption
<1>3. ASSUME NEW g \in FlowRow, flow' = [flow EXCEPT ![c] = g], FlowOk(g) \/ FlowOk(g)'
      PROVE  FlowStep
  BY <1>3 DEF FlowMoves, FlowStep
<1>4. ASSUME NEW pc \in FlowPcs \ {"idle", "admit", "report"}, Go(c, pc),
             f.pc \notin {"idle", "admit"}, pc \in {"check", "approve"} => f.pc = "check",
             pc = "read" => f.pc \in {"check", "approve"}
      PROVE  FlowStep
  <2> DEFINE g == [f EXCEPT !.pc = pc]
  <2>1. flow' = [flow EXCEPT ![c] = g]
    BY <1>1, <1>4 DEF Go
  <2>2. g \in FlowRow
    BY DEF FlowRow
  <2>3. FlowOk(g)
    BY <1>1, <1>2, <1>4 DEF FlowRow, FlowOk, Asks, StagingEnvs, Binds
  <2> HIDE DEF g
  <2> QED
    BY <1>3, <2>1, <2>2, <2>3
<1>5. ASSUME NEW r \in Candidates, NEW e \in Envs, NEW who \in Actors,
             \/ BeginReview(c, r, e, who)
             \/ \E v \in Grants : BeginPromotion(c, r, v, e, who)
      PROVE  FlowStep
  <2>3. /\ "none" \in States /\ 0 \in 0..MaxDeployments /\ 0 \in 0..MaxAttempt
        /\ 1 \in 0..MaxAttempt /\ 1 \in 1..MaxAttempt /\ {"idle", "admit"} \subseteq FlowPcs
    BY <1>2, ProductionAssumption, StateNames DEF FlowPcs
  <2>4. NoFlow \in FlowRow /\ NoFlow.val = None
    BY <2>3 DEF NoFlow, FlowRow
  <2>5. PICK n \in FlowRow : n = NoFlow
    BY <2>4
  <2>6. n.val = None
    BY <2>4, <2>5
  <2>7. n.dep = 0
    BY <2>5 DEF NoFlow
  <2>1. CASE BeginReview(c, r, e, who)
    <3> DEFINE g == [n EXCEPT !.pc = "admit", !.rc = r, !.env = e, !.who = who, !.attempt = 1]
    <3>1. flow' = [flow EXCEPT ![c] = g] /\ sealed[r] # None /\ e \notin ProductionEnvs
      BY <2>1, <2>5 DEF BeginReview, StagingEnvs
    <3>2. g \in FlowRow
      <4>1. "admit" \in FlowPcs /\ r \in Candidates \cup {None} /\ e \in Envs \cup {None}
            /\ who \in Actors \cup {None} /\ 1 \in 0..MaxAttempt
        BY <2>3
      <4> QED
        BY <4>1, FlowBegins
    <3>3. FlowOk(g)
      BY <1>2, <2>3, <2>6, <2>7, <3>1 DEF FlowRow, FlowOk, Asks
    <3> HIDE DEF g
    <3> QED
      BY <1>3, <3>1, <3>2, <3>3
  <2>2. ASSUME NEW v \in Grants, BeginPromotion(c, r, v, e, who)
        PROVE  FlowStep
    <3> DEFINE g == [n EXCEPT !.pc = "admit", !.rc = r, !.env = e, !.who = who, !.val = v,
                              !.attempt = 1]
    <3>1. flow' = [flow EXCEPT ![c] = g] /\ sealed[r] # None /\ Validated(r, v)
      BY <2>2, <2>5 DEF BeginPromotion
    <3>2. g \in FlowRow
      <4>1. "admit" \in FlowPcs /\ r \in Candidates \cup {None} /\ e \in Envs \cup {None}
            /\ who \in Actors \cup {None} /\ 1 \in 0..MaxAttempt /\ v \in Grants \cup {None}
        BY <2>3
      <4> QED
        BY <4>1, FlowBegins
    <3>3. FlowOk(g)
      BY <1>2, <2>3, <2>6, <2>7, <3>1 DEF FlowRow, FlowOk, Asks
    <3> HIDE DEF g
    <3> QED
      BY <1>3, <3>1, <3>2, <3>3
  <2> QED
    BY <1>5, <2>1, <2>2
<1>6. CASE Check(c)
  <2>1. f.pc = "check"
        /\ (Go(c, "approve") \/ Go(c, "read"))
    BY <1>6 DEF Check
  <2> QED
    BY <2>1, <1>4 DEF FlowPcs
<1>7. CASE Authorise(c)
  <2>1. f.pc = "approve" /\ (Go(c, "read") \/ Leave(c))
    BY <1>7 DEF Authorise
  <2> QED
    BY <2>1, <1>4, Leaving DEF FlowPcs
<1>8. CASE Start(c)
  <2>1. f.pc = "start" /\ (Go(c, "run") \/ Leave(c))
    BY <1>8 DEF Start
  <2> QED
    BY <2>1, <1>4, Leaving DEF FlowPcs
<1>9. CASE Record(c)
  <2>1. f.pc = "record" /\ (Go(c, "probe") \/ Leave(c))
    BY <1>9 DEF Record
  <2> QED
    BY <2>1, <1>4, Leaving DEF FlowPcs
<1>10. CASE Report(c)
  BY <1>10, Leaving DEF Report
<1>11. CASE Return(c)
  <2> DEFINE s == OutcomeState(op[c].verb, op[c].answer)
             g == [f EXCEPT !.pc = "record", !.state = s]
  <2>1. f.pc = "run" /\ s \in States
    BY <1>11, SettledJob DEF Return, SettleCall
  <2>2. flow' = [flow EXCEPT ![c] = g] \/ Leave(c)
    BY <1>11, <1>1 DEF Return, Leave
  <2>3. g \in FlowRow /\ FlowOk(g)
    <3> HIDE DEF s
    <3> QED
      BY <1>1, <1>2, <2>1 DEF FlowRow, FlowPcs, FlowOk, Asks, StagingEnvs, Binds
  <2> HIDE DEF g
  <2> QED
    BY <1>3, <2>2, <2>3, Leaving
<1>12. CASE Probe(c)
  <2>1. PICK outcome \in Outcomes :
            /\ f.pc = "probe"
            /\ flow' = [flow EXCEPT ![c].pc = "report", ![c].state = outcome,
                                    ![c].seen = EntryProof(c)]
    BY <1>12 DEF Probe
  <2> PICK seen \in {"unproven", "proven"} : seen = EntryProof(c)
    BY DEF EntryProof
  <2> DEFINE g == [f EXCEPT !.pc = "report", !.state = outcome, !.seen = seen]
  <2>2. flow' = [flow EXCEPT ![c] = g]
    BY <1>1, <2>1
  <2>6. outcome \in States /\ "report" \in FlowPcs
    BY StateNames DEF Outcomes, FlowPcs
  <2>3. g \in FlowRow
    BY <2>6 DEF FlowRow
  <2>4. seen = "proven" => <<f.env, sealed[f.rc]>> \in shown
    <3>1. Binds(f.dep, f.rc, f.env)
      BY <1>1, <2>1 DEF FlowOk
    <3>2. seen = "proven" => served[f.env] = sealed[f.rc]
      BY <3>1 DEF EntryProof, Binds
    <3> QED
      BY <1>1, <2>1, <3>1, <3>2 DEF ReleaseInv, ShownInv, Binds
  <2>5. FlowOk(g)
    BY <1>1, <2>1, <2>4 DEF FlowRow, FlowOk, Asks, Binds
  <2> HIDE DEF g
  <2> QED
    BY <1>3, <2>2, <2>3, <2>5
<1>13. CASE Read(c)
  <2> DEFINE s == dep[f.dep].state
             again == [f EXCEPT !.pc = "admit", !.attempt = @ + 1]
             pc == IF s = "approved" THEN "start" ELSE "record"
             on == [f EXCEPT !.pc = pc, !.state = s, !.who = None, !.attempt = 0]
  <2>1. f.pc = "read" /\ s \in States
    BY <1>1, <1>13, RowIds DEF Read, Row
  <2>2. \/ Retries(c) /\ flow' = [flow EXCEPT ![c] = again]
        \/ Leave(c)
        \/ flow' = [flow EXCEPT ![c] = on]
    BY <1>1, <1>13 DEF Read, Leave
  <2> HIDE DEF s
  <2>3. CASE Retries(c) /\ flow' = [flow EXCEPT ![c] = again]
    <3>1. f.env \in StagingEnvs /\ f.attempt < MaxAttempt /\ f.attempt \in 1..MaxAttempt
          /\ f.who \in Actors
      BY <1>1, <2>1, <2>3 DEF Retries, FlowOk, Asks
    <3>3. "admit" \in FlowPcs /\ f.attempt + 1 \in 0..MaxAttempt /\ f.attempt + 1 \in 1..MaxAttempt
      BY <1>2, <3>1 DEF FlowPcs
    <3>2. again \in FlowRow /\ FlowOk(again)
      BY <1>1, <2>1, <3>1, <3>3 DEF FlowRow, FlowOk, Asks, Binds
    <3> HIDE DEF again
    <3> QED
      BY <1>3, <2>3, <3>2
  <2>4. CASE flow' = [flow EXCEPT ![c] = on]
    <3>2. pc \in {"start", "record"} /\ pc \in FlowPcs /\ 0 \in 0..MaxAttempt
      BY <1>2 DEF FlowPcs
    <3> HIDE DEF pc
    <3>1. on \in FlowRow /\ FlowOk(on)
      BY <1>1, <2>1, <3>2 DEF FlowRow, FlowOk, Asks, Binds
    <3> HIDE DEF on
    <3> QED
      BY <1>3, <2>4, <3>1
  <2> QED
    BY <2>2, <2>3, <2>4, Leaving
<1>14. CASE Admit(c)
  <2> DEFINE who == IF f.env \in ProductionEnvs THEN None ELSE f.who
             next == IF f.env \in ProductionEnvs THEN "check" ELSE "read"
  <2>1. /\ f.pc = "admit" /\ f.who \in Actors /\ f.attempt \in 1..MaxAttempt
        /\ sealed' = sealed /\ val' = val
    BY <1>1, <1>14 DEF FlowOk, Asks, Admit
  <2>2. /\ next \in {"check", "read"} /\ next \in FlowPcs /\ who \in Actors \cup {None}
        /\ next = "check" => f.env \in ProductionEnvs
        /\ next = "read" => who = f.who
    BY <1>2, <2>1 DEF FlowPcs
  <2>3. ASSUME NEW d \in Rows', flow' = [flow EXCEPT ![c] = [f EXCEPT !.pc = next, !.dep = d, !.who = who]],
               dep'[d].env = f.env, dep'[d].bundle = sealed[f.rc]
        PROVE  FlowStep
    <3> DEFINE g == [f EXCEPT !.pc = next, !.dep = d, !.who = who]
    <3> HIDE DEF who, next
    <3>1. d \in 0..MaxDeployments
      BY RowIds, ProductionAssumption DEF Ids, Rows, IInv, ProductionTypeOK
    <3>2. g \in FlowRow
      BY <2>2, <3>1 DEF FlowRow
    <3>3. FlowOk(g)'
      BY <1>1, <1>2, <2>1, <2>2, <2>3 DEF FlowRow, FlowOk, Asks, StagingEnvs, Binds, Validated
    <3>4. flow' = [flow EXCEPT ![c] = g]
      BY <2>3
    <3> HIDE DEF g
    <3> QED
      BY <1>3, <3>2, <3>3, <3>4
  <2>4. CASE /\ Collides(c) # {} /\ UNCHANGED <<dep, admitted>>
             /\ flow' = [flow EXCEPT ![c] = [f EXCEPT !.pc = next, !.dep = Newest(Collides(c)), !.who = who]]
    <3> PICK d : d = Newest(Collides(c))
      OBVIOUS
    <3>1. d \in Collides(c)
      <4>1. Collides(c) \subseteq Rows
        BY DEF Collides, Existing
      <4> QED
        BY <2>4, <4>1, NewestIsOne
    <3>2. d \in Rows' /\ dep'[d].env = f.env /\ dep'[d].bundle = sealed[f.rc]
      BY <2>4, <3>1 DEF Collides, Existing, Rows
    <3> QED
      BY <2>3, <2>4, <3>2
  <2>5. CASE /\ Admission(sealed[f.rc], f.env, f.who, f.attempt)
             /\ flow' = [flow EXCEPT ![c] = [f EXCEPT !.pc = next, !.dep = admitted + 1, !.who = who]]
    <3> PICK d : d = admitted + 1
      OBVIOUS
    <3>1. d \in Rows' /\ d \in Ids
      BY <2>5, RowIds DEF Admission, Rows, Ids
    <3>2. dep'[d] = [NoRow EXCEPT !.state = IF Gated(f.env) THEN "awaiting_approval" ELSE "approved",
                        !.env = f.env, !.bundle = sealed[f.rc], !.attempt = f.attempt,
                        !.requester = f.who]
      BY <2>5, <3>1, RowIds DEF Admission
    <3>3. dep'[d].env = f.env /\ dep'[d].bundle = sealed[f.rc]
      BY <3>2 DEF NoRow
    <3> QED
      BY <2>3, <2>5, <3>1, <3>3
  <2>6. \/ /\ Collides(c) # {} /\ UNCHANGED <<dep, admitted>>
           /\ flow' = [flow EXCEPT ![c] = [f EXCEPT !.pc = next, !.dep = Newest(Collides(c)), !.who = who]]
        \/ /\ Admission(sealed[f.rc], f.env, f.who, f.attempt)
           /\ flow' = [flow EXCEPT ![c] = [f EXCEPT !.pc = next, !.dep = admitted + 1, !.who = who]]
        \/ Leave(c)
    BY <1>14 DEF Admit
  <2> QED
    BY <2>4, <2>5, <2>6, Leaving
<1> QED
  BY <1>5, <1>6, <1>7, <1>8, <1>9, <1>10, <1>11, <1>12, <1>13, <1>14 DEF Sequence
LEMMA NextIsFlowStep ==
    ASSUME IInv, IInv', ReleaseInv, [Next]_vars
    PROVE  FlowStep
<1>1. ASSUME UNCHANGED flow PROVE FlowStep
  BY <1>1 DEF FlowStep
<1>2. CASE \/ \E r \in Candidates, b \in Bundles : Seal(r, b)
           \/ \E v \in Grants, r \in Candidates, e \in Envs, who \in Actors,
                 verdict \in Verdicts : Validate(v, r, e, who, verdict)
           \/ \E c \in Callers : Call(c) \/ Bare(c)
           \/ Ledger \/ UNCHANGED vars
  BY <1>1, <1>2 DEF Seal, Validate, Call, Bare, Ledger, vars, releaseVars
<1>3. ASSUME NEW c \in Callers, Die(c) PROVE FlowStep
  BY <1>3, Leaving DEF Die
<1> QED
  BY <1>2, <1>3, SequenceIsFlowStep DEF Next

\* What the environments serve changes with a call only.
LEMMA ServedByCalls ==
    ASSUME [Next]_vars
    PROVE  UNCHANGED served \/ \E c \in Callers : Call(c)
<1>1. ASSUME NEW c \in Callers, Sequence(c) PROVE UNCHANGED served
  BY <1>1 DEF Sequence, BeginReview, BeginPromotion, Admit, Check, Authorise, Read, Start,
              Return, Record, Probe, Report, Local, productionVars, hostVars, ClaimDeploy,
              SettleCall
<1>2. ASSUME NEW c \in Callers, Bare(c) \/ Die(c) PROVE UNCHANGED served
  BY <1>2 DEF Bare, Die, ClaimDeploy, StartRollback, ClaimRollback, SettleCall, hostVars
<1>3. CASE Ledger
  BY <1>3 DEF Ledger, AdmitRelease, Approve, RecordHealth, Cancel, Escalate, Reconcile,
              Settles, ReconcileOnRestart, hostVars
<1>4. CASE \/ \E r \in Candidates, b \in Bundles : Seal(r, b)
           \/ \E v \in Grants, r \in Candidates, e \in Envs, who \in Actors,
                 verdict \in Verdicts : Validate(v, r, e, who, verdict)
           \/ UNCHANGED vars
  BY <1>4 DEF Seal, Validate, vars, productionVars
<1> QED
  BY <1>1, <1>2, <1>3, <1>4 DEF Next

\* A row of the ledger moves on, and is noted by the verbs and by two steps of a
\* sequence only.
LEMMA NextWrites ==
    ASSUME IInv, ReleaseInv, [Next]_vars
    PROVE  Notes \/ (UNCHANGED admitted /\ \E c \in Callers : Writes(c))
<1>1. ASSUME UNCHANGED ledgerVars PROVE Notes
  BY <1>1, RowsNotTouched DEF ledgerVars
<1> QED
  BY <1>1, NextNotes, NextIsSequenceMove DEF SequenceMove
LEMMA ShownKept ==
    ASSUME IInv, StoodInv, RowStep, ReleaseInv, Lasting, [Next]_vars,
           served' \in [Envs -> Bundles \cup {None}]
    PROVE  ShownInv'
<1>1. ASSUME NEW e \in Envs, served'[e] # None PROVE <<e, served'[e]>> \in shown'
  BY <1>1, ServedByCalls DEF Call, ReleaseInv, ShownInv, Lasting
<1>2. ASSUME NEW d \in Rows, dep[d].seen = "proven"
      PROVE  <<dep'[d].env, dep'[d].bundle>> \in shown'
  BY <1>2, RowStepKeeps DEF ReleaseInv, ShownInv, Lasting
<1>3. ASSUME NEW d \in Rows', dep'[d].seen = "proven"
      PROVE  <<dep'[d].env, dep'[d].bundle>> \in shown'
  <2>1. CASE Notes
    BY <1>2, <1>3, <2>1 DEF Notes
  <2>2. ASSUME NEW c \in Callers, Writes(c), admitted' = admitted
        PROVE  <<dep'[d].env, dep'[d].bundle>> \in shown'
    <3> DEFINE f == flow[c]
    <3>1. f \in FlowRow /\ FlowOk(f) /\ f.dep \in Rows /\ f.rc \in Candidates
      BY <2>2, FlowFields DEF Writes
    <3>2. d \in Rows /\ d \in Ids /\ f.dep \in Ids
      BY <2>2, <3>1, RowIds DEF Rows
    <3>3. CASE d = f.dep /\ f.pc = "report" /\ f.seen = "proven"
      <4>1. Binds(d, f.rc, f.env) /\ <<f.env, sealed[f.rc]>> \in shown
        BY <3>1, <3>3 DEF FlowOk
      <4> QED
        BY <3>2, <4>1, RowStepKeeps DEF Binds, Lasting
    <3>4. CASE dep[d].seen = "proven"
      BY <1>2, <3>2, <3>4
    <3>5. CASE f.pc = "approve" /\ ApproveRow(f.dep, val[f.val].by, f.val)
      <4>1. dep'[d].seen = dep[d].seen
        BY <3>2, <3>5, RowIds DEF ApproveRow, Row
      <4> QED
        BY <1>3, <3>4, <4>1
    <3>6. CASE f.pc = "report" /\ RecordHealthRow(f.dep, f.state, f.seen)
      <4>1. f.state \in States
        BY <3>1 DEF FlowRow
      <4>2. Moved(f.dep, f.state) \in Row
        BY <3>1, <3>6, <4>1, MovedRow DEF RecordHealthRow
      <4>3. dep' = [dep EXCEPT ![f.dep] = [Moved(f.dep, f.state) EXCEPT !.seen = f.seen]]
        BY <3>6 DEF RecordHealthRow
      <4>4. dep'[d] = IF d = f.dep THEN [Moved(f.dep, f.state) EXCEPT !.seen = f.seen] ELSE dep[d]
        BY <3>2, <4>3, RowIds
      <4>5. [Moved(f.dep, f.state) EXCEPT !.seen = f.seen].seen = f.seen
        BY <4>2 DEF Row
      <4> HIDE DEF f
      <4>6. IF d = f.dep THEN f.seen = "proven" ELSE dep[d].seen = "proven"
        BY <1>3, <4>4, <4>5
      <4> QED
        BY <3>3, <3>4, <3>6, <4>6
    <3> QED
      BY <2>2, <3>5, <3>6 DEF Writes
  <2> QED
    BY <2>1, <2>2, NextWrites
<1> QED
  BY <1>1, <1>3 DEF ShownInv

LEMMA GrantKept ==
    ASSUME IInv, StoodInv, RowStep, ReleaseInv, Lasting, [Next]_vars
    PROVE  GrantInv'
<1> DEFINE Granted(d, g, who) ==
        /\ g \in Grants
        /\ val[g].rc \in Candidates /\ sealed[val[g].rc] # None
        /\ val[g].verdict = "VALIDATED"
        /\ sealed[val[g].rc] = dep[d].bundle
        /\ who = val[g].by
        /\ who # dep[d].requester
<1>1. ASSUME NEW d \in Rows, NEW g, NEW who, Granted(d, g, who) PROVE Granted(d, g, who)'
  <2>1. val'[g] = val[g]
    BY <1>1 DEF Lasting, NoVal
  <2>2. sealed'[val[g].rc] = sealed[val[g].rc]
    BY <1>1 DEF Lasting
  <2>3. dep'[d].bundle = dep[d].bundle /\ dep'[d].requester = dep[d].requester
    BY RowStepKeeps
  <2> QED
    BY <1>1, <2>1, <2>2, <2>3
<1>2. \A d \in Rows : dep[d].grant # None => Granted(d, dep[d].grant, dep[d].approver)
  BY DEF ReleaseInv, GrantInv
<1>3. ASSUME NEW d \in Rows', dep'[d].grant # None
      PROVE  \E g, who : /\ g = dep'[d].grant /\ who = dep'[d].approver
                         /\ Granted(d, g, who)'
  <2>1. ASSUME d \in Rows, dep'[d].grant = dep[d].grant, dep'[d].approver = dep[d].approver
        PROVE  \E g, who : /\ g = dep'[d].grant /\ who = dep'[d].approver
                           /\ Granted(d, g, who)'
    <3> PICK g, who : g = dep[d].grant /\ who = dep[d].approver
      OBVIOUS
    <3>1. Granted(d, g, who)
      BY <1>2, <1>3, <2>1
    <3> HIDE DEF Granted
    <3> QED
      BY <1>1, <2>1, <3>1
  <2>2. CASE Notes
    BY <1>3, <2>1, <2>2 DEF Notes
  <2>3. ASSUME NEW c \in Callers, Writes(c), admitted' = admitted
        PROVE  \E g, who : /\ g = dep'[d].grant /\ who = dep'[d].approver
                           /\ Granted(d, g, who)'
    <3> DEFINE f == flow[c]
    <3>1. f \in FlowRow /\ FlowOk(f) /\ f.dep \in Rows /\ f.rc \in Candidates
      BY <2>3, FlowFields DEF Writes
    <3>2. d \in Rows /\ d \in Ids /\ f.dep \in Ids /\ dep[d] \in Row
      BY <2>3, <3>1, RowIds DEF Rows
    <3>3. CASE f.pc = "report" /\ RecordHealthRow(f.dep, f.state, f.seen)
      <4>1. f.state \in States
        BY <3>1 DEF FlowRow
      <4> DEFINE m == Moved(f.dep, f.state)
      <4>2. m \in Row /\ m = [dep[f.dep] EXCEPT !.state = f.state, !.stood = @ \/ f.state = "healthy"]
            /\ dep[f.dep] \in Row
        BY <3>1, <3>3, <4>1, MovedRow DEF RecordHealthRow
      <4>3. dep'[d] = IF d = f.dep THEN [m EXCEPT !.seen = f.seen] ELSE dep[d]
        BY <3>2, <3>3, RowIds DEF RecordHealthRow
      <4>4. m.grant = dep[f.dep].grant /\ m.approver = dep[f.dep].approver
        BY <4>2 DEF Row
      <4> HIDE DEF m
      <4>5. [m EXCEPT !.seen = f.seen].grant = m.grant
            /\ [m EXCEPT !.seen = f.seen].approver = m.approver
        BY <4>2 DEF Row
      <4> HIDE DEF f
      <4> QED
        BY <2>1, <3>2, <4>3, <4>4, <4>5
    <3>4. CASE f.pc = "approve" /\ ApproveRow(f.dep, val[f.val].by, f.val)
      <4>1. CASE d # f.dep
        BY <2>1, <3>2, <3>4, <4>1, RowIds DEF ApproveRow
      <4>2. CASE d = f.dep
        <5> PICK g, who : g = f.val /\ who = val[f.val].by
          OBVIOUS
        <5>1. dep'[d].grant = g /\ dep'[d].approver = who /\ who # dep[d].requester
          BY <3>2, <3>4, <4>2, RowIds DEF ApproveRow, Approvable, Row
        <5>2. f.val # None /\ Validated(f.rc, f.val) /\ Binds(d, f.rc, f.env)
          BY <3>1, <3>4, <4>2 DEF FlowOk
        <5>3. g \in Grants
          BY <3>4, <5>2, FlowFields
        <5>4. Granted(d, g, who)
          BY <3>1, <5>1, <5>2, <5>3 DEF Validated, Binds
        <5> HIDE DEF Granted
        <5> QED
          BY <1>1, <3>2, <5>1, <5>4
      <4> QED
        BY <4>1, <4>2
    <3> QED
      BY <2>3, <3>3, <3>4 DEF Writes
  <2> QED
    BY <2>2, <2>3, NextWrites
<1> QED
  BY <1>3 DEF GrantInv
\* Only Seal, Validate and Record write what these three keep.
LEMMA OneWriter ==
    ASSUME [Next]_vars
    PROVE  /\ UNCHANGED sealed \/ \E r \in Candidates, b \in Bundles : Seal(r, b)
           /\ UNCHANGED val \/ \E v \in Grants, r \in Candidates, e \in Envs, who \in Actors,
                                  verdict \in Verdicts : Validate(v, r, e, who, verdict)
           /\ UNCHANGED record \/ \E c \in Callers : Record(c)
<1>1. ASSUME NEW c \in Callers, Sequence(c)
      PROVE  UNCHANGED <<sealed, val>> /\ (UNCHANGED record \/ Record(c))
  BY <1>1 DEF Sequence, BeginReview, BeginPromotion, Admit, Check, Authorise, Read, Start,
              Return, Record, Probe, Report, Local
<1>2. ASSUME NEW c \in Callers, Call(c) \/ Bare(c) \/ Die(c)
      PROVE  UNCHANGED <<sealed, val, record>>
  BY <1>2 DEF Call, Bare, Die
<1>3. CASE Ledger \/ UNCHANGED vars
  BY <1>3 DEF Ledger, vars, releaseVars
<1>4. ASSUME NEW r \in Candidates, NEW b \in Bundles, Seal(r, b)
      PROVE  UNCHANGED <<val, record>>
  BY <1>4 DEF Seal
<1>5. ASSUME NEW v \in Grants, NEW r \in Candidates, NEW e \in Envs, NEW who \in Actors,
             NEW verdict \in Verdicts, Validate(v, r, e, who, verdict)
      PROVE  UNCHANGED <<sealed, record>>
  BY <1>5 DEF Validate
<1> QED
  BY <1>1, <1>2, <1>3, <1>4, <1>5 DEF Next

LEMMA RecordKept ==
    ASSUME IInv, StoodInv, RowStep, ReleaseInv, Lasting, [Next]_vars
    PROVE  record' \in [Candidates -> [Envs -> RecordRow]] /\ RecordInv'
<1>1. ASSUME NEW r \in Candidates, NEW e \in Envs, NEW d, Binds(d, r, e), d = record'[r][e].dep
      PROVE  Binds(record[r][e].dep, r, e)'
  BY <1>1, BindsLasts DEF Binds
<1>2. \A r \in Candidates, e \in Envs :
          record[r][e].dep # 0 => Binds(record[r][e].dep, r, e)
  BY DEF ReleaseInv, RecordInv
<1>3. record \in [Candidates -> [Envs -> RecordRow]]
  BY DEF ReleaseInv, ReleaseTypeOK
<1>4. CASE UNCHANGED record
  BY <1>1, <1>2, <1>3, <1>4 DEF RecordInv
<1>5. ASSUME NEW c \in Callers, Record(c), record' # record
      PROVE  record' \in [Candidates -> [Envs -> RecordRow]] /\ RecordInv'
  <2> PICK f \in FlowRow : f = flow[c]
    BY FlowFields
  <2>1. f.pc = "record" /\ f.rc \in Candidates /\ f.env \in Envs /\ Binds(f.dep, f.rc, f.env)
    BY <1>5, FlowFields DEF Record, FlowOk
  <2> DEFINE row == [dep |-> f.dep, firm |-> Firm(f.state)]
  <2>2. record' = [record EXCEPT ![f.rc][f.env] = row]
    BY <1>5 DEF Record
  <2>3. row \in RecordRow /\ row.dep = f.dep
    BY DEF RecordRow, FlowRow, Firm
  <2> HIDE DEF row
  <2>4. record' \in [Candidates -> [Envs -> RecordRow]]
    BY <1>3, <2>1, <2>2, <2>3
  <2>5. \A r \in Candidates, e \in Envs :
            record'[r][e] = IF r = f.rc /\ e = f.env THEN row ELSE record[r][e]
    BY <1>3, <2>1, <2>2
  <2>6. ASSUME NEW r \in Candidates, NEW e \in Envs, record'[r][e].dep # 0
        PROVE  Binds(record[r][e].dep, r, e)'
    <3>1. CASE r = f.rc /\ e = f.env
      BY <1>1, <2>1, <2>3, <2>5, <3>1
    <3>2. CASE ~(r = f.rc /\ e = f.env)
      BY <1>1, <1>2, <2>5, <2>6, <3>2
    <3> QED
      BY <3>1, <3>2
  <2> QED
    BY <2>4, <2>6 DEF RecordInv
<1> QED
  BY <1>4, <1>5, OneWriter

LEMMA ValKept ==
    ASSUME IInv, ReleaseInv, Lasting, [Next]_vars
    PROVE  val' \in [Grants -> ValRow] /\ ValInv'
<1>1. ASSUME NEW v \in Grants, val[v] # NoVal
      PROVE  /\ val[v].rc \in Candidates /\ sealed'[val[v].rc] # None
             /\ <<val[v].env, sealed'[val[v].rc]>> \in shown'
  BY <1>1 DEF ReleaseInv, ValInv, Lasting
<1>2. CASE UNCHANGED val
  BY <1>1, <1>2 DEF ReleaseInv, ReleaseTypeOK, ValInv
<1>3. ASSUME NEW v \in Grants, NEW r \in Candidates, NEW e \in Envs, NEW who \in Actors,
             NEW verdict \in Verdicts, Validate(v, r, e, who, verdict)
      PROVE  val' \in [Grants -> ValRow] /\ ValInv'
  <2> DEFINE d == record[r][e].dep
             new == [rc |-> r, env |-> e, by |-> who, verdict |-> verdict]
  <2>1. /\ val' = [val EXCEPT ![v] = new] /\ UNCHANGED <<sealed, shown>>
        /\ d # 0 /\ dep[d].seen = "proven"
        /\ dep[d].bundle = sealed[r]
    BY <1>3 DEF Validate, ReviewHealthy, ReviewState
  <2>2. Binds(d, r, e)
    BY <2>1 DEF ReleaseInv, RecordInv
  <2>3. sealed[r] # None /\ <<e, sealed[r]>> \in shown
    BY <2>1, <2>2 DEF Binds, ReleaseInv, ShownInv
  <2>4. val \in [Grants -> ValRow] /\ new \in ValRow
    BY DEF ReleaseInv, ReleaseTypeOK, ValRow
  <2>5. val' \in [Grants -> ValRow] /\ \A w \in Grants : val'[w] = IF w = v THEN new ELSE val[w]
    BY <2>1, <2>4
  <2>6. new.rc = r /\ new.env = e
    OBVIOUS
  <2> HIDE DEF new
  <2>7. ASSUME NEW w \in Grants, val'[w] # NoVal
        PROVE  /\ val'[w].rc \in Candidates /\ sealed'[val'[w].rc] # None
               /\ <<val'[w].env, sealed'[val'[w].rc]>> \in shown'
    BY <1>1, <2>1, <2>3, <2>5, <2>6, <2>7
  <2>8. NoVal' = NoVal
    BY DEF NoVal
  <2> QED
    BY <2>5, <2>7, <2>8 DEF ValInv
<1> QED
  BY <1>2, <1>3, OneWriter

LEMMA SealedTyped ==
    ASSUME ReleaseInv, [Next]_vars
    PROVE  sealed' \in [Candidates -> Bundles \cup {None}]
  BY OneWriter DEF Seal, ReleaseInv, ReleaseTypeOK
LEMMA ReleaseBegins == Init => ReleaseInv
<1> SUFFICES ASSUME Init PROVE ReleaseInv
  OBVIOUS
<1>1. NoFlow \in FlowRow /\ FlowOk(NoFlow) /\ NoRecord \in RecordRow /\ NoVal \in ValRow
  <2>1. "none" \in States /\ 0 \in 0..MaxDeployments /\ 0 \in 0..MaxAttempt /\ "idle" \in FlowPcs
    BY StateNames, ProductionAssumption DEF FlowPcs
  <2>2. NoFlow \in FlowRow
    BY <2>1 DEF NoFlow, FlowRow
  <2> QED
    BY <2>1, <2>2 DEF NoFlow, FlowOk, Asks, NoRecord, RecordRow, NoVal, ValRow
<1>2. ReleaseTypeOK
  BY <1>1 DEF Init, ReleaseTypeOK
<1>3. FlowInv
  BY <1>1 DEF Init, FlowInv
<1>4. RecordInv /\ ValInv
  BY DEF Init, RecordInv, NoRecord, ValInv
<1>5. ShownInv /\ GrantInv
  BY DEF Init, InitProduction, Rows, ShownInv, GrantInv
<1> QED
  BY <1>2, <1>3, <1>4, <1>5 DEF ReleaseInv

LEMMA ReleaseStep ==
    ASSUME IInv, StoodInv, ReleaseInv, [Next]_vars
    PROVE  IInv' /\ StoodInv' /\ ReleaseInv'
<1>1. IInv' /\ RowStep
  BY NextIsReleaseMove, ReleaseMoveKeeps
<1>2. StoodInv' /\ Lasting
  BY <1>1, RowStepKeeps, NextLasts
<1>3. flow' \in [Callers -> FlowRow] /\ FlowInv'
  BY <1>1, <1>2, NextIsFlowStep, FlowStepKeeps
<1>4. ShownInv' /\ GrantInv'
  BY <1>1, <1>2, ShownKept, GrantKept DEF IInv, ProductionTypeOK
<1>5. /\ record' \in [Candidates -> [Envs -> RecordRow]] /\ RecordInv'
      /\ val' \in [Grants -> ValRow] /\ ValInv'
      /\ sealed' \in [Candidates -> Bundles \cup {None}]
  BY <1>1, <1>2, RecordKept, ValKept, SealedTyped
<1>6. ReleaseTypeOK'
  BY <1>3, <1>5 DEF ReleaseTypeOK, FlowRow, FlowPcs, RecordRow, ValRow
<1> QED
  BY <1>1, <1>2, <1>3, <1>4, <1>5, <1>6 DEF ReleaseInv

\* The inductive invariant of the release path: that of the ledger below it, and the
\* ties between a candidate, its deployments, what was served and what was decided.
THEOREM ReleaseInvariance == Spec => [](IInv /\ StoodInv /\ ReleaseInv)
<1>1. Init => IInv /\ StoodInv
  BY Initially, NothingRestored DEF Init
<1> QED
  BY <1>1, ReleaseBegins, ReleaseStep, PTL DEF Spec

\* What the ledger promises under its own verbs it promises under the sequences of
\* the release path too: one deploy() for a deployment, and nothing in a production
\* environment without a second person's approval.
THEOREM LedgerHoldsOnReleasePath == Spec => [](DeployedOnce /\ ApprovedBeforeReached)
<1>1. IInv => DeployedOnce /\ ApprovedBeforeReached
  BY ReachedIsApproved DEF IInv
<1> QED
  BY <1>1, ReleaseInvariance, PTL

\* No validation, favourable or not, is recorded of bytes its review environment has
\* never served, for any number of processes, candidates and deaths.
THEOREM DecidedOnWhatWasServed == Spec => []ValidatedWasServed
<1>1. ReleaseInv => ValidatedWasServed
  BY DEF ReleaseInv, ValInv, ValidatedWasServed
<1> QED
  BY <1>1, ReleaseInvariance, PTL

\* A deployment approved by a validation holds the bytes that were validated, and the
\* one who validated did not ask for it, even where the row was admitted by a verb
\* outside the sequence and only met by it.
THEOREM ValidationIsTheBytes == Spec => []PromotesWhatWasValidated
<1>1. ReleaseInv => PromotesWhatWasValidated
  BY DEF ReleaseInv, GrantInv, PromotesWhatWasValidated
<1> QED
  BY <1>1, ReleaseInvariance, PTL

\* Only a sequence whose review is healthy in that very step, or a verb that no
\* sequence waits for, adds a deployment.
LEMMA WhoAdmits ==
    ASSUME ReleaseInv, [Next]_vars, admitted' # admitted
    PROVE  \/ UNCHANGED flow
           \/ \E b \in Callers : /\ Precondition(b)
                                 /\ \A c \in Callers \ {b} : flow'[c] = flow[c]
<1>1. ASSUME NEW c \in Callers, Sequence(c) PROVE Admit(c)
  BY <1>1 DEF Sequence, BeginReview, BeginPromotion, Check, Authorise, Read, Start, Return,
              Record, Probe, Report, Local, productionVars, ClaimDeploy, SettleCall
<1>2. ASSUME NEW c \in Callers, Call(c) \/ Bare(c) \/ Die(c) PROVE FALSE
  BY <1>2 DEF Call, Bare, Die, CallDeploy, CallRollback, ClaimDeploy, StartRollback,
              ClaimRollback, SettleCall, ledgerVars
<1>3. CASE Ledger
  BY <1>3 DEF Ledger
<1>4. CASE \/ \E r \in Candidates, b \in Bundles : Seal(r, b)
           \/ \E v \in Grants, r \in Candidates, e \in Envs, who \in Actors,
                 verdict \in Verdicts : Validate(v, r, e, who, verdict)
           \/ UNCHANGED vars
  BY <1>4 DEF Seal, Validate, vars, productionVars
<1>5. ASSUME NEW c \in Callers, Admit(c)
      PROVE  Precondition(c) /\ \A b \in Callers \ {c} : flow'[b] = flow[b]
  <2>1. Precondition(c) /\ \E g : flow' = [flow EXCEPT ![c] = g]
    BY <1>5 DEF Admit
  <2> QED
    BY <2>1, FlowFields
<1> QED
  BY <1>1, <1>2, <1>3, <1>4, <1>5 DEF Next

\* A promotion enters the ledger only in a step in which the review it rests on is
\* healthy, however long ago the promotion began.
THEOREM PromotionRestsOnReview == Spec => AdmittedOnHealthyReview
<1>1. ASSUME IInv, StoodInv, ReleaseInv, [Next]_vars, admitted' # admitted,
             NEW c \in Callers, flow[c].val # None, flow'[c].dep = admitted'
      PROVE  ReviewHealthy(val[flow[c].val].rc, val[flow[c].val].env)
  <2>1. admitted' = admitted + 1 /\ admitted \in Nat
    BY <1>1, NextIsReleaseMove, ReleaseMoveKeeps, RowIds DEF RowStep, Admission
  <2>2. flow[c].dep # 0 => flow[c].dep \in 1..admitted
    BY <1>1, FlowFields DEF FlowOk, Rows
  <2>3. flow'[c] # flow[c]
    BY <1>1, <2>1, <2>2
  <2>4. Precondition(c)
    BY <1>1, <2>3, WhoAdmits
  <2> QED
    BY <1>1, <2>4 DEF Precondition
<1>2. IInv /\ StoodInv /\ ReleaseInv /\ [Next]_vars =>
          [admitted' # admitted =>
              \A c \in Callers : flow[c].val # None /\ flow'[c].dep = admitted' =>
                  ReviewHealthy(val[flow[c].val].rc, val[flow[c].val].env)]_vars
  BY <1>1
<1> QED
  BY <1>2, ReleaseInvariance, PTL DEF Spec, AdmittedOnHealthyReview

=============================================================================
