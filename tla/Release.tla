------------------------------ MODULE Release ------------------------------
(***************************************************************************)
(* The release lifecycle of release.py over the deployment ledger: a       *)
(* candidate is sealed to one bundle, deployed to a staging environment    *)
(* and probed there, validated by the Owner and promoted, the same bundle, *)
(* to production.  deploy_review and promote_validated are sequences of    *)
(* ledger transactions and one adapter call: flow is where a process is in *)
(* them, and everything else may happen in between.                        *)
(*                                                                         *)
(* Abstractions.  Health is observed as the command line does it, by a     *)
(* probe after the deployment; a record handed to the two functions is     *)
(* left out.  The environments stay as they were registered: closing or    *)
(* stopping one only refuses, see Production.                              *)
(***************************************************************************)
EXTENDS Production

CONSTANTS
    Candidates,  \* rc ids
    MaxFaults    \* bound: deaths of a process and verbs from outside the two sequences

ASSUME ReleaseAssumption == None \notin Candidates /\ MaxFaults \in Nat

VARIABLES
    sealed,  \* release_candidates: the bundle an rc id is sealed to
    record,  \* release_deployments, by rc and environment
    val,     \* owner_validations
    flow,    \* where each caller is in deploy_review or promote_validated
    shown,   \* history: what each environment ever served
    faults   \* deaths and outside verbs so far

releaseVars == <<sealed, record, val, flow, shown, faults>>
Faulty == faults < MaxFaults /\ faults' = faults + 1
vars == <<productionVars, releaseVars>>

StagingEnvs == Envs \ ProductionEnvs
Verdicts == {"VALIDATED", "RETURN_FOR_CHANGES"}
NoRecord == [dep |-> 0, firm |-> FALSE]
NoVal == [rc |-> None, env |-> None, by |-> None, verdict |-> "none"]
NoFlow == [pc |-> "idle", rc |-> None, env |-> None, who |-> None, val |-> None,
           attempt |-> 0, dep |-> 0, state |-> "none", seen |-> "none"]

Init ==
    /\ InitProduction
    /\ sealed = [r \in Candidates |-> None]
    /\ record = [r \in Candidates |-> [e \in Envs |-> NoRecord]]
    /\ val = [v \in Grants |-> NoVal]
    /\ flow = [c \in Callers |-> NoFlow]
    /\ shown = {}
    /\ faults = 0

Seal(r, b) ==
    /\ sealed[r] = None
    /\ sealed' = [sealed EXCEPT ![r] = b]
    /\ UNCHANGED <<productionVars, record, val, flow, shown, faults>>

-----------------------------------------------------------------------------
(* The review and the Owner's decision.                                    *)

\* Mutant: the state of the row is believed, whoever wrote it.
StateOnly(r, e) == dep[record[r][e].dep].state

\* _review_state: healthy only if the last observation on record is proven.
ReviewState(r, e) ==
    LET row == dep[record[r][e].dep] IN
    IF row.state = "healthy" /\ row.seen # "proven" THEN "unproven_health" ELSE row.state

ReviewHealthy(r, e) == record[r][e].dep # 0 /\ ReviewState(r, e) = "healthy"

Validate(v, r, e, who, verdict) ==
    /\ val[v] = NoVal
    /\ e \in StagingEnvs /\ ReviewHealthy(r, e)
    /\ dep[record[r][e].dep].bundle = sealed[r]
    /\ val' = [val EXCEPT ![v] = [rc |-> r, env |-> e, by |-> who, verdict |-> verdict]]
    /\ UNCHANGED <<productionVars, sealed, record, flow, shown, faults>>

-----------------------------------------------------------------------------
(* The two sequences.                                                      *)

Free(c) == flow[c].pc = "idle" /\ op[c].pc = "idle"
Go(c, pc) == flow' = [flow EXCEPT ![c].pc = pc]
Leave(c) == flow' = [flow EXCEPT ![c] = NoFlow]
Local == UNCHANGED <<productionVars, sealed, record, val, shown, faults>>

BeginReview(c, r, e, who) ==
    /\ Free(c) /\ sealed[r] # None /\ e \in StagingEnvs
    /\ flow' = [flow EXCEPT ![c] = [NoFlow EXCEPT !.pc = "admit", !.rc = r, !.env = e,
                                                  !.who = who, !.attempt = 1]]
    /\ Local

\* Mutant: whatever the Owner decided, it promotes.
AnyDecision(r, v) == val[v].rc = r

Validated(r, v) == val[v].rc = r /\ val[v].verdict = "VALIDATED"

BeginPromotion(c, r, v, e, who) ==
    /\ Free(c) /\ sealed[r] # None /\ e \in ProductionEnvs
    /\ Validated(r, v)
    /\ ReviewHealthy(val[v].rc, val[v].env)
    /\ flow' = [flow EXCEPT ![c] = [NoFlow EXCEPT !.pc = "admit", !.rc = r, !.env = e,
                                                  !.who = who, !.val = v, !.attempt = 1]]
    /\ Local

\* Mutant: the review is not looked at again when the row is written.
NoPrecondition(c) == TRUE

\* still_healthy, evaluated in the transaction that admits.
Precondition(c) ==
    flow[c].val # None => ReviewHealthy(val[flow[c].val].rc, val[flow[c].val].env)

Collides(c) == Existing(sealed[flow[c].rc], flow[c].env, flow[c].attempt)

\* The row a repeated request collides with, a new one, or a refusal.  Only a review
\* may ask again, and needs to know who asked.
Admit(c) ==
    LET f == flow[c]
        b == sealed[f.rc]
        who == IF f.env \in ProductionEnvs THEN None ELSE f.who
        next == IF f.env \in ProductionEnvs THEN "check" ELSE "read" IN
    /\ f.pc = "admit"
    /\ \/ /\ Precondition(c) /\ Collides(c) # {}
          /\ flow' = [flow EXCEPT ![c] = [f EXCEPT !.pc = next, !.dep = Newest(Collides(c)), !.who = who]]
          /\ UNCHANGED <<dep, admitted>>
       \/ /\ Precondition(c) /\ Admission(b, f.env, f.who, f.attempt)
          /\ flow' = [flow EXCEPT ![c] = [f EXCEPT !.pc = next, !.dep = admitted + 1, !.who = who]]
       \/ /\ Precondition(c) => Collides(c) = {} /\ ~AdmissionOpen(f.env)
          /\ Leave(c)
          /\ UNCHANGED <<dep, admitted>>
    /\ UNCHANGED <<env, op, hostVars, sealed, record, val, shown, faults>>

\* Promotion: the validation is the approval of a row that waits for one.
Check(c) ==
    /\ flow[c].pc = "check"
    /\ Go(c, IF dep[flow[c].dep].state = "awaiting_approval" THEN "approve" ELSE "read")
    /\ Local

Authorise(c) ==
    LET f == flow[c] IN
    /\ f.pc = "approve"
    /\ \/ ApproveRow(f.dep, val[f.val].by, f.val) /\ Go(c, "read")
       \/ ~Approvable(f.dep, val[f.val].by) /\ Leave(c) /\ UNCHANGED dep
    /\ UNCHANGED <<env, admitted, op, hostVars, sealed, record, val, shown, faults>>

Retries(c) ==
    flow[c].env \in StagingEnvs /\ flow[c].attempt < MaxAttempt

\* A review that failed is attempted again, up to a limit; otherwise the state
\* read decides.
Read(c) ==
    LET f == flow[c]
        s == dep[f.dep].state IN
    /\ f.pc = "read"
    /\ flow' = [flow EXCEPT ![c] =
           IF s = "failed" /\ Retries(c)
           THEN [f EXCEPT !.pc = "admit", !.attempt = @ + 1]
           ELSE IF s = "failed" /\ f.env \in StagingEnvs THEN NoFlow
           ELSE [f EXCEPT !.pc = IF s = "approved" THEN "start" ELSE "record",
                          !.state = s, !.who = None, !.attempt = 0]]
    /\ Local

Start(c) ==
    /\ flow[c].pc = "start"
    /\ \/ ClaimDeploy(c, flow[c].dep) /\ Go(c, "run")
       \/ ~Claimable(flow[c].dep) /\ Leave(c) /\ UNCHANGED productionVars
    /\ UNCHANGED <<sealed, record, val, shown, faults>>

\* deploy() returns the state it settled, or raises because it could not.
Return(c) ==
    LET s == OutcomeState(op[c].verb, op[c].answer) IN
    /\ flow[c].pc = "run"
    /\ SettleCall(c)
    /\ flow' = [flow EXCEPT ![c] = IF MayMove(op[c].dep, s)
                                   THEN [@ EXCEPT !.pc = "record", !.state = s] ELSE NoFlow]
    /\ UNCHANGED <<sealed, record, val, shown, faults>>

\* A deployment recorded failed or uncertain is not yet an Owner's surface, and
\* its record may be replaced; any other is bound to its deployment for good.
Firm(state) == state \notin {"failed", "uncertain"}

Replaceable(r, e) == ~record[r][e].firm

Record(c) ==
    LET f == flow[c] IN
    /\ f.pc = "record"
    /\ record' = IF Replaceable(f.rc, f.env)
                 THEN [record EXCEPT ![f.rc][f.env] = [dep |-> f.dep, firm |-> Firm(f.state)]]
                 ELSE record
    /\ IF f.state = "verifying"
          /\ (Replaceable(f.rc, f.env) \/ record[f.rc][f.env].dep = f.dep)
       THEN Go(c, "probe") ELSE Leave(c)
    /\ UNCHANGED <<productionVars, sealed, val, shown, faults>>

\* Whether the entry document the surface serves is that of the sealed bytes.
EntryProof(c) ==
    IF served[flow[c].env] = dep[flow[c].dep].bundle THEN "proven" ELSE "unproven"

Probe(c) ==
    /\ flow[c].pc = "probe"
    /\ \E outcome \in Outcomes :
           /\ EntryProof(c) = "proven" \/ outcome # "healthy"
           /\ flow' = [flow EXCEPT ![c].pc = "report", ![c].state = outcome,
                                   ![c].seen = EntryProof(c)]
    /\ Local

Report(c) ==
    LET f == flow[c] IN
    /\ f.pc = "report"
    /\ \/ RecordHealthRow(f.dep, f.state, f.seen)
       \/ ~MayMove(f.dep, f.state) /\ UNCHANGED dep
    /\ Leave(c)
    /\ UNCHANGED <<env, admitted, op, hostVars, sealed, record, val, shown, faults>>

-----------------------------------------------------------------------------
(* What else happens to the ledger, and to a process.                      *)

Die(c) ==
    /\ ~Free(c) /\ Faulty
    /\ op' = [op EXCEPT ![c] = Idle]
    /\ Leave(c)
    /\ UNCHANGED <<ledgerVars, hostVars, sealed, record, val, shown>>

\* The adapter call, of a sequence or of a bare deploy() or rollback().
Call(c) ==
    /\ CallDeploy(c) \/ CallRollback(c)
    /\ shown' = shown \cup {<<e, served'[e]>> : e \in Envs}
    /\ UNCHANGED <<sealed, record, val, flow, faults>>

\* rollback_production, and the production commands.
Bare(c) ==
    /\ flow[c].pc = "idle"
    /\ \/ Faulty /\ \E d \in Rows : ClaimDeploy(c, d) \/ StartRollback(c, d)
       \/ UNCHANGED faults /\ (ClaimRollback(c) \/ SettleCall(c))
    /\ UNCHANGED <<sealed, record, val, flow, shown>>

Ledger ==
    /\ Faulty
    /\ \/ \E b \in Bundles, e \in Envs, who \in Actors, n \in 1..MaxAttempt :
              AdmitRelease(b, e, who, n)
       \/ \E d \in Rows, who \in Actors : Approve(d, who, None)
       \/ \E d \in Rows, outcome \in Outcomes : RecordHealth(d, outcome)
       \/ \E d \in Rows : Cancel(d) \/ Escalate(d) \/ Reconcile(d)
       \/ ReconcileOnRestart
    /\ UNCHANGED <<sealed, record, val, flow, shown>>

Sequence(c) ==
    \/ \E r \in Candidates, e \in Envs, who \in Actors :
           \/ BeginReview(c, r, e, who)
           \/ \E v \in Grants : BeginPromotion(c, r, v, e, who)
    \/ Admit(c) \/ Check(c) \/ Authorise(c) \/ Read(c) \/ Start(c)
    \/ Return(c) \/ Record(c) \/ Probe(c) \/ Report(c)

Next ==
    \/ \E r \in Candidates, b \in Bundles : Seal(r, b)
    \/ \E v \in Grants, r \in Candidates, e \in Envs, who \in Actors, verdict \in Verdicts :
           Validate(v, r, e, who, verdict)
    \/ \E c \in Callers : Sequence(c) \/ Call(c) \/ Bare(c) \/ Die(c)
    \/ Ledger

Spec == Init /\ [][Next]_vars
=============================================================================
