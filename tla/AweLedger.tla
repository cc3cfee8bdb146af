----------------------------- MODULE AweLedger -----------------------------
(***************************************************************************)
(* The claim ledger of awe_worker/ledger.py: one row per task with a lease *)
(* and a fencing token, and the certifications bound to its heads.  Every  *)
(* verb is one SQLite transaction, given here as a fragment over the rows  *)
(* and joined with a worker's step in AweWorker.                           *)
(*                                                                         *)
(* Abstractions.  A claim token (uuid4) is the number of tokens the task   *)
(* was ever issued; lease_expires_at > now is the flag live; a commit is   *)
(* its position on the task's branch, 0 standing for no commit.            *)
(***************************************************************************)
EXTENDS Integers, FiniteSets

CONSTANTS
    Tasks,     \* task ids, by the sequence number they are sorted on
    Slots,     \* exact execution slots (harness, model, effort)
    SlotOf,    \* the slot a task is written for
    Workers,   \* worker identities
    Roles,     \* TurnCadenceReconciler.required_roles
    MaxHead,   \* bound: commits on the branch of a task
    None       \* no worker, no task, no slot

ASSUME LedgerAssumption ==
    /\ Tasks \subseteq Nat
    /\ SlotOf \in [Tasks -> Slots]
    /\ MaxHead \in Nat
    /\ None \notin Workers /\ None \notin Tasks /\ None \notin Slots

VARIABLES
    claims,    \* awe_claims
    issued,    \* how many tokens the task was ever issued
    evidence,  \* result_json.evidence_ref of a completed claim
    verdicts,  \* awe_certifications: the last verdict per head and role
    accepted   \* awe_certifications: every ACCEPT row ever appended

ledgerVars == <<claims, issued, evidence, verdicts, accepted>>

Commits == 1..MaxHead
ClaimStates == {"none", "in_progress", "stale_expired", "blocked", "review"}
NoClaim == [state |-> "none", worker |-> None, token |-> 0, live |-> FALSE]

InitLedger ==
    /\ claims = [t \in Tasks |-> NoClaim]
    /\ issued = [t \in Tasks |-> 0]
    /\ evidence = [t \in Tasks |-> 0]
    /\ verdicts = [t \in Tasks |-> [h \in Commits |-> [r \in Roles |-> "none"]]]
    /\ accepted = {}

-----------------------------------------------------------------------------
(* claim.  A worker passes the time its cycle began, so it still counts a   *)
(* lease that ran out since; late is the set of tasks whose lease did.      *)

Settled == {"review", "blocked"}

\* lease_expires_at > now; a settled row's lease is 0.
Leased(t, late) == claims[t].live \/ (t \in late /\ claims[t].state \notin Settled)

\* Another task of the slot has a live claim that is not settled.
Occupied(t, late) ==
    \E u \in Tasks \ {t} :
        /\ SlotOf[u] = SlotOf[t]
        /\ claims[u].state \notin {"none"} \cup Settled
        /\ Leased(u, late)

\* The same worker extends the lease it still has, and keeps its token.
Resumes(t, w, late) ==
    Leased(t, late) /\ claims[t].worker = w /\ claims[t].state # "review"

\* Mutant: an expired claim is taken over without looking at the slot.
FreeOfOwnLease(t, late) == claims[t].state # "review" /\ ~Leased(t, late)

\* Mutant: only the lease decides whether a task may be claimed again.
FreeAgain(t, late) == ~Leased(t, late) /\ ~Occupied(t, late)

\* A task without a row or with an expired lease may be claimed when its slot is
\* free; TASK_ALREADY_COMPLETED, CLAIM_CONFLICT and SLOT_ALREADY_OWNED otherwise.
Free(t, late) ==
    claims[t].state # "review" /\ ~Leased(t, late) /\ ~Occupied(t, late)

ResumeRows(t) ==
    /\ claims' = [claims EXCEPT ![t].live = TRUE]
    /\ UNCHANGED <<issued, evidence, verdicts, accepted>>

GrantRows(t, w) ==
    /\ issued' = [issued EXCEPT ![t] = @ + 1]
    /\ claims' = [claims EXCEPT ![t] = [state |-> "in_progress", worker |-> w,
                                        token |-> issued[t] + 1, live |-> TRUE]]
    /\ UNCHANGED <<evidence, verdicts, accepted>>

\* clean_expired_leases, over every row.
Cleaned ==
    [t \in Tasks |-> IF claims[t].state = "in_progress" /\ ~claims[t].live
                     THEN [claims[t] EXCEPT !.state = "stale_expired"]
                     ELSE claims[t]]

-----------------------------------------------------------------------------
(* complete and block, fenced by the token.                                 *)

\* Mutant: the UPDATE forgets its claim_token predicate.
CloseUnfenced(t, token, new, head) ==
    /\ claims' = [claims EXCEPT ![t].state = new, ![t].live = FALSE]
    /\ evidence' = [evidence EXCEPT ![t] = IF new = "review" THEN head ELSE @]
    /\ UNCHANGED <<issued, verdicts, accepted>>

\* Mutant: the row gets the state its event is logged with.
CloseAsLogged(t, token, new, head) ==
    /\ claims' = [claims EXCEPT ![t].state = IF new = "review" THEN "done" ELSE new,
                                ![t].live = FALSE]
    /\ UNCHANGED <<issued, evidence, verdicts, accepted>>

\* A worker whose token was replaced updates no row and is not told.
Close(t, token, new, head) ==
    /\ IF claims[t].token = token
       THEN /\ claims' = [claims EXCEPT ![t].state = new, ![t].live = FALSE]
            /\ evidence' = [evidence EXCEPT ![t] = IF new = "review" THEN head ELSE @]
       ELSE UNCHANGED <<claims, evidence>>
    /\ UNCHANGED <<issued, verdicts, accepted>>

-----------------------------------------------------------------------------
(* The certification gate (reconciliation.py).                              *)

\* Mutant: a certification counts for the task, whatever head it was bound to.
GateOfAnyHead(t, h) ==
    LET last(r) == {verdicts[t][g][r] : g \in Commits}
    IN  IF \E r \in Roles : last(r) = {"none"} THEN "pending"
        ELSE IF \E r \in Roles : "reject" \in last(r) THEN "reject"
        ELSE "accept"

\* Every required role must have certified exactly this head; one rejection
\* rejects it.
Gate(t, h) ==
    IF \E r \in Roles : verdicts[t][h][r] = "none" THEN "pending"
    ELSE IF \E r \in Roles : verdicts[t][h][r] = "reject" THEN "reject"
    ELSE "accept"

record_certification(t, h, r, v) ==
    /\ verdicts' = [verdicts EXCEPT ![t][h][r] = v]
    /\ accepted' = IF v = "accept" THEN accepted \cup {<<t, h, r>>} ELSE accepted
    /\ UNCHANGED <<claims, issued, evidence>>

=============================================================================
