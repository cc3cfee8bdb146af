------------------------- MODULE ReleaseProperties -------------------------
(* What the Owner's release path promises. *)
EXTENDS Release

\* The Owner decides about bytes the review environment has served: health typed
\* by an operator, a late answer or a repair of the ledger never make up for a
\* surface nobody has seen (_review_state, record_owner_validation).
ValidatedWasServed ==
    \A v \in Grants : val[v] # NoVal => <<val[v].env, sealed[val[v].rc]>> \in shown

\* A deployment a validation approved holds the bytes that were validated, and the
\* one who validated is not the one who asked for it (promote_validated, approve).
PromotesWhatWasValidated ==
    \A d \in Rows : dep[d].grant # None =>
        /\ val[dep[d].grant].verdict = "VALIDATED"
        /\ sealed[val[dep[d].grant].rc] = dep[d].bundle
        /\ dep[d].approver = val[dep[d].grant].by
        /\ dep[d].approver # dep[d].requester

\* A promotion enters the ledger only while the exact review it rests on is
\* healthy, whatever was observed since the promotion began (still_healthy).
AdmittedOnHealthyReview ==
    [][admitted' # admitted =>
          \A c \in Callers : flow[c].val # None /\ flow'[c].dep = admitted' =>
              ReviewHealthy(val[flow[c].val].rc, val[flow[c].val].env)]_vars
=============================================================================
