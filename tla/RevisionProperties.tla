------------------------- MODULE RevisionProperties -------------------------
(* What module Revision is to keep.                                        *)
EXTENDS Revision

(* A revision is built from a candidate the Owner did send back: it came   *)
(* of a mission that kept to its decision boundary, it is sealed, its      *)
(* review was proven healthy, and the return is on record under the        *)
(* revision's own version, whoever repeated the command or died in it.     *)
RevisedWasReturned ==
    \A i \in DOMAIN missions : missions[i].version > 1 =>
        LET v == missions[i].version
            c == package[v]
        IN /\ c \in 1..(i - 1)
           /\ missions[c].state = "completed" /\ missions[c].version < v
           /\ c \in sealed /\ ReviewState(c) = "healthy"
           /\ v \in returned

(* Work is not done twice for one version: what stands beside a mission of *)
(* the same version is its one successor, and the first of them ended      *)
(* unproven and was not reopened (revise, "Other conflicts remain a        *)
(* request defect and stay fail-closed").                                  *)
OnlyUnprovenSucceeded ==
    \A i, j \in DOMAIN missions :
        i < j /\ missions[i].version = missions[j].version =>
            /\ missions[i].attempt = 1 /\ missions[j].attempt = 2
            /\ missions[i].state = "unproven"

LatestCompleted == Latest > 0 /\ missions[Latest].state = "completed"

(* What the Owner may be shown, and decide upon.                           *)
Reviewable(c) == ReviewState(c) \in {"verifying", "healthy"}

(* The ends of a deployment that no cycle gets over: a death in the middle *)
(* of it, an answer nobody understood, the last failure, and a record made *)
(* of an attempt under way that then failed, which no later one replaces.  *)
Stranded(c) ==
    \E n \in Attempts : ledger[c][n] = "deploying"
                         /\ \A p \in Procs : ~(At(p, "publish") /\ proc[p].rc = c)
Unclear(c) == \E n \in Attempts : ledger[c][n] = "uncertain"
GivenUp(c) == \A n \in Attempts : ledger[c][n] = "failed"
Misnamed(c) == record[c].says = "deploying" /\ ReviewState(c) = "failed"

(* While the Factory runs, a finished candidate comes to be reviewable     *)
(* without a command of the Owner, though a slot of the portfolio wants    *)
(* attention or all of them have settled (cycle, "Envelope REVIEW is       *)
(* already-admitted product work").  The exceptions are the four ends of   *)
(* its deployment above, which are an operator's to put right, and a       *)
(* service that is barred for good or again and again: every cycle that    *)
(* ends early (the Bridge, the capacity, a refused project of the          *)
(* supervisor's) leaves the review undone.                                 *)
CompletedIsReviewed ==
    <>[]~barred =>
        ((running /\ LatestCompleted)
            ~> (LatestCompleted => \/ Reviewable(Latest)
                                   \/ Stranded(Latest) \/ Unclear(Latest)
                                   \/ GivenUp(Latest) \/ Misnamed(Latest)
                                   \/ ~running))
=============================================================================
