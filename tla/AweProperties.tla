--------------------------- MODULE AweProperties ---------------------------
(***************************************************************************)
(* What the AWE ledger, its workers and the exchange owe each other.       *)
(***************************************************************************)
EXTENDS AweWorker

Claims == [state : ClaimStates, worker : Workers \cup {None}, token : Nat, live : BOOLEAN]
Pointers == [task : Tasks \cup {None}, lifecycle : Status \cup {"none"}]

\* Ledger, exchange and workers have their types.
AweTypeOK ==
    /\ claims \in [Tasks -> Claims]
    /\ issued \in [Tasks -> Nat]
    /\ evidence \in [Tasks -> 0..MaxHead]
    /\ verdicts \in [Tasks -> [Commits -> [Roles -> {"none", "accept", "reject"}]]]
    /\ accepted \in SUBSET (Tasks \X Commits \X Roles)
    /\ folder \in [Tasks -> Status] /\ board \in [Tasks -> Status]
    /\ current \in [Tasks -> BOOLEAN] /\ needsOwner \in [Tasks -> BOOLEAN]
    /\ note \in [Tasks -> Workers \cup {None}]
    /\ pointer \in [Slots -> Pointers]
    /\ head \in [Tasks -> 0..MaxHead]
    /\ job \in [Workers -> Job]
    /\ faults \in Nat /\ stalled \in BOOLEAN

-----------------------------------------------------------------------------
(* The ledger.                                                              *)

Live(t) == claims[t].state \in {"in_progress", "stale_expired"} /\ claims[t].live

\* However many workers race and however leases run out, one slot never has two
\* live claims: "one live task per exact slot" (ledger.py claim).  A cycle passes
\* the time it began to claim, and may extend a lease whose slot went to another
\* task since.
SlotExclusive ==
    \A t, u \in Tasks : t # u /\ SlotOf[t] = SlotOf[u] => ~(Live(t) /\ Live(u))

\* The same, as long as no lease ran out during a cycle on its task.
SlotHeldOnce == ~stalled => SlotExclusive

\* A claim is settled only by the worker it belongs to: one that comes back after
\* its lease was taken over settles nothing (complete, block).
ClosedByHolder ==
    [][\A t \in Tasks :
          claims'[t].state \in {"review", "blocked"} /\ claims[t].state # claims'[t].state =>
              \E w \in Workers : /\ ~At(w, "idle") /\ Task(w) = t
                                /\ job[w].token = claims[t].token
                                /\ claims[t].worker = w]_vars

\* The ledger never reopens a task it recorded as completed, whatever token is
\* still held on it (TASK_ALREADY_COMPLETED).
ReviewIsFinal == [][\A t \in Tasks : claims[t].state = "review" => claims'[t] = claims[t]]_vars

\* A completed claim names a head that every required role accepted, that very
\* head, although the branch moves on and certifiers work while the cycle runs.
ReviewIsCertified ==
    \A t \in Tasks : claims[t].state = "review" =>
        \A r \in Roles : <<t, evidence[t], r>> \in accepted

-----------------------------------------------------------------------------
(* Ledger and exchange.                                                     *)

\* As long as no lease ran out during a cycle on its task, no worker takes a reviewed
\* task back to work, whatever calls failed and whichever workers died: the fence
\* of the ledger also guards the unconditional page moves.
ReviewedStays ==
    [][\A t \in Tasks : ~stalled /\ folder[t] = "Review" =>
          folder'[t] \notin {"Queue", "In Progress"}]_vars

=============================================================================
