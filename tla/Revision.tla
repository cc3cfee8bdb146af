------------------------------ MODULE Revision ------------------------------
(***************************************************************************)
(* One application of the Owner, from its brief to the review of what was  *)
(* built, and back by revisions (factory.py: brief, product, revise,       *)
(* review, start and the continuations of cycle).  Commands of the Owner   *)
(* and the service are processes of the host: proc is where each is, and   *)
(* any of them may die between two steps.                                  *)
(*                                                                         *)
(* The candidate of a mission is named by the mission's place in missions, *)
(* its release candidate by the candidate.  The package of version v       *)
(* supersedes the candidate package[v]; what is derived from the version   *)
(* alone, the base commit, its ref and the validation id, has no variable. *)
(*                                                                         *)
(* Abstractions.  One application; its packages are the derived ones.  A   *)
(* brief reads and writes its files in one step.  What ends a cycle of the *)
(* service before its review, and a review before it deploys, is the flag  *)
(* barred; any other command may end at any step by Die.  What the hosting *)
(* is asked and answers is module Production's, here without the verbs of  *)
(* the operator who reconciles.  Promotion is one step, and a drain is     *)
(* another: modules Release and Factory have theirs in full.               *)
(***************************************************************************)
EXTENDS Integers, Sequences, FiniteSetsExt

CONSTANTS Owners,      \* commands the Owner may have running
          Service,     \* the installed service: factory cycle
          MaxVersion,  \* bound: versions of the package
          ReviewAttempts, \* deployments deploy_review admits of one candidate
          MaxShifts,   \* bound: shifts
          MaxFaults    \* bound: what befalls a command or the host, see Outside

ASSUME RevisionAssumption ==
    /\ Service \notin Owners
    /\ {MaxVersion, ReviewAttempts, MaxShifts, MaxFaults} \subseteq Nat
    /\ MaxVersion > 0 /\ ReviewAttempts > 0

VARIABLES
    running,   \* a live shift, control "running" and the service loaded
    shift,     \* the number of the last shift: its approval_ref
    portfolio, \* the dogfood portfolio: "open", "attention" or "complete"
    barred,    \* something outside ends a cycle before its review, see Bar
    package,   \* the predecessor of each version the brief derived, 0 for none
    missions,  \* the application's missions, in the order of their admission
    sealed,    \* release_candidates
    ledger,    \* deployments: the state of each attempt at a candidate's review
    record,    \* release_deployments: what it says, of which attempt
    surface,   \* the candidate the review site serves
    returned,  \* versions whose return for changes is in owner_validations
    promoted,  \* candidates with a production deployment
    proc,
    faults

vars == <<running, shift, portfolio, barred, package, missions, sealed, ledger, record,
          surface, returned, promoted, proc, faults>>
hostVars == <<portfolio, barred>>
shiftVars == <<running, shift, hostVars>>
releaseVars == <<sealed, ledger, record, surface, promoted>>

Procs == Owners \union {Service}
Candidates == 1..(2 * MaxVersion - 1)
Attempts == 1..ReviewAttempts

\* How a mission stands.  "violated" completed, but changed the source of its gates;
\* "stale" is what _recoverable_revision_missions reopens, "unproven" a terminal
\* IDEMPOTENCY_KEY_UNPROVEN, "ended" every other end.  The two exclude each other: the
\* code of an unproven key needs a dispatch that was served and echoed no key, and what
\* is reopened had no dispatch, one that was refused unserved, or one that echoed its key.
\* (An unserved refusal that gives no code would be both; it is left out, see README.)
States == {"admitted", "working", "completed", "violated", "stale", "unproven", "ended"}
Terminal == States \ {"admitted", "working"}

Idle == [pc |-> "idle", v |-> 0, attempt |-> 0, shift |-> 0, rc |-> 0, row |-> 0]

NoRecord == [says |-> "none", of |-> 0]

Init ==
    /\ running = FALSE /\ shift = 0 /\ portfolio = "open" /\ barred = FALSE
    /\ package = <<>> /\ missions = <<>>
    /\ sealed = {} /\ promoted = {} /\ returned = {}
    /\ ledger = [c \in Candidates |-> [n \in Attempts |-> "none"]]
    /\ record = [c \in Candidates |-> NoRecord]
    /\ surface = 0 /\ faults = 0
    /\ proc = [p \in Procs |-> Idle]

-----------------------------------------------------------------------------
(* Readings.                                                               *)

\* _product_reading: the latest mission, whatever its version.
Latest == Len(missions)
LatestDone == Latest > 0 /\ missions[Latest].state \in {"completed", "violated"}

\* _brief_revision: a change begins from a finished mission whose candidate is sealed.
Reviewed == LatestDone /\ Latest \in sealed

Of(v, a) == {i \in DOMAIN missions : missions[i].version = v /\ missions[i].attempt = a}

\* _revision_attempt
Attempt(v) == Max({1} \union {missions[i].attempt : i \in {j \in DOMAIN missions : missions[j].version = v}})

Stale == {i \in DOMAIN missions : missions[i].version > 1 /\ missions[i].state = "stale"}

\* _review_lines says "ready at"
Ready(c) == record[c].says = "serving"

\* _review_state: the deployment that is looked up is the one the record names.
Named(c) == record[c].of
ReviewState(c) == IF Named(c) = 0 THEN "none" ELSE ledger[c][Named(c)]

\* decision_boundary: the candidate left the source of its gates alone.
Held(i) == missions[i].state = "completed"

\* _review_deployment: it was prepared for review and is not in production.
Prepared(c) == Named(c) # 0 /\ c \notin promoted

\* _revision_owner_act: the act that returned the predecessor is there, for this version.
Returned(v) == v \in returned

\* _resolve_revision_binding: the return that opened the revision is looked up again.
Resolvable(i) == LET v == missions[i].version IN Returned(v) /\ package[v] \in sealed

\* materialize_package: version 1, of a brief that supersedes nothing.
FirstPackage == <<0>>

\* revision_package: the next version, of the candidate that is there to be looked at.
Derived == Append(package, Latest)

-----------------------------------------------------------------------------
(* Control of the processes.                                               *)

At(p, pc) == proc[p].pc = pc
Goto(p, pc) == proc' = [proc EXCEPT ![p].pc = pc]
End(p) == proc' = [proc EXCEPT ![p] = Idle]

\* The grant is read, and its approval_ref goes into the payload.
Granted(p, v, pc) ==
    proc' = [proc EXCEPT ![p] = [pc |-> pc, v |-> v, attempt |-> 1, shift |-> shift,
                                 rc |-> IF v = 1 THEN 0 ELSE package[v],
                                 row |-> IF v = 1 THEN 0 ELSE Named(package[v])]]

\* Deaths, promotions, answers of the hosting that are not its best, bars and refusals.
Outside == faults < MaxFaults /\ faults' = faults + 1
Free(p) == p \in Owners /\ At(p, "idle")
Rest == UNCHANGED <<shiftVars, missions, releaseVars, returned, faults>>
OnlyProc == Rest /\ UNCHANGED package

-----------------------------------------------------------------------------
(* Briefs.                                                                 *)

Brief(p) ==
    /\ Free(p) /\ package = <<>>
    /\ package' = FirstPackage
    /\ IF running THEN Granted(p, 1, "submit") ELSE End(p)
    /\ Rest

FollowOn(p) ==
    /\ Free(p) /\ package # <<>> /\ Len(package) < MaxVersion
    /\ Reviewed
    /\ package' = Derived
    /\ IF running THEN Goto(p, "revise") ELSE End(p)
    /\ Rest

-----------------------------------------------------------------------------
(* product and revise, of the package as it is written.                    *)

Product(p) ==
    /\ Free(p) /\ Len(package) = 1 /\ running
    /\ Granted(p, 1, "submit")
    /\ OnlyProc

\* The review is looked up, and that the candidate was not promoted; the grant is read.
Revise(p) ==
    /\ Free(p) \/ At(p, "revise")
    /\ Len(package) > 1
    /\ LET v == Len(package) IN
       IF package[v] \in sealed /\ Prepared(package[v]) /\ running
         THEN Granted(p, v, "probe")
         ELSE End(p)
    /\ OnlyProc

\* A review that has settled is left alone.
Probe(p) ==
    /\ At(p, "probe")
    /\ LET c == proc[p].rc IN
       IF ledger[c][proc[p].row] # "verifying" THEN Goto(p, "decide")
       ELSE IF surface = c THEN Goto(p, "health")
       ELSE End(p)
    /\ OnlyProc

Settle(c, n, s) == ledger' = [ledger EXCEPT ![c][n] = s]

RecordHealth(p) ==
    /\ At(p, "health")
    /\ IF ledger[proc[p].rc][proc[p].row] = "verifying"
         THEN Settle(proc[p].rc, proc[p].row, "healthy") /\ Goto(p, "decide")
         ELSE End(p) /\ UNCHANGED ledger
    /\ UNCHANGED <<shiftVars, package, missions, sealed, record, surface, promoted,
                   returned, faults>>

\* Mutant: a review being served is enough.
DecidableUnproven(c) == ReviewState(c) # "none"

\* record_owner_validation
Decidable(c) == ReviewState(c) = "healthy"

Decide(p) ==
    /\ At(p, "decide")
    /\ IF Decidable(proc[p].rc)
         THEN returned' = returned \union {proc[p].v} /\ Goto(p, "attempt")
         ELSE End(p) /\ UNCHANGED returned
    /\ UNCHANGED <<shiftVars, package, missions, releaseVars, faults>>

ReadAttempt(p) ==
    /\ At(p, "attempt")
    /\ proc' = [proc EXCEPT ![p].pc = "submit", ![p].attempt = Attempt(proc[p].v)]
    /\ OnlyProc

Admission(p) == [version |-> proc[p].v, attempt |-> proc[p].attempt,
                 shift |-> proc[p].shift, state |-> "admitted"]

\* Controller.submit, by the key of version and attempt.  The same payload is a repeat;
\* one written under another shift is a ConflictError.
Submit(p) ==
    LET same == Of(proc[p].v, proc[p].attempt)
        conflict == \E i \in same : missions[i].shift # proc[p].shift IN
    /\ proc[p].pc \in {"submit", "again"}
    /\ missions' = IF same = {} THEN Append(missions, Admission(p)) ELSE missions
    /\ IF conflict /\ At(p, "submit") /\ proc[p].v > 1
         THEN Goto(p, "conflict")
         ELSE End(p)
    /\ UNCHANGED <<shiftVars, package, releaseVars, returned, faults>>

\* Mutant: whatever ended, it may be tried again.
RetirableEnded(i) == missions[i].state \in Terminal \ {"completed", "violated"}

Retirable(i) == missions[i].state = "unproven"

\* Only a first attempt that ended unproven has a successor.
Conflict(p) ==
    /\ At(p, "conflict")
    /\ IF proc[p].attempt = 1 /\ \E i \in Of(proc[p].v, 1) : Retirable(i)
         THEN proc' = [proc EXCEPT ![p].pc = "again", ![p].attempt = 2]
         ELSE End(p)
    /\ OnlyProc

-----------------------------------------------------------------------------
(* review, by the Owner's command or at the end of a cycle.                *)

\* Mutant: as before the fast path, attention and a settled portfolio end the cycle.
DueWhileOpen(p) ==
    p \in Owners \/ (running /\ ~barred /\ portfolio = "open" /\ ~Ready(Latest))

\* _continue_fast_path_review: not while there is a review to look at.  Attention on an
\* earlier slot and a complete portfolio both lead on to it.
Due(p) == p \in Owners \/ (running /\ ~barred /\ ~Ready(Latest))

Review(p) ==
    /\ At(p, "idle") /\ LatestDone /\ Due(p)
    /\ Held(Latest)
    /\ proc' = [proc EXCEPT ![p] = [Idle EXCEPT !.pc = "seal", !.rc = Latest]]
    /\ OnlyProc

\* _already_sealed: a second review of the mission finds the candidate as it sealed it.
Sealed(c) == sealed \union {c}

\* The artifact is built and the surface is resolved on the host, which may refuse.
Seal(p) ==
    /\ At(p, "seal")
    /\ \/ sealed' = Sealed(proc[p].rc) /\ Goto(p, "deploy")
       \/ barred /\ End(p) /\ UNCHANGED sealed
    /\ UNCHANGED <<shiftVars, package, missions, ledger, record, surface, promoted,
                   returned, faults>>

\* deploy_review takes the first attempt that has not failed.
Current(c, n) == ledger[c][n] # "failed" /\ \A a \in 1..(n - 1) : ledger[c][a] = "failed"

\* A row that is there is not deployed again: its state is what the record will say.
Found == [deploying |-> "late", uncertain |-> "unclear", verifying |-> "record",
          healthy |-> "record"]

\* Admission and the claim of the operation; REVIEW_DEPLOY_FAILED after the last failure.
Deploy(p) ==
    LET c == proc[p].rc
        Take(n, pc) == proc' = [proc EXCEPT ![p].pc = pc, ![p].row = n] IN
    /\ At(p, "deploy")
    /\ \/ (\A n \in Attempts : ledger[c][n] = "failed") /\ End(p) /\ UNCHANGED ledger
       \/ \E n \in Attempts :
            /\ Current(c, n)
            /\ IF ledger[c][n] = "none"
                 THEN Settle(c, n, "deploying") /\ Take(n, "publish")
                 ELSE UNCHANGED ledger /\ Take(n, Found[ledger[c][n]])
    /\ UNCHANGED <<shiftVars, package, missions, sealed, record, surface, promoted,
                   returned, faults>>

\* production.deploy: the hosting was reached, it was not, or nobody knows, and then the
\* site may serve the candidate or not.
Publish(p) ==
    LET c == proc[p].rc
        n == proc[p].row IN
    /\ At(p, "publish")
    /\ \/ Settle(c, n, "verifying") /\ surface' = c /\ Goto(p, "record") /\ UNCHANGED faults
       \/ Settle(c, n, "failed") /\ UNCHANGED surface /\ Goto(p, "missed") /\ Outside
       \/ Settle(c, n, "uncertain") /\ surface' \in {surface, c} /\ Goto(p, "unclear") /\ Outside
    /\ UNCHANGED <<shiftVars, package, missions, sealed, record, promoted, returned>>

Says == [record |-> "serving", late |-> "deploying", missed |-> "failed", unclear |-> "uncertain"]

\* _record_deployment: a record of a failed or uncertain deployment is replaced.  Any
\* other stays, and a second has to agree with it.
Replaceable(c) == record[c].says \in {"none", "failed", "uncertain"}

Record(p) ==
    /\ proc[p].pc \in DOMAIN Says
    /\ LET c == proc[p].rc IN
       record' = IF Replaceable(c)
                   THEN [record EXCEPT ![c] = [says |-> Says[proc[p].pc], of |-> proc[p].row]]
                   ELSE record
    /\ End(p)
    /\ UNCHANGED <<shiftVars, package, missions, sealed, ledger, surface, promoted,
                   returned, faults>>

\* The Owner probes the review on the command line, validates it and promotes it.
Promote(c) ==
    /\ Prepared(c) /\ Outside
    /\ Decidable(c) \/ (ReviewState(c) = "verifying" /\ surface = c)
    /\ Settle(c, Named(c), "healthy")
    /\ promoted' = promoted \union {c}
    /\ UNCHANGED <<shiftVars, package, missions, sealed, record, surface, returned, proc>>

-----------------------------------------------------------------------------
(* start and stop.                                                         *)

\* _resume_revision_missions: the one stopped revision, or a refusal.
Start(p) ==
    /\ Free(p) /\ Cardinality(Stale) <= 1 /\ \A i \in Stale : Resolvable(i)
    /\ missions' = [i \in DOMAIN missions |->
                      IF i \in Stale THEN [missions[i] EXCEPT !.state = "admitted"]
                      ELSE missions[i]]
    /\ Goto(p, "open")
    /\ UNCHANGED <<shiftVars, package, releaseVars, returned, faults>>

\* A shift that is live is taken up; otherwise the next one is granted.
Open(p) ==
    /\ At(p, "open") /\ (running \/ shift < MaxShifts)
    /\ shift' = IF running THEN shift ELSE shift + 1
    /\ running' = TRUE
    /\ Goto(p, "continue")
    /\ UNCHANGED <<hostVars, package, missions, releaseVars, returned, faults>>

\* _continue_fast_path_waiting_brief: only where no mission was admitted before.
WaitingBrief(p) ==
    /\ At(p, "continue")
    /\ IF package # <<>> /\ missions = <<>> /\ running
         THEN Granted(p, 1, "submit")
         ELSE End(p)
    /\ OnlyProc

Stop ==
    /\ running /\ \A i \in DOMAIN missions : missions[i].state # "working"
    /\ running' = FALSE
    /\ UNCHANGED <<shift, hostVars, package, missions, releaseVars, returned,
                   proc, faults>>

-----------------------------------------------------------------------------
(* The service and the host.                                               *)

SetState(i, s) ==
    /\ missions' = [missions EXCEPT ![i].state = s]
    /\ UNCHANGED <<shiftVars, package, releaseVars, returned, proc, faults>>

\* cycle ends before the supervisor's once the portfolio is complete.
Work(i) ==
    /\ running /\ portfolio # "complete" /\ missions[i].state = "admitted"
    /\ SetState(i, "working")

Finish(i, s) ==
    /\ missions[i].state = "working"
    /\ s \in Terminal /\ (s = "stale" => missions[i].version > 1)
    /\ SetState(i, s)

\* A slot of the portfolio is refused; the Owner puts it right; the last one settles.
Portfolio ==
    /\ \/ portfolio = "open" /\ portfolio' = "attention" /\ Outside
       \/ portfolio = "attention" /\ portfolio' = "open" /\ UNCHANGED faults
       \/ portfolio = "open" /\ portfolio' = "complete" /\ UNCHANGED faults
    /\ UNCHANGED <<running, shift, barred, package, missions, releaseVars, returned, proc>>

\* A cycle ends before the review while the Bridge is unhealthy, the capacity cannot be
\* read, a hand-off is refused, or the supervisor fails or refuses any project of its
\* own; and the review ends while the host cannot build or place the artifact.
Bar ==
    /\ barred' = ~barred
    /\ barred \/ Outside
    /\ barred => UNCHANGED faults
    /\ UNCHANGED <<running, shift, portfolio, package, missions, releaseVars, returned, proc>>

Die(p) ==
    /\ ~At(p, "idle") /\ Outside
    /\ End(p)
    /\ UNCHANGED <<shiftVars, package, missions, releaseVars, returned>>

-----------------------------------------------------------------------------

\* What a command does without being told to go on.
Goes(p) ==
    \/ Revise(p) /\ At(p, "revise")
    \/ Probe(p) \/ RecordHealth(p) \/ Decide(p) \/ ReadAttempt(p)
    \/ Submit(p) \/ Conflict(p)
    \/ Seal(p) \/ Deploy(p) \/ Publish(p) \/ Record(p)
    \/ Open(p) \/ WaitingBrief(p)

Next ==
    \/ \E p \in Owners : Brief(p) \/ FollowOn(p) \/ Product(p) \/ Revise(p) \/ Start(p)
    \/ \E p \in Procs : Review(p) \/ Goes(p) \/ Die(p)
    \/ \E c \in Candidates : Promote(c)
    \/ \E i \in DOMAIN missions : Work(i) \/ \E s \in States : Finish(i, s)
    \/ Stop \/ Portfolio \/ Bar

Spec == Init /\ [][Next]_vars

\* A process that lives goes on, and the loader starts a cycle again and again; one that
\* is barred owes nothing.  Nobody has to give a command, and no mission has to be worked.
Fairness ==
    /\ \A p \in Procs : WF_proc(Goes(p))
    /\ WF_proc(Review(Service))

LiveSpec == Spec /\ Fairness
=============================================================================
