----------------------- MODULE ControllerProperties -----------------------
(***************************************************************************)
(* What the mission ledger and the Controller owe each other: the          *)
(* properties checked on module Controller.                                *)
(***************************************************************************)
EXTENDS Controller

\* The rows have their types.
StoreTypeOK ==
    /\ state \in [Missions -> States]
    /\ lease \in [Missions -> Nat]
    /\ expired \in [Missions -> BOOLEAN]
    /\ serial \in [Missions -> Nat]
    /\ attempts \in [Missions -> Nat]
    /\ deferrals \in [Missions -> Nat]
    /\ cancelRequested \in [Missions -> BOOLEAN]
    /\ steps \in [Missions -> [StepNames -> StepStatus]]
    /\ routed \in [Missions -> Profiles \cup {None}]
    /\ freeLeg \in [Missions -> BOOLEAN]
    /\ keptLeg \in [Missions -> BOOLEAN]
    /\ servedBy \in [Missions -> Profiles \cup {None}]
    /\ bound \in [Missions -> BOOLEAN]
    /\ proof \in [Missions -> BOOLEAN]
    /\ edges \in SUBSET Edge

\* The rows and the workers have their types.
TypeOK ==
    /\ StoreTypeOK
    /\ job \in [Workers -> Job]
    /\ processes \in [Missions -> Nat]
    /\ faults \in Nat

-----------------------------------------------------------------------------
(* Leases.                                                                  *)

\* Two workers never both pass the fence of one mission, however often its lease
\* expired, was recovered and was granted again (claim, transition, begin_step).
OneHolder ==
    \A v, w \in Workers :
        /\ v # w
        /\ ~At(v, "idle") /\ ~At(w, "idle")
        /\ Mission(v) = Mission(w)
        => ~(Holds(v) /\ Holds(w))

\* A lease that has not expired is given up only by its holder leaving work_once;
\* no poll, cancellation or failure of another mission takes it away.
GivenUp ==
    \A m \in Missions :
        lease[m] # 0 /\ ~expired[m] /\ lease'[m] # lease[m] =>
            \E w \in Workers : /\ ~At(w, "idle") /\ Mission(w) = m /\ Holds(w)
                              /\ job'[w] = Idle
LeaseNotStolen == [][GivenUp]_vars

-----------------------------------------------------------------------------
(* Durable progress.                                                        *)

\* A COMPLETED step row is historical truth: no restart, replay or stale worker
\* rewrites what it recorded.
KeptMemo ==
    \A m \in Missions, s \in StepNames :
        steps[m][s] \in Outputs => steps'[m][s] = steps[m][s]
MemoStable == [][KeptMemo]_vars

\* Past the dispatch boundary a mission only moves forward or stops: an expired
\* lease, a retry or a deferral never sends it back to a fresh selection.
Rank(s) == CASE s = "dispatched" -> 1 [] s = "candidate_verified" -> 2
             [] s = "evaluated" -> 3 [] s = "evidence_sealed" -> 4 [] OTHER -> 5
NeverBackward ==
    [][\A m \in Missions : state[m] \in RECOVERABLE =>
          /\ state'[m] \notin {"admitted", "dispatching", "absent"}
          /\ Rank(state'[m]) >= Rank(state[m])]_vars

\* Whatever crashes and resumes lie behind it, a completed mission has a recorded
\* candidate that was verified, passed its gates and has accepted evidence.
CompletedIsProven ==
    \A m \in Missions : state[m] = "completed" =>
        /\ \E s \in DISPATCH_STEP_NAMES : steps[m][s] = "ok"
        /\ steps[m]["verify"] = "ok"
        /\ steps[m]["evaluate"] = "ok"
        /\ steps[m]["evidence"] = "ok"

-----------------------------------------------------------------------------
(* The side-effect boundary.                                                *)

\* The work of one mission runs in at most one provider process (README, "The
\* side-effect boundary").
OneProcess == \A m \in Missions : processes[m] <= 1

\* The part of it the code keeps: a second process needs an earlier leg that
\* proved nothing ran.
OneProcessPerProof == \A m \in Missions : processes[m] <= 1 \/ freeLeg[m]

-----------------------------------------------------------------------------
(* The dependency graph.                                                    *)

\* No sequence of declarations, in whatever order and between whatever steps,
\* makes a mission wait for itself (add_dependency).
Acyclic ==
    \A m, d \in Missions :
        (\E e \in edges : e.of = m /\ e.on = d) => ~Reaches(edges, d, m)

\* An edge is released exactly when its prerequisite completed, whether the edge
\* or the completion came first (add_dependency, _release_dependencies_locked).
ReleasedIffCompleted == \A e \in edges : e.released <=> state[e.on] = "completed"

\* When no lease is held and the scheduler has nothing to hand out, an admitted
\* mission is waiting, along edges that still count, for one that stopped short of
\* completion or whose cancellation is pending: nothing stalls without a cause on
\* record (add_dependency, dependency_reading, _schedule_locked together).
Quiet == \A m \in Missions : lease[m] = 0 /\ ~Schedulable(m)
Stopped(d) == Failed(d) \/ state[d] = "escalated" \/ cancelRequested[d]
Waits == {e \in edges : ~(e.on_failure = "ignore" /\ Failed(e.on))}
NoSilentStall ==
    Quiet => \A m \in Missions : state[m] = "admitted" =>
                \E d \in Missions : Reaches(Waits, m, d) /\ Stopped(d)

-----------------------------------------------------------------------------
(* Progress.                                                                *)

\* Settled: no Controller will move the mission any more without its operator.
Settled(m) == state[m] \in TERMINAL \cup {"escalated"}

\* Deferred once more than the bound admits: the layer was out of capacity every
\* time, and the code would send the mission back for the next reset.
DeferredAgain(m) == \E w \in Workers : Mission(w) = m /\ PastBound(w)

\* An admitted mission is settled in the end although a Controller may die at any
\* point, unless the capacity it needs is refused again and again: each deferral
\* brings it back to admission (engine.py:499-505, store.defer), without limit.
\* So nothing but capacity can keep a mission from being settled: no answer that
\* is lost, unproven or unavailable, and no worker that dies.
EventuallySettled ==
    \A m \in Missions : state[m] = "admitted" ~> Settled(m) \/ DeferredAgain(m)

=============================================================================
