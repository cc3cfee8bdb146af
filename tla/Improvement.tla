---------------------------- MODULE Improvement ----------------------------
(***************************************************************************)
(* The improvement plane (improvement.py) of one project: experiments of   *)
(* an objective, generation after generation.                              *)
(*                                                                         *)
(* Every verb but the admission reads the experiment, decides, and writes  *)
(* in a later transaction, most often "where disposition is null" and      *)
(* asking nothing else again.  "desk" is what somebody decided and has not *)
(* written yet; several of them work on one experiment at once.            *)
(*                                                                         *)
(* One objective has one experiment of each generation (UNIQUE), so a row  *)
(* is found by the two.  The column "state" is left out: it repeats the    *)
(* other columns and nothing decides on it.  So are the names of producer  *)
(* and evaluator, who differ: there is always another name.                *)
(***************************************************************************)
EXTENDS Naturals, FiniteSets

CONSTANTS Objectives, SelfTargets,
          Shas, Operators, None,
          Readings,       \* what a metric may turn out to be
          Dispositions,   \* what a close may say
          Ceiling,        \* generation_ceiling
          Budget,         \* experiment_budget
          Concurrency,    \* concurrent_experiments
          MaxRevisions    \* bound: policies and objectives written

VARIABLES policy,         \* improvement_policies
          objectives,     \* objectives
          experiments,    \* experiments, by objective and generation
          missions,       \* experiments a mission was submitted for
          desk,
          shown,          \* history: experiments once recorded as improved
          revisions

vars == <<policy, objectives, experiments, missions, desk, shown, revisions>>

ASSUME ImprovementAssumption ==
    /\ SelfTargets \subseteq Objectives
    /\ None \notin Shas
    /\ Readings \subseteq {"improved", "not_improved", "regressed", "not_measurable"}
    /\ Dispositions \subseteq {"accepted", "rejected", "abandoned", "superseded"}
    /\ {Ceiling, Budget, Concurrency, MaxRevisions} \subseteq Nat

Generations == 1..Ceiling
Verdicts == {"improved", "not_improved", "regressed", "not_measurable"}

(* A policy and an objective are known by their digests.                   *)
Policies == [enabled : BOOLEAN, version : 0..MaxRevisions]

Row == [known : BOOLEAN, policy : Policies, digest : 0..MaxRevisions,
        baseline : Shas \union {None}, measured : BOOLEAN, mission : BOOLEAN,
        candidate : Shas \union {None}, verdict : Verdicts \union {None},
        promotion : SUBSET {"staged", "reverted"},
        disposition : Dispositions \union {None}]

NoRow == [known |-> FALSE, policy |-> [enabled |-> FALSE, version |-> 0], digest |-> 0,
          baseline |-> None, measured |-> FALSE, mission |-> FALSE,
          candidate |-> None, verdict |-> None,
          promotion |-> {}, disposition |-> None]

Verbs == {"open", "baseline", "submit", "bind", "seal", "evaluate", "stage", "close"}

ASSUME NoneAssumption ==
    None \notin Verbs \union Verdicts \union Dispositions \union {"accepted"}

Idle == [verb |-> None, objective |-> None, generation |-> 0, sha |-> None, word |-> None]

Init ==
    /\ policy = [enabled |-> TRUE, version |-> 0]
    /\ objectives = [o \in Objectives |-> [digest |-> 0, active |-> TRUE]]
    /\ experiments = [o \in Objectives |-> [g \in Generations |-> NoRow]]
    /\ missions = {}
    /\ desk = [p \in Operators |-> Idle]
    /\ shown = {}
    /\ revisions = 0

-----------------------------------------------------------------------------
(* The Owner.                                                              *)

(* set_policy, set_enabled: the version need not move with the content.    *)
SetPolicy(new) ==
    /\ revisions < MaxRevisions /\ revisions' = revisions + 1
    /\ new.version \in {policy.version, revisions + 1}
    /\ new # policy
    /\ policy' = new
    /\ UNCHANGED <<objectives, experiments, missions, desk, shown>>

(* register_objective: a revision moves the digest.                        *)
RegisterObjective(o) ==
    /\ revisions < MaxRevisions /\ revisions' = revisions + 1
    /\ objectives' = [objectives EXCEPT ![o].digest = revisions + 1]
    /\ UNCHANGED <<policy, experiments, missions, desk, shown>>

RetireObjective(o) ==
    /\ revisions < MaxRevisions /\ revisions' = revisions + 1
    /\ objectives[o].active
    /\ objectives' = [objectives EXCEPT ![o].active = FALSE]
    /\ UNCHANGED <<policy, experiments, missions, desk, shown>>

-----------------------------------------------------------------------------
(* Admission.                                                              *)

Exp(o, g) == experiments[o][g]
OpenExp(o, g) == Exp(o, g).known /\ Exp(o, g).disposition = None

Rows(P(_, _)) == {x \in Objectives \X Generations : P(x[1], x[2])}

(* _admission: every bound, in the transaction that writes.  The evidence  *)
(* behind the trigger, the stop and the cooldown are left open.            *)
Admissible(o, g) ==
    LET Spent(q, h) == Exp(q, h).known /\ Exp(q, h).policy.version = policy.version
    IN /\ objectives[o].active
       /\ policy.enabled
       /\ Cardinality(Rows(Spent)) < Budget
       /\ Cardinality(Rows(OpenExp)) < Concurrency
       /\ g <= Ceiling

AdmittedUnderAnotherDigest(o, g, sha) ==
    [experiments EXCEPT ![o][g] =
        [NoRow EXCEPT !.known = TRUE, !.policy = policy, !.digest = objectives[o].digest + 1,
                      !.baseline = sha]]

Admitted(o, g, sha) ==
    [experiments EXCEPT ![o][g] =
        [NoRow EXCEPT !.known = TRUE, !.policy = policy, !.digest = objectives[o].digest,
                      !.baseline = sha]]

(* admit_experiment: generation 1.                                         *)
AdmitExperiment(o, sha) ==
    /\ ~Exp(o, 1).known
    /\ Admissible(o, 1)
    /\ experiments' = Admitted(o, 1, sha)
    /\ UNCHANGED <<policy, objectives, missions, desk, shown, revisions>>

ContinuesUnaccepted(o, g, sha) ==
    /\ Exp(o, g).known
    /\ Exp(o, g).policy = policy
    /\ \A h \in Generations : ~OpenExp(o, h) \/ h = g
    /\ sha # Exp(o, g).baseline
    /\ Exp(o, g).candidate # None => sha = Exp(o, g).candidate

(* open_generation, what it asks before the admission.                     *)
Continues(o, g, sha) ==
    /\ Exp(o, g).disposition = "accepted"
    /\ Exp(o, g).policy = policy
    /\ \A h \in Generations : ~OpenExp(o, h)
    /\ sha # Exp(o, g).baseline
    /\ Exp(o, g).candidate # None => sha = Exp(o, g).candidate

-----------------------------------------------------------------------------
(* The verbs: read and decide ...                                          *)

Takes(p, o, g, verb, sha, word) ==
    /\ desk[p].verb = None
    /\ desk' = [desk EXCEPT ![p] = [verb |-> verb, objective |-> o, generation |-> g,
                                    sha |-> sha, word |-> word]]
    /\ UNCHANGED <<policy, objectives, experiments, missions, shown, revisions>>

OpenGeneration(p, o, g) ==
    /\ g + 1 \in Generations
    /\ \E sha \in Shas :
         Continues(o, g, sha) /\ Takes(p, o, g, "open", sha, None)

RecordBaseline(p, o, g) ==
    /\ OpenExp(o, g)
    /\ ~Exp(o, g).measured /\ ~Exp(o, g).mission
    /\ Takes(p, o, g, "baseline", None, None)

CreateMission(p, o, g) ==
    /\ OpenExp(o, g)
    /\ Exp(o, g).measured /\ ~Exp(o, g).mission
    /\ Takes(p, o, g, "submit", None, None)

(* seal_candidate: of whatever mission it is handed; the mission's gates   *)
(* passed and its change set touches no protected surface.                 *)
SealCandidate(p, o, g) ==
    /\ OpenExp(o, g)
    /\ Exp(o, g).candidate = None
    /\ missions # {}
    /\ \E sha \in Shas : Takes(p, o, g, "seal", sha, None)

(* compare: of what went wrong among the metrics, the worst decides.       *)
Compare(readings) ==
    IF "regressed" \in readings THEN "regressed"
    ELSE IF "not_measurable" \in readings THEN "not_measurable"
    ELSE IF "not_improved" \in readings THEN "not_improved"
    ELSE "improved"

EvaluateCandidate(p, o, g) ==
    /\ OpenExp(o, g)
    /\ Exp(o, g).candidate # None
    /\ objectives[o].digest = Exp(o, g).digest
    /\ \E readings \in SUBSET Readings :
         Takes(p, o, g, "evaluate", None, Compare(readings))

(* stage_promotion: into an ungated environment of the project.            *)
StagePromotion(p, o, g) ==
    /\ OpenExp(o, g)
    /\ Exp(o, g).verdict = "improved"
    /\ o \notin SelfTargets
    /\ Takes(p, o, g, "stage", None, None)

(* revert decides on what no later write takes back: one step.             *)
Revert(o, g) ==
    /\ Exp(o, g).promotion # {}
    /\ experiments' = [experiments EXCEPT ![o][g].promotion = @ \union {"reverted"}]
    /\ UNCHANGED <<policy, objectives, missions, desk, shown, revisions>>

ClosableBuilt(o, g, disposition) ==
    /\ OpenExp(o, g)
    /\ disposition = "accepted" => Exp(o, g).candidate # None

Closable(o, g, disposition) ==
    /\ OpenExp(o, g)
    /\ disposition = "accepted" => Exp(o, g).verdict = "improved"

CloseExperiment(p, o, g) ==
    \E disposition \in Dispositions :
        /\ Closable(o, g, disposition)
        /\ Takes(p, o, g, "close", None, disposition)

-----------------------------------------------------------------------------
(* ... and write.                                                          *)

(* UPDATE ... WHERE experiment_ref=? AND disposition IS NULL.              *)
WhereOpen(d, row) ==
    IF OpenExp(d.objective, d.generation)
    THEN [experiments EXCEPT ![d.objective][d.generation] = row]
    ELSE experiments

(* UPDATE ... WHERE experiment_ref=?.                                      *)
Anyway(d, row) == [experiments EXCEPT ![d.objective][d.generation] = row]

Target(d) == Exp(d.objective, d.generation)

Written(d) ==
    CASE d.verb = "baseline" -> WhereOpen(d, [Target(d) EXCEPT !.measured = TRUE])
      [] d.verb = "bind" -> WhereOpen(d, [Target(d) EXCEPT !.mission = TRUE])
      [] d.verb = "seal" ->
           WhereOpen(d, [Target(d) EXCEPT !.candidate = d.sha])
      [] d.verb = "evaluate" ->
           WhereOpen(d, [Target(d) EXCEPT !.verdict = d.word])
      [] d.verb = "stage" -> Anyway(d, [Target(d) EXCEPT !.promotion = @ \union {"staged"}])
      [] d.verb = "close" -> Anyway(d, [Target(d) EXCEPT !.disposition = d.word])

Write(p) ==
    LET d == desk[p]
    IN /\ d.verb \in Verbs \ {"open", "submit"}
       /\ experiments' = Written(d)
       /\ desk' = [desk EXCEPT ![p] = Idle]
       /\ shown' = IF d.verb = "evaluate" /\ d.word = "improved"
                      /\ OpenExp(d.objective, d.generation)
                   THEN shown \union {<<d.objective, d.generation>>} ELSE shown
       /\ UNCHANGED <<policy, objectives, missions, revisions>>

(* _admit for a generation its parent leads to: the same one replayed is   *)
(* the same experiment.                                                    *)
AdmitGeneration(p) ==
    LET o == desk[p].objective
        g == desk[p].generation + 1
    IN /\ desk[p].verb = "open"
       /\ Exp(o, g).known \/ Admissible(o, g)
       /\ experiments' = IF Exp(o, g).known THEN experiments
                         ELSE Admitted(o, g, desk[p].sha)
       /\ desk' = [desk EXCEPT ![p] = Idle]
       /\ UNCHANGED <<policy, objectives, missions, shown, revisions>>

(* controller.submit: the key is the experiment's, so a second submission  *)
(* finds the first.                                                        *)
Submit(p) ==
    /\ desk[p].verb = "submit"
    /\ missions' = missions \union {<<desk[p].objective, desk[p].generation>>}
    /\ desk' = [desk EXCEPT ![p].verb = "bind"]
    /\ UNCHANGED <<policy, objectives, experiments, shown, revisions>>

(* A refusal, an exception or a death before the write.                    *)
Drop(p) ==
    /\ desk[p].verb # None
    /\ desk' = [desk EXCEPT ![p] = Idle]
    /\ UNCHANGED <<policy, objectives, experiments, missions, shown, revisions>>

Verb(p, o, g) ==
    \/ OpenGeneration(p, o, g) \/ RecordBaseline(p, o, g) \/ CreateMission(p, o, g)
    \/ SealCandidate(p, o, g) \/ EvaluateCandidate(p, o, g) \/ StagePromotion(p, o, g)
    \/ CloseExperiment(p, o, g)

Next ==
    \/ \E new \in Policies : SetPolicy(new)
    \/ \E o \in Objectives : RegisterObjective(o) \/ RetireObjective(o)
    \/ \E o \in Objectives, sha \in Shas : AdmitExperiment(o, sha)
    \/ \E p \in Operators, o \in Objectives, g \in Generations : Verb(p, o, g)
    \/ \E o \in Objectives, g \in Generations : Revert(o, g)
    \/ \E p \in Operators : Write(p) \/ AdmitGeneration(p) \/ Submit(p) \/ Drop(p)

Spec == Init /\ [][Next]_vars
=============================================================================
