-------------------------- MODULE SupervisorProofs --------------------------
(***************************************************************************)
(* For any callers, projects and bounds: the supervisor and the            *)
(* maintenance plane keep their types, the rows of supervisor_cycles       *)
(* implement CycleLedger, and a project's failures are bounded.            *)
(*                                                                         *)
(* The refinement rests on one fact of the typing: an invocation that is   *)
(* not away names a row of the table.  The rows change in four ways (a     *)
(* claim, a close, a renewal, a lease that ends); the first two are steps  *)
(* of the ledger, the others stutter.  The bound counts who may yet add a  *)
(* failure: the cycle that is open, and those whose lease was lost.        *)
(***************************************************************************)
EXTENDS SupervisorProperties, SequenceTheorems, FiniteSetTheorems, TLAPS

CycleRow == [outcome : {"open"} \union Outcomes \union RecoveryOutcomes,
             live : BOOLEAN]

Places == {"away", "close", "recover", "scope", "promote", "submit", "bind", "work",
           "health", "read", "record"}

Held == [at : Places, cycle : Nat, control : ControlStates, scope : SUBSET Projects,
         queue : SUBSET Projects, due : SUBSET Triggers, promoted : Nat,
         left : 0..PerCycle, item : Missions \union {None}, state : MissionStates,
         class : Classifications, seen : RepairStates]

(* What an invocation w holds, when n cycles were claimed.                 *)
Sound(w, n) ==
    /\ w \in Held
    /\ w.cycle \in 0..n
    /\ w.at = "away" <=> w.cycle = 0
    /\ w.queue \subseteq w.scope
    /\ w.at = "work" => w.left > 0
    /\ w.at = "read" => w.item \in Triggers

OwnerInv ==
    /\ control \in ControlStates
    /\ halting \in [Owners -> {None, "engage", "release"}]
    /\ open \in [Projects -> BOOLEAN]
    /\ moves \in 0..MaxMoves

HealthInv == health \in [Projects -> [failures : Nat, suppressed : BOOLEAN,
                                      escalated : BOOLEAN]]

WorkInv ==
    /\ DOMAIN worker = Callers /\ worker = [c \in Callers |-> worker[c]]
    /\ \A c \in Callers : Sound(worker[c], Len(cycles))

CyclesInv == cycles \in Seq(CycleRow)

TInv == /\ MaintenanceTypeOK /\ OwnerInv /\ HealthInv /\ WorkInv /\ CyclesInv
        /\ faults \in 0..MaxFaults

-----------------------------------------------------------------------------
(* Sequences.                                                              *)

LEMMA RowsAre ==
    ASSUME NEW s \in Seq(CycleRow)
    PROVE  /\ Len(s) \in Nat /\ DOMAIN s = 1..Len(s)
           /\ \A i \in DOMAIN s : s[i] \in CycleRow
  BY LenProperties, ElementOfSeq

(* One row is replaced.                                                    *)
LEMMA PutRow ==
    ASSUME CyclesInv, NEW i \in DOMAIN cycles, NEW row \in CycleRow,
           cycles' = [cycles EXCEPT ![i] = row]
    PROVE  /\ CyclesInv' /\ Len(cycles') = Len(cycles)
           /\ DOMAIN cycles' = DOMAIN cycles
           /\ \A j \in DOMAIN cycles : cycles'[j] = IF j = i THEN row ELSE cycles[j]
  <1>1. cycles' \in Seq(CycleRow) /\ Len(cycles') = Len(cycles)
    BY ExceptSeq, RowsAre DEF CyclesInv
  <1> QED BY <1>1, RowsAre DEF CyclesInv

-----------------------------------------------------------------------------
(* Somebody moves from one place of the cycle to the next.                 *)
LEMMA Moved ==
    ASSUME WorkInv, CyclesInv, CyclesInv', Len(cycles) <= Len(cycles'),
           NEW c \in Callers, NEW w, Sound(w, Len(cycles')),
           worker' = [worker EXCEPT ![c] = w]
    PROVE  WorkInv'
  <1>1. Len(cycles) \in Nat /\ Len(cycles') \in Nat
    BY RowsAre DEF CyclesInv
  <1>2. \A d \in Callers : worker'[d] = IF d = c THEN w ELSE worker[d]
    BY DEF WorkInv
  <1>3. ASSUME NEW d \in Callers PROVE Sound(worker[d], Len(cycles'))
    BY <1>1 DEF WorkInv, Sound
  <1>4. \A d \in Callers : Sound(worker'[d], Len(cycles'))
    BY <1>2, <1>3
  <1>5. DOMAIN worker' = Callers /\ worker' = [d \in Callers |-> worker'[d]]
    BY DEF WorkInv
  <1> QED BY <1>4, <1>5 DEF WorkInv

LEMMA AwayIsSound ==
    ASSUME NEW n \in Nat
    PROVE  Sound(Away, n)
  BY SupervisorAssumption
  DEF Away, Sound, Held, Places, ControlStates, MissionStates, Classifications,
      RepairStates

(* The common case: the table stays, one invocation moves.                 *)
LEMMA MovedOver ==
    ASSUME TInv, NEW c \in Callers, NEW w, Sound(w, Len(cycles)),
           worker' = [worker EXCEPT ![c] = w], UNCHANGED cycles
    PROVE  WorkInv' /\ CyclesInv'
  <1>1. CyclesInv' /\ Len(cycles') = Len(cycles) /\ Len(cycles) \in Nat
    BY RowsAre DEF TInv, CyclesInv
  <1>2. Sound(w, Len(cycles')) /\ Len(cycles) <= Len(cycles')
    BY <1>1
  <1>3. WorkInv /\ CyclesInv
    BY DEF TInv
  <1>4. WorkInv'
    BY <1>1, <1>2, <1>3, Moved
  <1> QED BY <1>1, <1>4

(* What is not the invocation's own.                                       *)
LEMMA Elsewhere ==
    ASSUME TInv
    PROVE  /\ UNCHANGED maintenanceVars => MaintenanceTypeOK'
           /\ UNCHANGED ownerVars => OwnerInv'
           /\ UNCHANGED health => HealthInv'
           /\ UNCHANGED <<worker, cycles>> => WorkInv' /\ CyclesInv'
  <1>1. UNCHANGED maintenanceVars => MaintenanceTypeOK'
    BY DEF TInv, maintenanceVars, MaintenanceTypeOK
  <1>2. UNCHANGED ownerVars => OwnerInv'
    BY DEF TInv, ownerVars, OwnerInv
  <1>3. UNCHANGED health => HealthInv'
    BY DEF TInv, HealthInv
  <1>4. UNCHANGED <<worker, cycles>> => WorkInv' /\ CyclesInv'
    BY DEF TInv, WorkInv, CyclesInv
  <1> QED BY <1>1, <1>2, <1>3, <1>4

(* Missions written by an invocation.                                      *)
MissionRow == [state : MissionStates, lease : Leases]

LEMMA MissionsWritten ==
    ASSUME MaintenanceTypeOK, missions' \in [Missions -> MissionRow],
           UNCHANGED <<repairs, projectState, portfolioStop, desk>>
    PROVE  MaintenanceTypeOK'
  BY DEF MaintenanceTypeOK, MissionRow

RepairRow == [state : RepairStates, disposition : Dispositions \union {None},
              mission : BOOLEAN, passed : BOOLEAN]

LEMMA RepairsWritten ==
    ASSUME MaintenanceTypeOK, repairs' \in [Triggers -> RepairRow],
           UNCHANGED <<missions, projectState, portfolioStop, desk>>
    PROVE  MaintenanceTypeOK'
  BY DEF MaintenanceTypeOK, RepairRow

-----------------------------------------------------------------------------
(* Steps of a cycle that leave the missions, the repairs and the table.    *)

LEMMA QuietSteps ==
    ASSUME TInv, NEW c \in Callers,
           \/ ReadScope(c)
           \/ \E p \in Projects : PromoteProject(c, p)
           \/ \E r \in Triggers : Promote(c, r)
           \/ EndAdvance(c) \/ ReadRepair(c)
    PROVE  TInv'
  <1>0. Sound(worker[c], Len(cycles)) /\ Len(cycles) \in Nat
    BY RowsAre DEF TInv, WorkInv, CyclesInv
  <1>1. CASE ReadScope(c)
    <2>1. PICK scope \in SUBSET Projects, queue \in SUBSET Projects, left \in 0..PerCycle :
            /\ queue \subseteq scope
            /\ worker' = [worker EXCEPT ![c] = [worker[c] EXCEPT
                 !.scope = scope, !.queue = queue, !.left = left, !.at = "promote"]]
      <3>1. Budget(c, {p \in Projects : Eligible(p)}) \in 0..PerCycle
        BY SupervisorAssumption DEF Budget
      <3> DEFINE scope == {p \in Projects : Eligible(p)}
                 left == Budget(c, scope)
                 queue == IF worker[c].control = "running" /\ Uncertain = {}
                          THEN scope ELSE {}
      <3>2. worker' = [worker EXCEPT ![c] = [worker[c] EXCEPT
                 !.scope = scope, !.queue = queue, !.left = left, !.at = "promote"]]
        BY <1>1 DEF ReadScope
      <3>3. scope \in SUBSET Projects /\ queue \in SUBSET Projects /\ queue \subseteq scope
        OBVIOUS
      <3> HIDE DEF scope, queue, left
      <3>4. left \in 0..PerCycle
        BY <3>1 DEF left, scope
      <3> QED BY <3>2, <3>3, <3>4
    <2>2. worker[c].at = "scope"
      BY <1>1 DEF ReadScope
    <2>3. Sound([worker[c] EXCEPT !.scope = scope, !.queue = queue, !.left = left,
                                  !.at = "promote"], Len(cycles))
      BY <1>0, <2>1, <2>2 DEF Sound, Held, Places
    <2> QED
      BY <1>1, <2>1, <2>3, MovedOver, Elsewhere DEF ReadScope, TInv
  <1>2. ASSUME NEW p \in Projects, PromoteProject(c, p) PROVE TInv'
    <2> DEFINE due == {r \in Triggers : /\ ProjectOf[r] = p /\ OpenRepair(r)
                                        /\ repairs[r].state = "admitted"
                                        /\ ~repairs[r].mission}
               w == [worker[c] EXCEPT !.queue = @ \ {p}, !.promoted = 0, !.due = due]
    <2>1. worker' = [worker EXCEPT ![c] = w]
      BY <1>2 DEF PromoteProject
    <2>2. due \in SUBSET Triggers
      OBVIOUS
    <2> HIDE DEF due
    <2>3. Sound(w, Len(cycles))
      BY <1>0, <2>2 DEF Sound, Held
    <2> HIDE DEF w
    <2> QED
      BY <1>2, <2>1, <2>3, MovedOver, Elsewhere DEF PromoteProject, TInv
  <1>3. ASSUME NEW r \in Triggers, Promote(c, r) PROVE TInv'
    <2>1. PICK at \in {"promote", "submit"}, promoted \in Nat,
               item \in Missions \union {None} :
            worker' = [worker EXCEPT ![c] = [worker[c] EXCEPT
              !.due = @ \ {r}, !.promoted = promoted, !.item = item, !.at = at]]
      <3>1. worker[c].promoted \in Nat
        BY <1>0 DEF Sound, Held
      <3> DEFINE refused == worker[c].promoted >= Admissions \/ repairs[r].disposition # None
                 bound == repairs[r].mission
                 at == IF refused \/ bound THEN "promote" ELSE "submit"
                 promoted == IF worker[c].due = {r} THEN 0
                             ELSE IF refused THEN worker[c].promoted
                             ELSE worker[c].promoted + 1
                 item == IF refused \/ bound THEN None ELSE r
      <3>2. worker' = [worker EXCEPT ![c] = [worker[c] EXCEPT
              !.due = @ \ {r}, !.promoted = promoted, !.item = item, !.at = at]]
        BY <1>3 DEF Promote
      <3>3. at \in {"promote", "submit"} /\ promoted \in Nat
            /\ item \in Missions \union {None}
        BY <3>1 DEF Missions
      <3> HIDE DEF at, promoted, item
      <3> QED BY <3>2, <3>3
    <2>2. worker[c].at = "promote"
      BY <1>3 DEF Promote
    <2>3. Sound([worker[c] EXCEPT !.due = @ \ {r}, !.promoted = promoted,
                                  !.item = item, !.at = at], Len(cycles))
      BY <1>0, <2>1, <2>2 DEF Sound, Held, Places
    <2> QED
      BY <1>3, <2>1, <2>3, MovedOver, Elsewhere DEF Promote, TInv
  <1>4. CASE EndAdvance(c)
    <2> DEFINE w == [worker[c] EXCEPT !.at = "close"]
    <2>1. worker' = [worker EXCEPT ![c] = w] /\ worker[c].at = "promote"
      BY <1>4 DEF EndAdvance, Advancing
    <2>2. Sound(w, Len(cycles))
      BY <1>0, <2>1 DEF Sound, Held, Places
    <2> HIDE DEF w
    <2> QED
      BY <1>4, <2>1, <2>2, MovedOver, Elsewhere DEF EndAdvance, TInv
  <1>5. CASE ReadRepair(c)
    <2>1. worker[c].item \in Triggers /\ worker[c].at = "read"
      BY <1>0, <1>5 DEF ReadRepair, Sound
    <2>2. repairs[worker[c].item].state \in RepairStates
      BY <2>1 DEF TInv, MaintenanceTypeOK
    <2> DEFINE w == [worker[c] EXCEPT !.at = "record",
                                      !.seen = repairs[worker[c].item].state]
    <2>3. worker' = [worker EXCEPT ![c] = w]
      BY <1>5 DEF ReadRepair
    <2>4. Sound(w, Len(cycles))
      BY <1>0, <2>1, <2>2 DEF Sound, Held, Places
    <2> HIDE DEF w
    <2> QED
      BY <1>5, <2>3, <2>4, MovedOver, Elsewhere DEF ReadRepair, TInv
  <1> QED
    BY <1>1, <1>2, <1>3, <1>4, <1>5

-----------------------------------------------------------------------------
(* Steps that write missions, repairs or health.                           *)

LEMMA MissionSteps ==
    ASSUME TInv, NEW c \in Callers,
           \/ RecoverStale(c) \/ SubmitRepair(c)
           \/ \E m \in Missions : StartWork(c, m)
           \/ CrossBoundary(c) \/ FinishWork(c)
    PROVE  TInv'
  <1>0. /\ Sound(worker[c], Len(cycles)) /\ Len(cycles) \in Nat
        /\ missions \in [Missions -> MissionRow]
    BY RowsAre DEF TInv, WorkInv, CyclesInv, MaintenanceTypeOK, MissionRow
  <1>1. CASE RecoverStale(c)
    <2> DEFINE w == [worker[c] EXCEPT !.at = "scope"]
    <2>1. worker' = [worker EXCEPT ![c] = w] /\ worker[c].at = "recover"
      BY <1>1 DEF RecoverStale
    <2>2. Sound(w, Len(cycles))
      BY <1>0, <2>1 DEF Sound, Held, Places
    <2> HIDE DEF w
    <2>3. PICK stale \in SUBSET Missions :
            missions' = [m \in Missions |->
               IF m \notin stale THEN missions[m]
               ELSE [state |-> IF missions[m].state = "working" THEN "admitted"
                               ELSE missions[m].state,
                     lease |-> "free"]]
      BY <1>1 DEF RecoverStale
    <2>4. missions' \in [Missions -> MissionRow]
      BY <1>0, <2>3 DEF MissionRow, MissionStates, Leases
    <2> QED
      BY <1>1, <2>1, <2>2, <2>4, MovedOver, MissionsWritten, Elsewhere
      DEF RecoverStale, TInv
  <1>2. CASE SubmitRepair(c)
    <2> DEFINE w == [worker[c] EXCEPT !.at = "bind"]
    <2>1. worker' = [worker EXCEPT ![c] = w] /\ worker[c].at = "submit"
      BY <1>2 DEF SubmitRepair
    <2>2. Sound(w, Len(cycles))
      BY <1>0, <2>1 DEF Sound, Held, Places
    <2> HIDE DEF w
    <2>3. missions' \in [Missions -> MissionRow]
      BY <1>0, <1>2 DEF SubmitRepair, Submitted, MissionRow, MissionStates
    <2> QED
      BY <1>2, <2>1, <2>2, <2>3, MovedOver, MissionsWritten, Elsewhere
      DEF SubmitRepair, TInv
  <1>3. ASSUME NEW m \in Missions, StartWork(c, m) PROVE TInv'
    <2> DEFINE w == [worker[c] EXCEPT !.at = "work", !.item = m]
    <2>1. /\ worker' = [worker EXCEPT ![c] = w]
          /\ worker[c].at = "promote" /\ worker[c].left > 0
      BY <1>3 DEF StartWork, Advancing
    <2>2. Sound(w, Len(cycles))
      BY <1>0, <2>1 DEF Sound, Held, Places
    <2> HIDE DEF w
    <2>3. missions' \in [Missions -> MissionRow]
      BY <1>0, <1>3 DEF StartWork, MissionRow, MissionStates, Leases
    <2> QED
      BY <1>3, <2>1, <2>2, <2>3, MovedOver, MissionsWritten, Elsewhere
      DEF StartWork, TInv
  <1>4. CASE CrossBoundary(c)
    <2>1. missions' \in [Missions -> MissionRow]
      BY <1>0, <1>4 DEF CrossBoundary, MissionRow, MissionStates
    <2>2. UNCHANGED <<control, halting, open, moves, health, worker, cycles, faults>>
      BY <1>4 DEF CrossBoundary, ownVars
    <2> QED
      BY <1>4, <2>1, <2>2, MissionsWritten, Elsewhere DEF CrossBoundary, TInv, ownerVars
  <1>5. CASE FinishWork(c)
    <2>1. PICK r \in Returns(missions[worker[c].item].state) :
            /\ missions' = [missions EXCEPT ![worker[c].item] =
                              [state |-> r[1], lease |-> "free"]]
            /\ worker' = [worker EXCEPT ![c].at = "health", ![c].state = r[1],
                                        ![c].class = r[2], ![c].left = @ - 1]
      BY <1>5, Zenon DEF FinishWork
    <2>2. r[1] \in MissionStates /\ r[2] \in Classifications
      BY DEF Returns, MissionStates, Classifications
    <2>3. PICK state \in MissionStates, class \in Classifications :
            state = r[1] /\ class = r[2]
      BY <2>2
    <2> DEFINE w == [worker[c] EXCEPT !.at = "health", !.state = state,
                                      !.class = class, !.left = @ - 1]
    <2>4. worker' = [worker EXCEPT ![c] = w] /\ worker[c].at = "work"
      BY <1>5, <2>1, <2>3 DEF FinishWork
    <2>5. Sound(w, Len(cycles))
      <3>1. worker[c].left \in 0..PerCycle /\ worker[c].left > 0
        BY <1>0, <2>4 DEF Sound, Held
      <3>2. PICK left \in 0..PerCycle : left = worker[c].left - 1
        BY <3>1, SupervisorAssumption
      <3>3. w = [worker[c] EXCEPT !.at = "health", !.state = state, !.class = class,
                                  !.left = left]
        BY <3>2
      <3> HIDE DEF w
      <3> QED BY <1>0, <2>4, <3>3 DEF Sound, Held, Places
    <2> HIDE DEF w
    <2>6. missions' \in [Missions -> MissionRow]
      BY <1>0, <2>1, <2>3 DEF MissionRow, Leases
    <2> QED
      BY <1>5, <2>4, <2>5, <2>6, MovedOver, MissionsWritten, Elsewhere
      DEF FinishWork, TInv
  <1> QED
    BY <1>1, <1>2, <1>3, <1>4, <1>5

LEMMA RecordingSteps ==
    ASSUME TInv, NEW c \in Callers,
           BindRepair(c) \/ RecordHealth(c) \/ RecordOutcome(c)
    PROVE  TInv'
  <1>0. /\ Sound(worker[c], Len(cycles)) /\ Len(cycles) \in Nat
        /\ repairs \in [Triggers -> RepairRow]
    BY RowsAre DEF TInv, WorkInv, CyclesInv, MaintenanceTypeOK, RepairRow
  <1>r. worker[c].at # "away" => Sound(Resting(worker[c]), Len(cycles))
    BY <1>0
    DEF Resting, Sound, Held, Places, MissionStates, Classifications, RepairStates
  <1>1. CASE BindRepair(c)
    <2> DEFINE w == [worker[c] EXCEPT !.at = "promote", !.item = None]
    <2>1. worker' = [worker EXCEPT ![c] = w] /\ worker[c].at = "bind"
      BY <1>1 DEF BindRepair
    <2>2. Sound(w, Len(cycles))
      BY <1>0, <2>1 DEF Sound, Held, Places
    <2> HIDE DEF w
    <2>3. repairs' \in [Triggers -> RepairRow]
      BY <1>0, <1>1 DEF BindRepair, Bound, RepairRow, RepairStates
    <2> QED
      BY <1>1, <2>1, <2>2, <2>3, MovedOver, RepairsWritten, Elsewhere
      DEF BindRepair, TInv
  <1>2. CASE RecordHealth(c)
    <2> DEFINE next == IF worker[c].item \in Triggers /\ worker[c].state \in Settled
                       THEN [worker[c] EXCEPT !.at = "read", !.class = "none"]
                       ELSE Resting(worker[c])
    <2>1. worker' = [worker EXCEPT ![c] = next] /\ worker[c].at = "health"
      BY <1>2 DEF RecordHealth
    <2>2. Sound(next, Len(cycles))
      <3>1. CASE worker[c].item \in Triggers /\ worker[c].state \in Settled
        BY <1>0, <2>1, <3>1 DEF Sound, Held, Places, Classifications
      <3>2. CASE ~(worker[c].item \in Triggers /\ worker[c].state \in Settled)
        BY <1>r, <2>1, <3>2
      <3> QED BY <3>1, <3>2
    <2> HIDE DEF next
    <2>3. HealthInv'
      <3>1. CASE ProjectOf[worker[c].item] \in worker[c].scope
        <4>1. PICK p \in Projects : p = ProjectOf[worker[c].item]
          BY <1>0, <3>1 DEF Sound, Held
        <4>2. health' = [health EXCEPT ![p] = HealthAfter(health[p], worker[c].class)]
          BY <1>2, <3>1, <4>1 DEF RecordHealth
        <4>3. HealthAfter(health[p], worker[c].class)
                \in [failures : Nat, suppressed : BOOLEAN, escalated : BOOLEAN]
          <5>1. PICK h : h = health[p]
            OBVIOUS
          <5>2. h \in [failures : Nat, suppressed : BOOLEAN, escalated : BOOLEAN]
            BY <5>1 DEF TInv, HealthInv
          <5>3. /\ (h.failures + 1 >= Threshold) \in BOOLEAN
                /\ (h.failures + 1 >= 2 * Threshold) \in BOOLEAN
                /\ h.failures + 1 \in Nat
            BY <5>2
          <5>4. CASE worker[c].class # "infrastructure"
            BY <5>1, <5>2, <5>4 DEF HealthAfter
          <5>5. CASE worker[c].class = "infrastructure"
            BY <5>1, <5>3, <5>5 DEF HealthAfter
          <5> QED BY <5>4, <5>5
        <4> QED BY <4>2, <4>3 DEF TInv, HealthInv
      <3>2. CASE ProjectOf[worker[c].item] \notin worker[c].scope
        BY <1>2, <3>2 DEF RecordHealth, TInv, HealthInv
      <3> QED BY <3>1, <3>2
    <2> QED
      BY <1>2, <2>1, <2>2, <2>3, MovedOver, Elsewhere DEF RecordHealth, TInv
  <1>3. CASE RecordOutcome(c)
    <2>1. worker' = [worker EXCEPT ![c] = Resting(worker[c])] /\ worker[c].at = "record"
      BY <1>3 DEF RecordOutcome
    <2>2. Sound(Resting(worker[c]), Len(cycles))
      BY <1>r, <2>1
    <2>3. PICK v \in BOOLEAN :
            repairs' = OutcomeRecorded(worker[c].item, worker[c].seen, worker[c].state, v)
      BY <1>3 DEF RecordOutcome, Verdicts
    <2>4. worker[c].seen \in RepairStates
      BY <1>0 DEF Sound, Held
    <2>5. repairs' \in [Triggers -> RepairRow]
      <3>1. PICK st \in RepairStates :
              repairs' = [repairs EXCEPT ![worker[c].item].passed = v,
                                         ![worker[c].item].state = st]
        BY <2>3, <2>4 DEF OutcomeRecorded, RepairStates
      <3>2. CASE worker[c].item \notin Triggers
        BY <1>0, <3>1, <3>2
      <3>3. CASE worker[c].item \in Triggers
        <4>1. repairs[worker[c].item] \in RepairRow
          BY <1>0, <3>3
        <4>2. [[repairs[worker[c].item] EXCEPT !.passed = v] EXCEPT !.state = st]
                \in RepairRow
          BY <4>1 DEF RepairRow
        <4> QED BY <1>0, <3>1, <3>3, <4>2
      <3> QED BY <3>2, <3>3
    <2> QED
      BY <1>3, <2>1, <2>2, <2>5, MovedOver, RepairsWritten, Elsewhere
      DEF RecordOutcome, TInv
  <1> QED
    BY <1>1, <1>2, <1>3

-----------------------------------------------------------------------------
(* The table, as the ledger sees it.                                       *)

Column == [i \in DOMAIN cycles |-> cycles[i].outcome]

LEMMA ColumnStays ==
    ASSUME CyclesInv, NEW i \in DOMAIN cycles, NEW row \in CycleRow,
           cycles' = [cycles EXCEPT ![i] = row],
           row.outcome = cycles[i].outcome
    PROVE  Column' = Column
  BY PutRow DEF Column

LEMMA ColumnSettled ==
    ASSUME CyclesInv, NEW i \in DOMAIN cycles, NEW row \in CycleRow,
           cycles' = [cycles EXCEPT ![i] = row],
           cycles[i].outcome = "open",
           row.outcome \in Outcomes \union RecoveryOutcomes
    PROVE  Ledger!LedgerNext
  <1>1. /\ DOMAIN cycles' = DOMAIN cycles
        /\ \A j \in DOMAIN cycles : cycles'[j] = IF j = i THEN row ELSE cycles[j]
    BY PutRow
  <1>2. Column' = [Column EXCEPT ![i] = row.outcome]
    BY <1>1 DEF Column
  <1>3. i \in DOMAIN Column /\ Column[i] = "open"
    BY DEF Column
  <1> QED
    BY <1>2, <1>3 DEF Ledger!LedgerNext, Ledger!Settle, Ledger!IsOpen, Ledger!Open, Column

(* A claim settles what is open and appends a row.                         *)
LEMMA ClaimBegins ==
    ASSUME CyclesInv, NEW c \in Callers, ClaimCycle(c)
    PROVE  /\ CyclesInv' /\ Len(cycles') = Len(cycles) + 1
           /\ Ledger!LedgerNext
           /\ \A i \in 1..Len(cycles) : cycles'[i].outcome # "open"
           /\ cycles'[Len(cycles) + 1] = [outcome |-> "open", live |-> TRUE]
  <1> DEFINE n == Len(cycles)
             o == RecoveryOutcome
             old == [i \in DOMAIN cycles |->
                        IF IsOpenCycle(i) THEN [outcome |-> o, live |-> FALSE]
                        ELSE cycles[i]]
             new == [outcome |-> "open", live |-> TRUE]
  <1>1. n \in Nat /\ DOMAIN cycles = 1..n /\ \A i \in 1..n : cycles[i] \in CycleRow
    BY RowsAre DEF CyclesInv
  <1>2. o \in RecoveryOutcomes
    BY DEF RecoveryOutcome, RecoveryOutcomes
  <1>3. new \in CycleRow
    BY DEF CycleRow
  <1>4. cycles' = Append(old, new)
    BY DEF ClaimCycle
  <1> HIDE DEF o, new
  <1>5. \A i \in 1..n : old[i] \in CycleRow
    BY <1>1, <1>2 DEF CycleRow
  <1>6. old \in Seq(CycleRow) /\ Len(old) = n
    <2>1. old = [i \in 1..n |-> old[i]]
      BY <1>1
    <2>2. DOMAIN old = 1..n
      BY <1>1
    <2> HIDE DEF old
    <2>3. old \in Seq(CycleRow)
      BY <1>1, <1>5, <2>1, IsASeq
    <2> QED BY <1>1, <2>2, <2>3, LenProperties
  <1>7. /\ cycles' \in Seq(CycleRow) /\ Len(cycles') = n + 1
        /\ \A i \in 1..n : cycles'[i] = old[i]
        /\ cycles'[n + 1] = new
    <2> HIDE DEF old
    <2> QED BY <1>3, <1>4, <1>6, AppendProperties
  <1>8. Ledger!Begin
    <2> DEFINE S == Outcomes \union RecoveryOutcomes \union {"open"}
               was == [i \in DOMAIN Column |-> IF Column[i] = "open" THEN o ELSE Column[i]]
    <2>1. DOMAIN Column = 1..n /\ \A i \in 1..n : Column[i] = cycles[i].outcome
      BY <1>1 DEF Column
    <2>2. was \in Seq(S) /\ Len(was) = n /\ \A i \in 1..n : was[i] = old[i].outcome
      <3>1. DOMAIN was = 1..n
        BY <2>1
      <3>2. \A i \in 1..n : was[i] = old[i].outcome /\ was[i] \in S
        BY <1>1, <1>2, <2>1 DEF IsOpenCycle, CycleRow
      <3>3. was = [i \in 1..n |-> was[i]]
        BY <2>1
      <3> HIDE DEF was, old
      <3>4. was \in Seq(S)
        BY <1>1, <3>2, <3>3, IsASeq
      <3> QED BY <1>1, <3>1, <3>2, <3>4, LenProperties
    <2>3. /\ Append(was, "open") \in Seq(S) /\ Len(Append(was, "open")) = n + 1
          /\ \A i \in 1..n : Append(was, "open")[i] = was[i]
          /\ Append(was, "open")[n + 1] = "open"
      <3>1. "open" \in S
        OBVIOUS
      <3> HIDE DEF was, S
      <3> QED BY <2>2, <3>1, AppendProperties
    <2>4. Column' \in Seq(S) /\ Len(Column') = n + 1
          /\ \A i \in 1..(n + 1) : Column'[i] = cycles'[i].outcome
      <3>1. DOMAIN cycles' = 1..(n + 1) /\ \A i \in 1..(n + 1) : cycles'[i] \in CycleRow
        BY <1>7, RowsAre
      <3>2. Column' = [i \in 1..(n + 1) |-> cycles'[i].outcome]
        BY <3>1 DEF Column
      <3>3. \A i \in 1..(n + 1) : Column'[i] = cycles'[i].outcome /\ Column'[i] \in S
        BY <3>1, <3>2 DEF CycleRow
      <3>4. DOMAIN Column' = 1..(n + 1) /\ Column' = [i \in 1..(n + 1) |-> Column'[i]]
        BY <3>2
      <3> HIDE DEF S
      <3>5. Column' \in Seq(S)
        BY <1>1, <3>3, <3>4, IsASeq
      <3> QED BY <1>1, <3>3, <3>4, <3>5, LenProperties
    <2>5. \A i \in 1..(n + 1) : Column'[i] = Append(was, "open")[i]
      <3> SUFFICES ASSUME NEW i \in 1..(n + 1)
                   PROVE  Column'[i] = Append(was, "open")[i]
        OBVIOUS
      <3>1. CASE i \in 1..n
        <4> HIDE DEF was, old
        <4> QED BY <1>7, <2>2, <2>3, <2>4, <3>1
      <3>2. CASE i = n + 1
        <4>1. new.outcome = "open"
          BY DEF new
        <4> HIDE DEF was
        <4> QED BY <1>7, <2>3, <2>4, <3>2, <4>1
      <3>3. i \in 1..n \/ i = n + 1
        BY <1>1
      <3> HIDE DEF was
      <3> QED BY <3>1, <3>2, <3>3
    <2>6. Column' = Append(was, "open")
      <3> HIDE DEF was, S
      <3> QED BY <1>1, <2>3, <2>4, <2>5, SeqEqual
    <2> QED
      BY <1>2, <2>6 DEF Ledger!Begin, Ledger!IsOpen, Ledger!Open, Column
  <1>9. \A i \in 1..n : cycles'[i].outcome # "open"
    <2>1. \A i \in 1..n : old[i].outcome # "open"
      BY <1>1, <1>2 DEF IsOpenCycle, RecoveryOutcomes
    <2> HIDE DEF old
    <2> QED BY <1>7, <2>1
  <1> HIDE DEF old
  <1> QED
    BY <1>7, <1>8, <1>9 DEF CyclesInv, Ledger!LedgerNext, new

(* A row is closed: by its invocation, if it is still open.                *)
LEMMA ClosedRow ==
    ASSUME TInv, NEW c \in Callers, worker[c].at # "away",
           NEW o \in Outcomes, cycles' = Closed(worker[c].cycle, o)
    PROVE  /\ CyclesInv' /\ Len(cycles') = Len(cycles)
           /\ Ledger!LedgerNext \/ Column' = Column
  <1>1. PICK i : i = worker[c].cycle
    OBVIOUS
  <1>2. i \in DOMAIN cycles
    <2>1. i \in 0..Len(cycles) /\ i # 0 /\ Len(cycles) \in Nat
      BY <1>1, RowsAre DEF TInv, WorkInv, CyclesInv, Sound
    <2> QED BY <2>1, RowsAre DEF TInv, CyclesInv
  <1>3. CASE cycles[i].outcome = "open"
    <2>1. PICK row \in CycleRow : row = [outcome |-> o, live |-> FALSE]
      BY DEF CycleRow
    <2>2. cycles' = [cycles EXCEPT ![i] = row]
      BY <1>1, <1>3, <2>1 DEF Closed, IsOpenCycle
    <2>3. CyclesInv /\ row.outcome \in Outcomes \union RecoveryOutcomes
      BY <2>1 DEF TInv
    <2> QED BY <1>2, <1>3, <2>2, <2>3, PutRow, ColumnSettled
  <1>4. CASE cycles[i].outcome # "open"
    <2>1. cycles' = cycles
      BY <1>1, <1>4 DEF Closed, IsOpenCycle
    <2> QED BY <2>1 DEF TInv, CyclesInv, Column
  <1> QED
    BY <1>3, <1>4

(* Its lease is renewed or runs out.                                       *)
LEMMA LeaseMoves ==
    ASSUME TInv, NEW i \in DOMAIN cycles, NEW live \in BOOLEAN,
           cycles' = [cycles EXCEPT ![i].live = live]
    PROVE  /\ CyclesInv' /\ Len(cycles') = Len(cycles)
           /\ Column' = Column
  <1>1. cycles[i] \in CycleRow /\ CyclesInv
    BY RowsAre DEF TInv, CyclesInv
  <1>2. PICK row : row = [cycles[i] EXCEPT !.live = live]
    OBVIOUS
  <1>3. row \in CycleRow /\ row.outcome = cycles[i].outcome
    BY <1>1, <1>2 DEF CycleRow
  <1>4. cycles' = [cycles EXCEPT ![i] = row]
    BY <1>2
  <1> QED BY <1>1, <1>3, <1>4, PutRow, ColumnStays

-----------------------------------------------------------------------------
(* Steps that write the table.                                             *)

LEMMA TableSteps ==
    ASSUME TInv, NEW c \in Callers, ClaimCycle(c) \/ Renew(c) \/ CloseCycle(c)
    PROVE  TInv' /\ (Ledger!LedgerNext \/ Column' = Column)
  <1>0. /\ Sound(worker[c], Len(cycles)) /\ Len(cycles) \in Nat
        /\ CyclesInv /\ WorkInv
    BY RowsAre DEF TInv, WorkInv, CyclesInv
  <1>1. CASE ClaimCycle(c)
    <2>1. CyclesInv' /\ Len(cycles') = Len(cycles) + 1 /\ Ledger!LedgerNext
      BY <1>0, <1>1, ClaimBegins
    <2> DEFINE w == [Away EXCEPT !.at = IF control \in Operating THEN "recover"
                                        ELSE "close",
                                 !.cycle = Len(cycles) + 1,
                                 !.control = control]
    <2>2. worker' = [worker EXCEPT ![c] = w]
      BY <1>1 DEF ClaimCycle
    <2>3. Sound(w, Len(cycles'))
      <3>1. PICK at \in {"recover", "close"} :
              at = IF control \in Operating THEN "recover" ELSE "close"
        OBVIOUS
      <3>2. PICK k \in Nat : k = Len(cycles) + 1 /\ k = Len(cycles') /\ k # 0
        BY <1>0, <2>1
      <3>3. PICK st \in ControlStates : st = control
        BY DEF TInv, OwnerInv
      <3>4. w = [Away EXCEPT !.at = at, !.cycle = k, !.control = st]
        BY <3>1, <3>2, <3>3
      <3>5. Away \in Held /\ Away.queue \subseteq Away.scope
        BY AwayIsSound DEF Sound
      <3> HIDE DEF w
      <3>6. w \in Held
        BY <3>4, <3>5 DEF Held, Places
      <3>7. w.at = at /\ w.cycle = k /\ w.queue \subseteq w.scope
        BY <3>4, <3>5 DEF Held
      <3> QED BY <3>2, <3>6, <3>7 DEF Sound
    <2> HIDE DEF w
    <2>4. WorkInv'
      <3>1. Len(cycles) <= Len(cycles')
        BY <1>0, <2>1
      <3> QED BY <1>0, <2>1, <2>2, <2>3, <3>1, Moved
    <2> QED
      BY <1>1, <2>1, <2>4, Elsewhere DEF ClaimCycle, TInv
  <1>2. CASE Renew(c)
    <2>1. PICK i : i = worker[c].cycle
      OBVIOUS
    <2>2. /\ i \in DOMAIN cycles
          /\ cycles' = [cycles EXCEPT ![i].live = TRUE]
      BY <1>0, <1>2, <2>1, RowsAre DEF Renew, Sound, CyclesInv
    <2>3. CyclesInv' /\ Len(cycles') = Len(cycles) /\ Column' = Column
      BY <2>2, LeaseMoves
    <2>4. WorkInv'
      BY <1>2, <2>3 DEF Renew, TInv, WorkInv
    <2> QED
      BY <1>2, <2>3, <2>4, Elsewhere DEF Renew, TInv
  <1>3. CASE CloseCycle(c)
    <2>1. PICK o \in Outcomes : cycles' = Closed(worker[c].cycle, o)
      BY <1>3 DEF CloseCycle, Outcomes
    <2>2. worker[c].at # "away"
      BY <1>3 DEF CloseCycle
    <2>3. /\ CyclesInv' /\ Len(cycles') = Len(cycles)
          /\ Ledger!LedgerNext \/ Column' = Column
      BY <2>1, <2>2, ClosedRow
    <2>4. Sound(Away, Len(cycles')) /\ worker' = [worker EXCEPT ![c] = Away]
      BY <1>0, <1>3, <2>3, AwayIsSound DEF CloseCycle
    <2>5. WorkInv'
      <3>1. Len(cycles) <= Len(cycles')
        BY <1>0, <2>3
      <3> QED BY <1>0, <2>3, <2>4, <3>1, Moved
    <2> QED
      BY <1>3, <2>3, <2>5, Elsewhere DEF CloseCycle, TInv
  <1> QED
    BY <1>1, <1>2, <1>3

LEMMA FaultSteps ==
    ASSUME TInv, Fault
    PROVE  TInv' /\ (Ledger!LedgerNext \/ Column' = Column)
  <1>1. ASSUME NEW c \in Callers, Abandon(c)
        PROVE  TInv' /\ (Ledger!LedgerNext \/ Column' = Column)
    <2>0. /\ Len(cycles) \in Nat /\ CyclesInv /\ WorkInv
          /\ missions \in [Missions -> MissionRow]
      BY RowsAre DEF TInv, CyclesInv, MaintenanceTypeOK, MissionRow
    <2>1. worker[c].at # "away"
      BY <1>1 DEF Abandon
    <2>2. /\ CyclesInv' /\ Len(cycles') = Len(cycles)
          /\ Ledger!LedgerNext \/ Column' = Column
      <3>1. CASE cycles' = Closed(worker[c].cycle, "refused")
        <4>1. PICK o \in Outcomes : o = "refused"
          BY DEF Outcomes
        <4> QED BY <2>1, <3>1, <4>1, ClosedRow
      <3>2. CASE cycles' = cycles
        BY <2>0, <3>2 DEF CyclesInv, Column
      <3> QED BY <1>1, <3>1, <3>2 DEF Abandon
    <2>3. Sound(Away, Len(cycles')) /\ worker' = [worker EXCEPT ![c] = Away]
      BY <1>1, <2>0, <2>2, AwayIsSound DEF Abandon
    <2>4. WorkInv'
      <3>1. Len(cycles) <= Len(cycles')
        BY <2>0, <2>2
      <3> QED BY <2>0, <2>2, <2>3, <3>1, Moved
    <2>5. missions' \in [Missions -> MissionRow]
      BY <1>1, <2>0 DEF Abandon, Orphaned, MissionRow, Leases
    <2>6. faults' \in 0..MaxFaults
      BY <1>1, SupervisorAssumption DEF Abandon, TInv
    <2> QED
      BY <1>1, <2>2, <2>4, <2>5, <2>6, MissionsWritten, Elsewhere DEF Abandon, TInv
  <1>2. ASSUME NEW i \in DOMAIN cycles, CycleLeaseEnds(i)
        PROVE  TInv' /\ (Ledger!LedgerNext \/ Column' = Column)
    <2>1. CyclesInv' /\ Len(cycles') = Len(cycles) /\ Column' = Column
      BY <1>2, LeaseMoves DEF CycleLeaseEnds
    <2>2. WorkInv'
      BY <1>2, <2>1 DEF CycleLeaseEnds, TInv, WorkInv
    <2>3. faults' \in 0..MaxFaults
      BY <1>2, SupervisorAssumption DEF CycleLeaseEnds, TInv
    <2> QED
      BY <1>2, <2>1, <2>2, <2>3, Elsewhere DEF CycleLeaseEnds, TInv
  <1> QED
    BY <1>1, <1>2 DEF Fault

(* The Owner and the maintenance desk.                                     *)

LEMMA OwnerSteps ==
    ASSUME TInv, OwnerStep
    PROVE  TInv' /\ Column' = Column
  <1>0. UNCHANGED cycles => Column' = Column
    BY DEF Column
  <1>1. ASSUME NEW w \in Owners, NEW to \in ControlStates, Transition(w, to)
        PROVE  TInv' /\ Column' = Column
    <2>1. OwnerInv'
      BY <1>1, SupervisorAssumption DEF Transition, TInv, OwnerInv
    <2> QED BY <1>0, <1>1, <2>1, Elsewhere DEF Transition, TInv
  <1>2. ASSUME NEW w \in Owners, SettleStop(w)
        PROVE  TInv' /\ Column' = Column
    <2>1. OwnerInv'
      BY <1>2 DEF SettleStop, TInv, OwnerInv
    <2>2. MaintenanceTypeOK'
      BY <1>2 DEF SettleStop, TInv, MaintenanceTypeOK
    <2> QED BY <1>0, <1>2, <2>1, <2>2, Elsewhere DEF SettleStop, TInv
  <1>3. ASSUME NEW w \in Owners, OwnerDies(w)
        PROVE  TInv' /\ Column' = Column
    <2>1. OwnerInv' /\ faults' \in 0..MaxFaults
      BY <1>3, SupervisorAssumption DEF OwnerDies, TInv, OwnerInv
    <2> QED BY <1>0, <1>3, <2>1, Elsewhere DEF OwnerDies, TInv
  <1>4. ASSUME NEW p \in Projects, Hold(p)
        PROVE  TInv' /\ Column' = Column
    <2>1. OwnerInv'
      BY <1>4, SupervisorAssumption DEF Hold, TInv, OwnerInv
    <2>2. MaintenanceTypeOK'
      BY <1>4 DEF Hold, TInv, MaintenanceTypeOK
    <2> QED BY <1>0, <1>4, <2>1, <2>2, Elsewhere DEF Hold, TInv
  <1>5. ASSUME NEW p \in Projects, OpenOrClose(p)
        PROVE  TInv' /\ Column' = Column
    <2>1. OwnerInv'
      BY <1>5, SupervisorAssumption DEF OpenOrClose, TInv, OwnerInv
    <2> QED BY <1>0, <1>5, <2>1, Elsewhere DEF OpenOrClose, TInv
  <1>6. ASSUME NEW p \in Projects, ClearHealth(p)
        PROVE  TInv' /\ Column' = Column
    <2>1. OwnerInv'
      BY <1>6, SupervisorAssumption DEF ClearHealth, TInv, OwnerInv
    <2>2. HealthInv'
      BY <1>6 DEF ClearHealth, Healthy, TInv, HealthInv
    <2> QED BY <1>0, <1>6, <2>1, <2>2, Elsewhere DEF ClearHealth, TInv
  <1>7. ASSUME NEW p \in Projects, SuppressionEnds(p)
        PROVE  TInv' /\ Column' = Column
    <2>1. HealthInv'
      BY <1>7 DEF SuppressionEnds, TInv, HealthInv
    <2> QED BY <1>0, <1>7, <2>1, Elsewhere DEF SuppressionEnds, TInv, ownerVars
  <1> QED
    BY <1>1, <1>2, <1>3, <1>4, <1>5, <1>6, <1>7 DEF OwnerStep

LEMMA MaintenanceSteps ==
    ASSUME TInv, MaintenanceStep
    PROVE  TInv' /\ Column' = Column
  <1>0. /\ UNCHANGED <<control, halting, cycles, worker, health, open, moves, faults>>
        /\ OwnerInv' /\ HealthInv' /\ WorkInv' /\ CyclesInv' /\ faults' \in 0..MaxFaults
        /\ Column' = Column
    BY Elsewhere DEF MaintenanceStep, ownVars, ownerVars, TInv, Column
  <1>i. Idle \in [verb : {None, "stage", "close"}, trigger : Triggers \union {None}]
    BY DEF Idle
  <1>1. ASSUME NEW r \in Triggers, AdmitTrigger(r) PROVE MaintenanceTypeOK'
    <2>1. repairs' \in [Triggers -> RepairRow]
      BY <1>1 DEF AdmitTrigger, TInv, MaintenanceTypeOK, RepairRow, RepairStates
    <2> QED BY <1>1, <2>1, RepairsWritten DEF AdmitTrigger, TInv
  <1>2. ASSUME NEW o \in Operators, NEW r \in Triggers,
               StageBegin(o, r) \/ CloseBegin(o, r)
        PROVE  MaintenanceTypeOK'
    BY <1>2 DEF StageBegin, CloseBegin, TInv, MaintenanceTypeOK
  <1>3. ASSUME NEW o \in Operators, StageWrite(o) PROVE MaintenanceTypeOK'
    <2>r. PICK r : r = desk[o].trigger
      OBVIOUS
    <2>1. PICK st \in RepairStates : repairs' = [repairs EXCEPT ![r].state = st]
      BY <1>3, <2>r DEF StageWrite, RepairStates
    <2>2. repairs' \in [Triggers -> RepairRow]
      <3>1. repairs \in [Triggers -> RepairRow]
        BY DEF TInv, MaintenanceTypeOK, RepairRow
      <3>2. CASE r \in Triggers
        BY <2>1, <3>1, <3>2 DEF RepairRow
      <3>3. CASE r \notin Triggers
        BY <2>1, <3>1, <3>3
      <3> QED BY <3>2, <3>3
    <2> QED BY <1>i, <1>3, <2>2 DEF StageWrite, TInv, MaintenanceTypeOK, RepairRow
  <1>4. ASSUME NEW o \in Operators, CloseWrite(o) PROVE MaintenanceTypeOK'
    <2>r. PICK r : r = desk[o].trigger
      OBVIOUS
    <2>1. PICK d \in Dispositions, st \in RepairStates :
            repairs' = [repairs EXCEPT ![r].disposition = d, ![r].state = st]
      BY <1>4, <2>r DEF CloseWrite, RepairStates
    <2>2. repairs' \in [Triggers -> RepairRow]
      <3>1. repairs \in [Triggers -> RepairRow]
        BY DEF TInv, MaintenanceTypeOK, RepairRow
      <3>2. CASE r \in Triggers
        <4>1. [[repairs[r] EXCEPT !.disposition = d] EXCEPT !.state = st] \in RepairRow
          BY <3>1, <3>2 DEF RepairRow
        <4> QED BY <2>1, <3>1, <3>2, <4>1
      <3>3. CASE r \notin Triggers
        BY <2>1, <3>1, <3>3
      <3> QED BY <3>2, <3>3
    <2> QED BY <1>i, <1>4, <2>2 DEF CloseWrite, TInv, MaintenanceTypeOK, RepairRow
  <1>5. ASSUME NEW o \in Operators, DeskLost(o) PROVE MaintenanceTypeOK'
    BY <1>i, <1>5 DEF DeskLost, TInv, MaintenanceTypeOK
  <1>6. MaintenanceTypeOK'
    BY <1>1, <1>2, <1>3, <1>4, <1>5 DEF MaintenanceStep
  <1> QED
    BY <1>0, <1>6 DEF TInv

-----------------------------------------------------------------------------
(* The theorems.                                                           *)

LEMMA InitTInv == Init => TInv /\ Column = <<>>
  <1> SUFFICES ASSUME Init PROVE TInv /\ Column = <<>>
    OBVIOUS
  <1>1. MaintenanceTypeOK
    BY DEF Init, MaintenanceInit, MaintenanceTypeOK, NoRepair, Idle, RepairStates,
           MissionStates, Leases, Missions
  <1>2. OwnerInv /\ HealthInv /\ faults \in 0..MaxFaults
    BY SupervisorAssumption DEF Init, OwnerInv, HealthInv, Healthy, ControlStates
  <1>3. CyclesInv /\ Len(cycles) = 0
    BY EmptySeq DEF Init, CyclesInv
  <1>4. WorkInv
    <2>1. Sound(Away, Len(cycles))
      BY <1>3, AwayIsSound
    <2> QED BY <2>1 DEF Init, WorkInv
  <1>5. Column = <<>>
    BY DEF Init, Column
  <1> QED BY <1>1, <1>2, <1>3, <1>4, <1>5 DEF TInv

LEMMA Step ==
    ASSUME TInv, [Next]_vars
    PROVE  TInv' /\ (Ledger!LedgerNext \/ Column' = Column)
  <1>1. ASSUME NEW c \in Callers, CycleStep(c)
        PROVE  TInv' /\ (Ledger!LedgerNext \/ Column' = Column)
    <2>1. CASE ClaimCycle(c) \/ Renew(c) \/ CloseCycle(c)
      BY <2>1, TableSteps
    <2>2. CASE \/ RecoverStale(c) \/ SubmitRepair(c)
               \/ \E m \in Missions : StartWork(c, m)
               \/ CrossBoundary(c) \/ FinishWork(c)
      <3>1. UNCHANGED cycles
        BY <2>2 DEF RecoverStale, SubmitRepair, StartWork, CrossBoundary, FinishWork, ownVars
      <3> QED BY <2>2, <3>1, MissionSteps DEF Column
    <2>3. CASE BindRepair(c) \/ RecordHealth(c) \/ RecordOutcome(c)
      <3>1. UNCHANGED cycles
        BY <2>3 DEF BindRepair, RecordHealth, RecordOutcome
      <3> QED BY <2>3, <3>1, RecordingSteps DEF Column
    <2>4. CASE \/ ReadScope(c)
               \/ \E p \in Projects : PromoteProject(c, p)
               \/ \E r \in Triggers : Promote(c, r)
               \/ EndAdvance(c) \/ ReadRepair(c)
      <3>1. UNCHANGED cycles
        BY <2>4 DEF ReadScope, PromoteProject, Promote, EndAdvance, ReadRepair
      <3> QED BY <2>4, <3>1, QuietSteps DEF Column
    <2> QED BY <1>1, <2>1, <2>2, <2>3, <2>4 DEF CycleStep
  <1>2. CASE OwnerStep
    BY <1>2, OwnerSteps
  <1>3. CASE MaintenanceStep
    BY <1>3, MaintenanceSteps
  <1>4. CASE Fault
    BY <1>4, FaultSteps
  <1>5. CASE UNCHANGED vars
    BY <1>5, Elsewhere DEF vars, maintenanceVars, ownerVars, TInv, Column
  <1> QED
    BY <1>1, <1>2, <1>3, <1>4, <1>5 DEF Next

(* The types, and what an invocation holds, are invariant.                 *)
THEOREM SupervisorInvariance == Spec => []TInv
  <1>1. Init => TInv
    BY InitTInv
  <1>2. TInv /\ [Next]_vars => TInv'
    BY Step
  <1> QED BY <1>1, <1>2, PTL DEF Spec

(* Every row of the supervisor and of the maintenance plane keeps its type. *)
THEOREM SupervisorTyping == Spec => []SupervisorTypeOK
  <1>1. TInv => SupervisorTypeOK
    BY DEF TInv, SupervisorTypeOK, OwnerInv, HealthInv, WorkInv, CyclesInv, CycleRow,
           Sound, Held
  <1> QED BY <1>1, SupervisorInvariance, PTL

(* supervisor_cycles implements CycleLedger: whatever leases run out, one  *)
(* cycle is open at most, each is settled once, and an invocation that     *)
(* comes back to a row another settled leaves it as it was recorded.       *)
THEOREM CyclesImplementLedger == Spec => CyclesSettledOnce
  <1>1. Init => Ledger!LedgerInit
    BY InitTInv DEF Ledger!LedgerInit, Column
  <1>2. TInv /\ [Next]_vars =>
          [Ledger!LedgerNext]_[i \in DOMAIN cycles |-> cycles[i].outcome]
    BY Step DEF Column
  <1> QED
    BY <1>1, <1>2, SupervisorInvariance, PTL
    DEF Spec, CyclesSettledOnce, Ledger!LedgerSpec
-----------------------------------------------------------------------------
(* Escalation.  The failures of a project stop growing when the missions   *)
(* run out that were in the scope of a cycle before it was escalated.  How *)
(* many that can be is counted in two steps: invocations that are not away *)
(* and have lost the lead of their cycle are no more than the leases lost, *)
(* so one more than that can be at work; and each has at most PerCycle     *)
(* missions left.                                                          *)

Present == {c \in Callers : worker[c].at # "away"}

Leads(c) == IsOpenCycle(worker[c].cycle) /\ cycles[worker[c].cycle].live

Lapsed == {c \in Present : ~Leads(c)}

OneOpen == \A i, j \in DOMAIN cycles : IsOpenCycle(i) /\ IsOpenCycle(j) => i = j

Apart == \A c, d \in Present : c # d => worker[c].cycle # worker[d].cycle

FewLapsed == IsFiniteSet(Lapsed) /\ Cardinality(Lapsed) <= faults

LapseInv == OneOpen /\ Apart /\ FewLapsed

(* The missions an invocation may still record, and those of one project.  *)
Remaining(w) == IF w.at = "health" THEN w.left + 1 ELSE w.left

Runs(p) == {x \in Present \X (1..PerCycle) :
              p \in worker[x[1]].scope /\ x[2] <= Remaining(worker[x[1]])}

Spent == \A c \in Callers : worker[c].at = "health" => worker[c].left < PerCycle

Escalated == \A p \in Projects : health[p].failures >= 2 * Threshold => health[p].escalated

Ceiling == 2 * Threshold - 1 + PerCycle * (1 + faults)

Within(p) == Cardinality(Runs(p)) + health[p].failures <= Ceiling

EscInv == Spent /\ Escalated /\ \A p \in Projects : Within(p)

LEMMA Times ==
    ASSUME NEW a \in Nat, NEW b \in Nat, NEW k \in Nat, a <= b
    PROVE  k * a <= k * b /\ k * a \in Nat /\ k * b \in Nat
  <1>1. PICK d \in Nat : b = a + d
    <2>1. b - a \in Nat /\ b = a + (b - a)
      OBVIOUS
    <2> QED BY <2>1
  <1>2. k * b = k * a + k * d /\ k * d \in Nat /\ k * a \in Nat /\ k * b \in Nat
    BY <1>1
  <1> QED BY <1>2

LEMMA OneMore ==
    ASSUME NEW a \in Nat, NEW b \in Nat, a <= b
    PROVE  1 + a \in Nat /\ 1 + b \in Nat /\ 1 + a <= 1 + b
  OBVIOUS

LEMMA Shares ==
    ASSUME NEW a \in Nat, NEW k \in Nat
    PROVE  k * (1 + a) \in Nat
  <1>1. 1 + a \in Nat /\ 1 + a <= 1 + a
    OBVIOUS
  <1> QED BY <1>1, Times

LEMMA CyclesOf ==
    ASSUME TInv, NEW c \in Present
    PROVE  /\ worker[c].cycle \in DOMAIN cycles /\ Sound(worker[c], Len(cycles))
           /\ Len(cycles) \in Nat /\ DOMAIN cycles = 1..Len(cycles)
           /\ worker[c].cycle <= Len(cycles)
  <1>1. Sound(worker[c], Len(cycles)) /\ worker[c].at # "away"
    BY DEF Present, TInv, WorkInv
  <1>2. Len(cycles) \in Nat /\ DOMAIN cycles = 1..Len(cycles)
    BY RowsAre DEF TInv, CyclesInv
  <1>3. worker[c].cycle \in 0..Len(cycles) /\ worker[c].cycle # 0
    BY <1>1 DEF Sound
  <1> QED BY <1>1, <1>2, <1>3

LEMMA PresentFew ==
    ASSUME TInv, LapseInv
    PROVE  /\ IsFiniteSet(Present) /\ Cardinality(Present) \in Nat
           /\ Cardinality(Present) <= faults + 1
  <1>0. faults \in Nat /\ IsFiniteSet(Lapsed) /\ Cardinality(Lapsed) <= faults
        /\ Cardinality(Lapsed) \in Nat
    BY SupervisorAssumption, FS_CardinalityType DEF TInv, LapseInv, FewLapsed
  <1>1. CASE Present \subseteq Lapsed
    <2>1. IsFiniteSet(Present) /\ Cardinality(Present) <= Cardinality(Lapsed)
      BY <1>0, <1>1, FS_Subset
    <2> QED BY <1>0, <2>1, FS_CardinalityType
  <1>2. ASSUME NEW c \in Present, Leads(c)
        PROVE  /\ IsFiniteSet(Present) /\ Cardinality(Present) \in Nat
               /\ Cardinality(Present) <= faults + 1
    <2>1. ASSUME NEW d \in Present, Leads(d) PROVE d = c
      BY <1>2, <2>1, CyclesOf DEF LapseInv, OneOpen, Apart, Leads
    <2>2. Present \subseteq Lapsed \cup {c}
      BY <2>1 DEF Lapsed
    <2>3. IsFiniteSet(Lapsed \cup {c}) /\ Cardinality(Lapsed \cup {c}) <= Cardinality(Lapsed) + 1
          /\ Cardinality(Lapsed \cup {c}) \in Nat
      <3>1. /\ IsFiniteSet(Lapsed \cup {c})
            /\ \/ Cardinality(Lapsed \cup {c}) = Cardinality(Lapsed)
               \/ Cardinality(Lapsed \cup {c}) = Cardinality(Lapsed) + 1
        BY <1>0, FS_AddElement
      <3> QED BY <1>0, <3>1
    <2>4. IsFiniteSet(Present) /\ Cardinality(Present) <= Cardinality(Lapsed \cup {c})
      BY <2>2, <2>3, FS_Subset
    <2> QED BY <1>0, <2>3, <2>4, FS_CardinalityType
  <1> QED
    BY <1>1, <1>2 DEF Lapsed

FewRuns(p) == /\ IsFiniteSet(Runs(p)) /\ Cardinality(Runs(p)) \in Nat
              /\ Cardinality(Runs(p)) <= PerCycle * (1 + faults)

LEMMA RunsFew == TInv /\ LapseInv => \A p \in Projects : FewRuns(p)
  <1> SUFFICES ASSUME TInv, LapseInv, NEW p \in Projects PROVE FewRuns(p)
    OBVIOUS
  <1>0. PerCycle \in Nat /\ faults \in Nat
    BY SupervisorAssumption DEF TInv
  <1>1. /\ IsFiniteSet(Present) /\ Cardinality(Present) \in Nat
        /\ Cardinality(Present) <= 1 + faults
    BY <1>0, PresentFew
  <1>2. IsFiniteSet(1..PerCycle) /\ Cardinality(1..PerCycle) = PerCycle
    BY <1>0, FS_Interval
  <1>3. /\ IsFiniteSet(Present \X (1..PerCycle))
        /\ Cardinality(Present \X (1..PerCycle)) = Cardinality(Present) * PerCycle
    BY <1>1, <1>2, FS_Product
  <1>4. /\ IsFiniteSet(Runs(p))
        /\ Cardinality(Runs(p)) <= Cardinality(Present \X (1..PerCycle))
    BY <1>3, FS_Subset DEF Runs
  <1>5. PerCycle * Cardinality(Present) <= PerCycle * (1 + faults)
        /\ PerCycle * Cardinality(Present) \in Nat
    BY <1>0, <1>1, Times
  <1>6. Cardinality(Runs(p)) \in Nat
    BY <1>4, FS_CardinalityType
  <1>7. Cardinality(Present) * PerCycle = PerCycle * Cardinality(Present)
    BY <1>0, <1>1
  <1>8. PerCycle * (1 + faults) \in Nat
    BY <1>0
  <1> HIDE DEF Runs
  <1>9. Cardinality(Runs(p)) <= PerCycle * (1 + faults)
    BY <1>3, <1>4, <1>5, <1>6, <1>7, <1>8
  <1> QED BY <1>4, <1>6, <1>9 DEF FewRuns

LEMMA RunsFewNext == (TInv /\ LapseInv => \A p \in Projects : FewRuns(p))'
  BY RunsFew, PTL

(* The three ways a step may touch the count of a project.                 *)
LEMMA CeilingGrows ==
    ASSUME TInv, TInv', faults <= faults'
    PROVE  Ceiling \in Int /\ Ceiling' \in Int /\ Ceiling <= Ceiling'
  <1>1. PerCycle \in Nat /\ Threshold \in Nat /\ faults \in Nat /\ faults' \in Nat
    BY SupervisorAssumption DEF TInv
  <1>2. 1 + faults \in Nat /\ 1 + faults' \in Nat /\ 1 + faults <= 1 + faults'
    BY <1>1, OneMore
  <1> DEFINE a == PerCycle * (1 + faults)
             b == PerCycle * (1 + faults')
  <1>3. a <= b /\ a \in Nat /\ b \in Nat
    BY <1>1, <1>2, Times
  <1>4. Ceiling = 2 * Threshold - 1 + a /\ Ceiling' = 2 * Threshold - 1 + b
    BY DEF Ceiling
  <1> HIDE DEF a, b
  <1> QED BY <1>1, <1>3, <1>4

LEMMA StillLow ==
    ASSUME TInv', LapseInv', NEW p \in Projects, health'[p].failures < 2 * Threshold
    PROVE  Within(p)'
  <1>1. PerCycle \in Nat /\ Threshold \in Nat /\ faults' \in Nat /\ health'[p].failures \in Nat
    BY SupervisorAssumption DEF TInv, HealthInv
  <1>2. FewRuns(p)'
    BY RunsFewNext
  <1> DEFINE b == PerCycle * (1 + faults')
             k == Cardinality(Runs(p)')
  <1>3. k \in Nat /\ k <= b
    BY <1>2 DEF FewRuns
  <1>5. b \in Nat
    BY <1>1, Shares
  <1>4. Within(p)' <=> k + health'[p].failures <= 2 * Threshold - 1 + b
    BY DEF Within, Ceiling
  <1> HIDE DEF b, k
  <1> QED BY <1>1, <1>3, <1>4, <1>5

LEMMA NoMoreRuns ==
    ASSUME TInv, TInv', LapseInv, NEW p \in Projects, Within(p), Runs(p)' \subseteq Runs(p),
           health'[p].failures <= health[p].failures, faults <= faults'
    PROVE  Within(p)'
  <1>1. health[p].failures \in Nat /\ health'[p].failures \in Nat
    BY DEF TInv, HealthInv
  <1>2. Cardinality(Runs(p)') \in Nat /\ Cardinality(Runs(p)) \in Nat
        /\ Cardinality(Runs(p)') <= Cardinality(Runs(p))
    BY RunsFew, FS_Subset, FS_CardinalityType DEF FewRuns
  <1>3. Ceiling \in Int /\ Ceiling' \in Int /\ Ceiling <= Ceiling'
    BY CeilingGrows
  <1> QED BY <1>1, <1>2, <1>3 DEF Within

LEMMA OneRunLess ==
    ASSUME TInv, TInv', LapseInv, NEW p \in Projects, Within(p),
           NEW x \in Runs(p), Runs(p)' \subseteq Runs(p) \ {x},
           health'[p].failures <= health[p].failures + 1, faults <= faults'
    PROVE  Within(p)'
  <1>1. health[p].failures \in Nat /\ health'[p].failures \in Nat
    BY DEF TInv, HealthInv
  <1>2. IsFiniteSet(Runs(p)) /\ Cardinality(Runs(p)) \in Nat
    BY RunsFew DEF FewRuns
  <1>3. IsFiniteSet(Runs(p) \ {x}) /\ Cardinality(Runs(p) \ {x}) = Cardinality(Runs(p)) - 1
    BY <1>2, FS_RemoveElement
  <1>4. IsFiniteSet(Runs(p)') /\ Cardinality(Runs(p)') <= Cardinality(Runs(p) \ {x})
    BY <1>3, FS_Subset
  <1>5. Cardinality(Runs(p)') \in Nat
    BY <1>4, FS_CardinalityType
  <1>6. Ceiling \in Int /\ Ceiling' \in Int /\ Ceiling <= Ceiling'
    BY CeilingGrows
  <1> QED BY <1>1, <1>2, <1>3, <1>4, <1>5, <1>6 DEF Within

-----------------------------------------------------------------------------
(* LapseInv and EscInv, step by step.                                      *)
BoundInv == LapseInv /\ EscInv

LEMMA LapseStays ==
    ASSUME TInv, TInv', LapseInv, OneOpen', Apart', Lapsed' \subseteq Lapsed,
           faults <= faults'
    PROVE  LapseInv'
  <1>1. faults \in Nat /\ faults' \in Nat
    BY SupervisorAssumption DEF TInv
  <1>2. IsFiniteSet(Lapsed) /\ Cardinality(Lapsed) <= faults /\ Cardinality(Lapsed) \in Nat
    BY FS_CardinalityType DEF LapseInv, FewLapsed
  <1>3. IsFiniteSet(Lapsed') /\ Cardinality(Lapsed') <= Cardinality(Lapsed)
    BY <1>2, FS_Subset
  <1>4. Cardinality(Lapsed') \in Nat
    BY <1>3, FS_CardinalityType
  <1>5. FewLapsed'
    BY <1>1, <1>2, <1>3, <1>4 DEF FewLapsed
  <1> QED BY <1>5 DEF LapseInv

LEMMA EscStays ==
    ASSUME TInv, TInv', LapseInv, EscInv, Spent', Escalated', faults <= faults',
           \A p \in Projects : /\ Runs(p)' \subseteq Runs(p)
                               /\ health'[p].failures <= health[p].failures
    PROVE  EscInv'
  <1>1. \A p \in Projects : Within(p)'
    BY NoMoreRuns DEF EscInv
  <1> QED BY <1>1 DEF EscInv

(* Nobody moves.                                                           *)
LEMMA Untouched ==
    ASSUME TInv, TInv', BoundInv, UNCHANGED <<worker, cycles>>, faults <= faults',
           \A p \in Projects :
              /\ health'[p].failures <= health[p].failures
              /\ health'[p].failures >= 2 * Threshold => health'[p].escalated
    PROVE  BoundInv'
  <1>1. Lapsed' = Lapsed /\ (OneOpen' <=> OneOpen) /\ (Apart' <=> Apart)
    BY DEF Lapsed, Present, Leads, IsOpenCycle, OneOpen, Apart
  <1>2. LapseInv'
    BY <1>1, LapseStays DEF BoundInv, LapseInv
  <1>3. Spent' /\ Escalated'
    BY DEF BoundInv, EscInv, Spent, Escalated
  <1>4. \A p \in Projects : Runs(p)' = Runs(p)
    BY DEF Runs, Present, Remaining
  <1> QED BY <1>2, <1>3, <1>4, EscStays DEF BoundInv

(* One invocation moves on, in the cycle it is in.                         *)
LEMMA SameLead ==
    ASSUME TInv, TInv', LapseInv, NEW c \in Present, NEW w, w.at # "away",
           w.cycle = worker[c].cycle, worker' = [worker EXCEPT ![c] = w],
           UNCHANGED <<cycles, faults>>
    PROVE  /\ LapseInv' /\ Present' = Present
           /\ \A d \in Callers : worker'[d] = IF d = c THEN w ELSE worker[d]
  <1>0. \A d \in Callers : worker'[d] = IF d = c THEN w ELSE worker[d]
    BY DEF TInv, WorkInv
  <1>1. Present' = Present
    BY <1>0 DEF Present
  <1>2. \A d \in Present : worker'[d].cycle = worker[d].cycle
    BY <1>0 DEF Present
  <1>3. Lapsed' = Lapsed /\ (OneOpen' <=> OneOpen)
    BY <1>1, <1>2 DEF Lapsed, Leads, IsOpenCycle, OneOpen
  <1>4. Apart'
    BY <1>1, <1>2 DEF Apart, LapseInv
  <1>5. faults <= faults'
    BY SupervisorAssumption DEF TInv
  <1>6. LapseInv'
    BY <1>3, <1>4, <1>5, LapseStays DEF LapseInv
  <1> QED BY <1>0, <1>1, <1>6

(* ... with no more missions left than it had, in the same scope.          *)
LEMMA Carried ==
    ASSUME TInv, TInv', BoundInv, NEW c \in Present, NEW w, w.at # "away",
           w.cycle = worker[c].cycle, w.scope = worker[c].scope,
           Remaining(w) <= Remaining(worker[c]),
           w.at = "health" => w.left < PerCycle,
           worker' = [worker EXCEPT ![c] = w],
           UNCHANGED <<cycles, faults, health>>
    PROVE  BoundInv'
  <1>1. /\ LapseInv' /\ Present' = Present
        /\ \A d \in Callers : worker'[d] = IF d = c THEN w ELSE worker[d]
    BY SameLead DEF BoundInv
  <1>2. Spent' /\ Escalated'
    BY <1>1 DEF BoundInv, EscInv, Spent, Escalated
  <1>3. \A d \in Present : /\ d \in Callers /\ worker'[d].scope = worker[d].scope
                           /\ Remaining(worker'[d]) <= Remaining(worker[d])
                           /\ Remaining(worker[d]) \in Int /\ Remaining(worker'[d]) \in Int
    <2>1. \A d \in Callers : /\ Remaining(worker[d]) \in Int
                             /\ Remaining(worker'[d]) \in Int
      BY SupervisorAssumption DEF TInv, WorkInv, Sound, Held, Remaining
    <2>2. \A d \in Callers : Remaining(worker[d]) <= Remaining(worker[d])
      BY <2>1
    <2>3. Present \subseteq Callers
      BY DEF Present
    <2> QED BY <1>1, <2>1, <2>2, <2>3
  <1>4. \A p \in Projects : Runs(p)' \subseteq Runs(p)
    <2>1. \A d \in Present, i \in 1..PerCycle :
             i <= Remaining(worker'[d]) => i <= Remaining(worker[d])
      BY <1>3, SupervisorAssumption
    <2> QED BY <1>1, <1>3, <2>1 DEF Runs
  <1>5. \A p \in Projects : health'[p].failures <= health[p].failures
    BY DEF TInv, HealthInv
  <1>6. faults <= faults'
    BY SupervisorAssumption DEF TInv
  <1> QED BY <1>1, <1>2, <1>4, <1>5, <1>6, EscStays DEF BoundInv

(* One invocation leaves.                                                  *)
LEMMA LeavesRuns ==
    ASSUME TInv, TInv', BoundInv, NEW c \in Present, faults <= faults',
           worker' = [worker EXCEPT ![c] = Away], UNCHANGED health
    PROVE  /\ EscInv' /\ Present' = Present \ {c}
           /\ \A d \in Present' : d \in Callers /\ worker'[d] = worker[d]
  <1>0. \A d \in Callers : worker'[d] = IF d = c THEN Away ELSE worker[d]
    BY DEF TInv, WorkInv
  <1>1. Present' = Present \ {c} /\ \A d \in Present' : d \in Callers /\ worker'[d] = worker[d]
    BY <1>0 DEF Present, Away
  <1>2. Spent' /\ Escalated'
    BY <1>0 DEF BoundInv, EscInv, Spent, Escalated, Away
  <1>3. \A p \in Projects : Runs(p)' \subseteq Runs(p)
    BY <1>1 DEF Runs, Remaining
  <1>4. \A p \in Projects : health'[p].failures <= health[p].failures
    BY DEF TInv, HealthInv
  <1>5. EscInv'
    BY <1>2, <1>3, <1>4, EscStays DEF BoundInv
  <1> QED BY <1>1, <1>5

(* The places of a cycle at which nothing is read or written that counts.  *)
LEMMA CarriedSteps ==
    ASSUME TInv, TInv', BoundInv, NEW c \in Callers,
           \/ RecoverStale(c) \/ (\E p \in Projects : PromoteProject(c, p))
           \/ (\E r \in Triggers : Promote(c, r))
           \/ SubmitRepair(c) \/ BindRepair(c)
           \/ (\E m \in Missions : StartWork(c, m))
           \/ EndAdvance(c) \/ FinishWork(c) \/ ReadRepair(c) \/ RecordOutcome(c)
    PROVE  BoundInv'
  <1>0. worker[c] \in Held /\ worker'[c] \in Held /\ Sound(worker[c], Len(cycles))
    BY DEF TInv, WorkInv, Sound
  <1> DEFINE w == worker'[c]
  <1>1. /\ w.at # "away" /\ w.cycle = worker[c].cycle /\ w.scope = worker[c].scope
        /\ worker[c].at \notin {"away", "health"}
        /\ w.left = worker[c].left \/ (w.left = worker[c].left - 1 /\ w.at = "health"
                                       /\ worker[c].left > 0)
        /\ w.at = "health" => w.left = worker[c].left - 1
        /\ worker' = [worker EXCEPT ![c] = w]
        /\ UNCHANGED <<cycles, faults, health>>
    <2>1. CASE RecoverStale(c)
      BY <1>0, <2>1 DEF RecoverStale, TInv, WorkInv, Held
    <2>2. CASE \E p \in Projects : PromoteProject(c, p)
      <3>1. PICK p \in Projects : PromoteProject(c, p)
        BY <2>2
      <3> DEFINE D == {r \in Triggers : /\ ProjectOf[r] = p
                                       /\ OpenRepair(r)
                                       /\ repairs[r].state = "admitted"
                                       /\ ~repairs[r].mission}
      <3>2. worker' = [worker EXCEPT ![c].queue = @ \ {p}, ![c].promoted = 0, ![c].due = D]
        BY <3>1 DEF PromoteProject
      <3>3. worker[c].at = "promote" /\ UNCHANGED <<cycles, faults, health>>
        BY <3>1 DEF PromoteProject
      <3> HIDE DEF D
      <3> QED BY <1>0, <3>2, <3>3 DEF TInv, WorkInv, Held
    <2>3. CASE \E r \in Triggers : Promote(c, r)
      <3>1. PICK r \in Triggers : Promote(c, r)
        BY <2>3
      <3> DEFINE refused == worker[c].promoted >= Admissions \/ repairs[r].disposition # None
                 bound == repairs[r].mission
                 n == IF worker[c].due = {r} THEN 0
                      ELSE IF refused THEN worker[c].promoted ELSE worker[c].promoted + 1
                 i == IF refused \/ bound THEN None ELSE r
                 a == IF refused \/ bound THEN "promote" ELSE "submit"
      <3>2. worker' = [worker EXCEPT ![c].due = @ \ {r}, ![c].promoted = n,
                                     ![c].item = i, ![c].at = a]
        BY <3>1, Zenon DEF Promote
      <3>3. worker[c].at = "promote" /\ UNCHANGED <<cycles, faults, health>>
            /\ a \in {"promote", "submit"}
        BY <3>1 DEF Promote
      <3> HIDE DEF n, i, a
      <3> QED BY <1>0, <3>2, <3>3 DEF TInv, WorkInv, Held
    <2>4. CASE SubmitRepair(c)
      BY <1>0, <2>4 DEF SubmitRepair, TInv, WorkInv, Held
    <2>5. CASE BindRepair(c)
      BY <1>0, <2>5 DEF BindRepair, TInv, WorkInv, Held
    <2>6. CASE \E m \in Missions : StartWork(c, m)
      <3>1. PICK m \in Missions : StartWork(c, m)
        BY <2>6
      <3>2. /\ worker' = [worker EXCEPT ![c] = [@ EXCEPT !.at = "work", !.item = m]]
            /\ worker[c].at = "promote" /\ UNCHANGED <<cycles, faults, health>>
        BY <1>0, <3>1 DEF StartWork, Advancing, TInv, WorkInv, Held
      <3> QED BY <1>0, <3>2 DEF TInv, WorkInv, Held
    <2>7. CASE EndAdvance(c)
      BY <1>0, <2>7 DEF EndAdvance, Advancing, TInv, WorkInv, Held
    <2>8. CASE FinishWork(c)
      <3>1. PICK r \in Returns(missions[worker[c].item].state) :
               worker' = [worker EXCEPT ![c].at = "health", ![c].state = r[1],
                                        ![c].class = r[2], ![c].left = @ - 1]
        BY <2>8 DEF FinishWork
      <3>2. /\ worker' = [worker EXCEPT ![c] =
                  [@ EXCEPT !.at = "health", !.state = r[1], !.class = r[2],
                            !.left = worker[c].left - 1]]
            /\ worker[c].at = "work" /\ UNCHANGED <<cycles, faults, health>>
        BY <1>0, <2>8, <3>1 DEF FinishWork, TInv, WorkInv, Held
      <3>3. worker[c].left > 0
        BY <1>0, <3>2 DEF Sound
      <3> DEFINE l == worker[c].left - 1
      <3>4. worker'[c] = [worker[c] EXCEPT !.at = "health", !.state = r[1],
                                           !.class = r[2], !.left = l]
        BY <3>2 DEF TInv, WorkInv
      <3>5. l = worker[c].left - 1
        OBVIOUS
      <3>6. worker' = [worker EXCEPT ![c] = w]
        BY <3>2, <3>4
      <3> HIDE DEF l
      <3>7. w.at = "health" /\ w.cycle = worker[c].cycle /\ w.scope = worker[c].scope
            /\ w.left = l
        BY <1>0, <3>4 DEF Held
      <3> QED BY <3>2, <3>3, <3>5, <3>6, <3>7
    <2>9. CASE ReadRepair(c)
      BY <1>0, <2>9 DEF ReadRepair, TInv, WorkInv, Held
    <2>10. CASE RecordOutcome(c)
      BY <1>0, <2>10 DEF RecordOutcome, Resting, TInv, WorkInv, Held
    <2> QED BY <2>1, <2>2, <2>3, <2>4, <2>5, <2>6, <2>7, <2>8, <2>9, <2>10
  <1>2. PerCycle \in Nat /\ worker[c].left \in 0..PerCycle
    BY <1>0, SupervisorAssumption DEF Held
  <1>3. Remaining(worker[c]) = worker[c].left
    BY <1>1 DEF Remaining
  <1>4. Remaining(w) <= Remaining(worker[c]) /\ (w.at = "health" => w.left < PerCycle)
    BY <1>1, <1>2, <1>3 DEF Remaining
  <1>5. c \in Present
    BY <1>1 DEF Present
  <1> HIDE DEF w
  <1> QED BY <1>1, <1>4, <1>5, Carried

(* The scope is read: nothing escalated is in it.                          *)
LEMMA ScopeRead ==
    ASSUME TInv, TInv', BoundInv, NEW c \in Callers, ReadScope(c)
    PROVE  BoundInv'
  <1>0. worker[c] \in Held /\ worker'[c] \in Held
    BY DEF TInv, WorkInv, Sound
  <1> DEFINE w == worker'[c]
  <1>1. /\ w.at = "promote" /\ w.cycle = worker[c].cycle
        /\ w.scope = {p \in Projects : Eligible(p)}
        /\ worker[c].at = "scope" /\ worker' = [worker EXCEPT ![c] = w]
        /\ UNCHANGED <<cycles, faults, health>>
    BY <1>0 DEF ReadScope, TInv, WorkInv, Held
  <1>2. c \in Present
    BY <1>1 DEF Present
  <1> HIDE DEF w
  <1>3. /\ LapseInv' /\ Present' = Present
        /\ \A d \in Callers : worker'[d] = IF d = c THEN w ELSE worker[d]
    BY <1>1, <1>2, SameLead DEF BoundInv
  <1>4. Spent' /\ Escalated'
    BY <1>1, <1>3 DEF BoundInv, EscInv, Spent, Escalated
  <1>5. ASSUME NEW p \in Projects PROVE Within(p)'
    <2>0. health[p].failures \in Nat /\ health[p].failures <= health[p].failures
          /\ Threshold \in Nat /\ faults <= faults'
      BY <1>1, SupervisorAssumption DEF TInv, HealthInv
    <2>1. CASE p \in w.scope
      <3>1. ~health[p].escalated
        BY <1>1, <2>1 DEF Eligible
      <3>2. health'[p].failures < 2 * Threshold
        BY <1>1, <2>0, <3>1 DEF BoundInv, EscInv, Escalated
      <3> QED BY <1>3, <3>2, StillLow
    <2>2. CASE p \notin w.scope
      <3>1. Runs(p)' \subseteq Runs(p)
        BY <1>3, <2>2 DEF Runs, Remaining, Present
      <3> QED BY <1>1, <2>0, <3>1, NoMoreRuns DEF BoundInv, EscInv
    <2> QED BY <2>1, <2>2
  <1> QED BY <1>3, <1>4, <1>5 DEF BoundInv, EscInv

(* A mission is done with: its failure is counted, and the invocation has  *)
(* one fewer left.                                                         *)
LEMMA HealthRecorded ==
    ASSUME TInv, TInv', BoundInv, NEW c \in Callers, RecordHealth(c)
    PROVE  BoundInv'
  <1>0. worker[c] \in Held /\ worker'[c] \in Held
    BY DEF TInv, WorkInv, Sound
  <1> DEFINE w == worker'[c]
             q == ProjectOf[worker[c].item]
  <1>1. /\ w.at # "away" /\ w.at # "health" /\ w.cycle = worker[c].cycle
        /\ w.scope = worker[c].scope /\ w.left = worker[c].left
        /\ worker[c].at = "health" /\ worker' = [worker EXCEPT ![c] = w]
        /\ UNCHANGED <<cycles, faults>>
    BY <1>0 DEF RecordHealth, Resting, TInv, WorkInv, Held
  <1>2. c \in Present
    BY <1>1 DEF Present
  <1>h. health' = IF q \in worker[c].scope
                  THEN [health EXCEPT ![q] = HealthAfter(@, worker[c].class)]
                  ELSE health
    BY DEF RecordHealth
  <1>i. worker[c].scope \subseteq Projects /\ worker[c].left \in 0..PerCycle
        /\ worker[c].left < PerCycle /\ PerCycle \in Nat /\ Threshold \in Nat \ {0}
    BY <1>0, <1>1, SupervisorAssumption DEF Held, BoundInv, EscInv, Spent
  <1> HIDE DEF w, q
  <1>3. /\ LapseInv' /\ Present' = Present
        /\ \A d \in Callers : worker'[d] = IF d = c THEN w ELSE worker[d]
    BY <1>1, <1>2, SameLead DEF BoundInv
  <1>r. \A d \in Present : d # c => worker'[d] = worker[d]
    BY <1>3 DEF Present
  <1>s. /\ worker'[c] = w /\ Remaining(w) = worker[c].left
        /\ Remaining(worker[c]) = worker[c].left + 1
    BY <1>1, <1>3 DEF Remaining
  <1>4. \A p \in Projects : Runs(p)' \subseteq Runs(p) \ {<<c, worker[c].left + 1>>}
    BY <1>i, <1>1, <1>3, <1>r, <1>s DEF Runs
  <1>5. ASSUME NEW p \in Projects
        PROVE  /\ Within(p)'
               /\ health'[p].failures >= 2 * Threshold => health'[p].escalated
    <2>0. /\ health[p] \in [failures : Nat, suppressed : BOOLEAN, escalated : BOOLEAN]
          /\ health[p].failures \in Nat /\ faults <= faults'
      BY <1>1, SupervisorAssumption DEF TInv, HealthInv
    <2>1. CASE p # q \/ q \notin worker[c].scope
      <3>1. health'[p] = health[p]
        BY <1>h, <2>1 DEF TInv, HealthInv
      <3>2. health'[p].failures <= health[p].failures
        BY <2>0, <3>1
      <3>3. Within(p)'
        BY <1>4, <2>0, <3>2, NoMoreRuns DEF BoundInv, EscInv
      <3> QED BY <3>1, <3>3 DEF BoundInv, EscInv, Escalated
    <2>2. CASE p = q /\ q \in worker[c].scope /\ worker[c].class # "infrastructure"
      <3>1. health'[p] = [health[p] EXCEPT !.failures = 0, !.suppressed = FALSE]
        BY <1>h, <2>2 DEF TInv, HealthInv, HealthAfter
      <3>2. health'[p].failures = 0
        BY <2>0, <3>1
      <3>3. health'[p].failures < 2 * Threshold
        BY <1>i, <3>2
      <3>4. Within(p)'
        BY <1>3, <3>3, StillLow
      <3> QED BY <1>i, <3>2, <3>4
    <2>3. CASE p = q /\ q \in worker[c].scope /\ worker[c].class = "infrastructure"
      <3>1. health'[p] = [failures |-> health[p].failures + 1,
                          suppressed |-> health[p].failures + 1 >= Threshold,
                          escalated |-> health[p].failures + 1 >= 2 * Threshold]
        BY <1>h, <2>3 DEF TInv, HealthInv, HealthAfter
      <3>2. health'[p].failures <= health[p].failures + 1
            /\ (health'[p].failures >= 2 * Threshold => health'[p].escalated)
        <4>1. /\ health'[p].failures = health[p].failures + 1
              /\ health'[p].escalated = (health[p].failures + 1 >= 2 * Threshold)
          BY <3>1
        <4>2. health[p].failures + 1 <= health[p].failures + 1
          BY <2>0
        <4> QED BY <4>1, <4>2
      <3>3. worker[c].left + 1 \in 1..PerCycle
            /\ worker[c].left + 1 <= worker[c].left + 1
        BY <1>i
      <3>4. <<c, worker[c].left + 1>> \in Runs(p)
        BY <1>2, <1>s, <2>3, <3>3 DEF Runs
      <3>5. Within(p)'
        BY <1>4, <2>0, <3>2, <3>4, OneRunLess DEF BoundInv, EscInv
      <3> QED BY <3>2, <3>5
    <2> QED BY <2>1, <2>2, <2>3
  <1>6. Spent'
    BY <1>1, <1>3 DEF BoundInv, EscInv, Spent
  <1> QED BY <1>3, <1>5, <1>6 DEF BoundInv, EscInv, Escalated

(* A new cycle: whoever is still at work has lost the lead already.        *)
LEMMA Claimed ==
    ASSUME TInv, TInv', BoundInv, NEW c \in Callers, ClaimCycle(c)
    PROVE  BoundInv'
  <1> DEFINE n == Len(cycles)
             w == worker'[c]
  <1>0. n \in Nat /\ DOMAIN cycles = 1..n
    BY RowsAre DEF TInv, CyclesInv
  <1>1. /\ Len(cycles') = n + 1
        /\ \A i \in 1..n : cycles'[i].outcome # "open"
        /\ cycles'[n + 1] = [outcome |-> "open", live |-> TRUE]
        /\ DOMAIN cycles' = 1..(n + 1)
    <2>1. CyclesInv
      BY DEF TInv
    <2> QED BY <2>1, ClaimBegins, RowsAre DEF TInv, CyclesInv
  <1>2. /\ w.at # "away" /\ w.at # "health" /\ w.cycle = n + 1 /\ w.scope = {}
        /\ worker[c].at = "away" /\ worker' = [worker EXCEPT ![c] = w]
        /\ UNCHANGED <<health, faults>>
        /\ \A i \in 1..n : cycles[i].outcome = "open" => ~cycles[i].live
    BY <1>0 DEF ClaimCycle, IsOpenCycle, Away, TInv, WorkInv
  <1> HIDE DEF n, w
  <1>3. \A d \in Callers : worker'[d] = IF d = c THEN w ELSE worker[d]
    BY <1>2 DEF TInv, WorkInv
  <1>4. Present' = Present \cup {c} /\ c \notin Present
        /\ \A d \in Present : d \in Callers /\ worker'[d] = worker[d]
    BY <1>2, <1>3 DEF Present
  <1>5. \A d \in Present : worker[d].cycle \in 1..n
    BY <1>0, CyclesOf DEF n
  <1>6. \A d \in Present : ~Leads(d)
    BY <1>2, <1>5 DEF Leads, IsOpenCycle
  <1>7. Leads(c)'
    BY <1>1, <1>2, <1>3 DEF Leads, IsOpenCycle
  <1>8. Lapsed' \subseteq Lapsed
    BY <1>4, <1>6, <1>7 DEF Lapsed
  <1>9. OneOpen'
    <2>1. \A i \in DOMAIN cycles' : cycles'[i].outcome = "open" => i = n + 1
      BY <1>0, <1>1
    <2> QED BY <2>1 DEF OneOpen, IsOpenCycle
  <1>10. Apart'
    <2>1. \A d \in Present : worker'[d].cycle # n + 1
      BY <1>0, <1>4, <1>5
    <2>2. worker'[c].cycle = n + 1
      BY <1>2, <1>3
    <2>3. \A d, e \in Present : d # e => worker'[d].cycle # worker'[e].cycle
      BY <1>4 DEF BoundInv, LapseInv, Apart
    <2> QED BY <1>4, <2>1, <2>2, <2>3 DEF Apart
  <1>11. faults <= faults' /\ \A p \in Projects : health'[p].failures <= health[p].failures
    BY <1>2, SupervisorAssumption DEF TInv, HealthInv
  <1>12. LapseInv'
    BY <1>8, <1>9, <1>10, <1>11, LapseStays DEF BoundInv
  <1>13. Spent' /\ Escalated'
    BY <1>2, <1>3 DEF BoundInv, EscInv, Spent, Escalated
  <1>14. \A p \in Projects : Runs(p)' \subseteq Runs(p)
    <2>1. worker'[c].scope = {}
      BY <1>2, <1>3
    <2> QED BY <1>4, <2>1 DEF Runs, Remaining
  <1>15. EscInv'
    BY <1>11, <1>13, <1>14, EscStays DEF BoundInv
  <1> QED BY <1>12, <1>15 DEF BoundInv

(* One row of the table is rewritten; no settled one is opened again.      *)
LEMMA RowsSettle ==
    ASSUME TInv, TInv', OneOpen, NEW i \in DOMAIN cycles, NEW row \in CycleRow,
           cycles' = [cycles EXCEPT ![i] = row],
           row.outcome = "open" => cycles[i].outcome = "open"
    PROVE  /\ OneOpen' /\ DOMAIN cycles' = DOMAIN cycles
           /\ \A j \in DOMAIN cycles : cycles'[j] = IF j = i THEN row ELSE cycles[j]
  <1>1. /\ DOMAIN cycles' = DOMAIN cycles
        /\ \A j \in DOMAIN cycles : cycles'[j] = IF j = i THEN row ELSE cycles[j]
    BY PutRow DEF TInv
  <1> QED BY <1>1 DEF OneOpen, IsOpenCycle

(* A lease is taken back: one fewer has lost the lead.                     *)
LEMMA Renewed ==
    ASSUME TInv, TInv', BoundInv, NEW c \in Callers, Renew(c)
    PROVE  BoundInv'
  <1> DEFINE i == worker[c].cycle
             row == [cycles[i] EXCEPT !.live = TRUE]
  <1>1. /\ c \in Present /\ cycles[i].outcome = "open"
        /\ cycles' = [cycles EXCEPT ![i] = row]
        /\ UNCHANGED <<worker, health, faults>>
    BY DEF Renew, Present, IsOpenCycle
  <1>2. i \in DOMAIN cycles
    BY <1>1, CyclesOf
  <1>3. row \in CycleRow /\ row.outcome = "open" /\ row.live
    BY <1>1, <1>2, RowsAre DEF CycleRow, TInv, CyclesInv
  <1> HIDE DEF i, row
  <1>4. /\ OneOpen' /\ DOMAIN cycles' = DOMAIN cycles
        /\ \A j \in DOMAIN cycles : cycles'[j] = IF j = i THEN row ELSE cycles[j]
    BY <1>1, <1>2, <1>3, RowsSettle DEF BoundInv, LapseInv
  <1>5. Present' = Present /\ (Apart' <=> Apart)
    BY <1>1 DEF Present, Apart
  <1>6. \A d \in Present : worker[d].cycle \in DOMAIN cycles
    BY CyclesOf
  <1>7. \A d \in Present : Leads(d) => Leads(d)'
    BY <1>1, <1>3, <1>4, <1>6 DEF Leads, IsOpenCycle
  <1>8. Lapsed' \subseteq Lapsed
    BY <1>5, <1>7 DEF Lapsed
  <1>9. faults <= faults' /\ \A p \in Projects : health'[p].failures <= health[p].failures
    BY <1>1, SupervisorAssumption DEF TInv, HealthInv
  <1>10. LapseInv'
    BY <1>4, <1>5, <1>8, <1>9, LapseStays DEF BoundInv, LapseInv
  <1>11. Spent' /\ Escalated' /\ \A p \in Projects : Runs(p)' \subseteq Runs(p)
    BY <1>1, <1>5 DEF BoundInv, EscInv, Spent, Escalated, Runs, Remaining
  <1>12. EscInv'
    BY <1>9, <1>11, EscStays DEF BoundInv
  <1> QED BY <1>10, <1>12 DEF BoundInv

(* A cycle is over, however it ends: only its own row is written.          *)
LEMMA Left ==
    ASSUME TInv, TInv', BoundInv, NEW c \in Callers, worker[c].at # "away",
           worker' = [worker EXCEPT ![c] = Away], UNCHANGED health, faults <= faults',
           UNCHANGED cycles \/ \E o \in Outcomes : cycles' = Closed(worker[c].cycle, o)
    PROVE  BoundInv'
  <1>1. c \in Present
    BY DEF Present
  <1>2. /\ EscInv' /\ Present' = Present \ {c}
        /\ \A d \in Present' : d \in Callers /\ worker'[d] = worker[d]
    BY <1>1, LeavesRuns
  <1>3. \A d \in Present : worker[d].cycle \in DOMAIN cycles
    BY CyclesOf
  <1>4. /\ OneOpen' /\ DOMAIN cycles' = DOMAIN cycles
        /\ \A j \in DOMAIN cycles : j # worker[c].cycle => cycles'[j] = cycles[j]
    <2>1. CASE cycles' = cycles
      BY <2>1 DEF BoundInv, LapseInv, OneOpen, IsOpenCycle
    <2>2. ASSUME NEW o \in Outcomes, cycles' = Closed(worker[c].cycle, o),
                 cycles' # cycles
          PROVE  /\ OneOpen' /\ DOMAIN cycles' = DOMAIN cycles
                 /\ \A j \in DOMAIN cycles : j # worker[c].cycle => cycles'[j] = cycles[j]
      <3> DEFINE row == [outcome |-> o, live |-> FALSE]
      <3>1. cycles' = [cycles EXCEPT ![worker[c].cycle] = row]
        BY <2>2 DEF Closed
      <3>2. row \in CycleRow /\ row.outcome # "open"
        BY DEF CycleRow, Outcomes
      <3> HIDE DEF row
      <3> QED BY <1>1, <1>3, <3>1, <3>2, RowsSettle DEF BoundInv, LapseInv
    <2> QED BY <2>1, <2>2
  <1>5. \A d \in Present' : /\ worker[d].cycle # worker[c].cycle
                            /\ worker[d].cycle \in DOMAIN cycles
    BY <1>1, <1>2, <1>3 DEF BoundInv, LapseInv, Apart
  <1>6. \A d \in Present' : Leads(d)' <=> Leads(d)
    BY <1>2, <1>4, <1>5 DEF Leads, IsOpenCycle
  <1>7. Lapsed' \subseteq Lapsed
    BY <1>2, <1>6 DEF Lapsed
  <1>8. Apart'
    BY <1>2 DEF BoundInv, LapseInv, Apart
  <1>9. LapseInv'
    BY <1>4, <1>7, <1>8, LapseStays DEF BoundInv
  <1> QED BY <1>2, <1>9 DEF BoundInv

(* A lease runs out: if anybody held it, one more has lost the lead, and   *)
(* it is counted.                                                          *)
LEMMA LeaseLost ==
    ASSUME TInv, TInv', BoundInv, NEW i \in DOMAIN cycles, CycleLeaseEnds(i)
    PROVE  BoundInv'
  <1> DEFINE row == [cycles[i] EXCEPT !.live = FALSE]
  <1>1. /\ cycles[i].outcome = "open" /\ cycles' = [cycles EXCEPT ![i] = row]
        /\ UNCHANGED <<worker, health>>
        /\ faults' = IF \E c \in Callers : worker[c].cycle = i THEN faults + 1 ELSE faults
    BY DEF CycleLeaseEnds, IsOpenCycle
  <1>2. row \in CycleRow /\ row.outcome = "open"
    BY <1>1, RowsAre DEF CycleRow, TInv, CyclesInv
  <1> HIDE DEF row
  <1>3. /\ OneOpen' /\ DOMAIN cycles' = DOMAIN cycles
        /\ \A j \in DOMAIN cycles : cycles'[j] = IF j = i THEN row ELSE cycles[j]
    BY <1>1, <1>2, RowsSettle DEF BoundInv, LapseInv
  <1>4. Present' = Present /\ Apart'
    BY <1>1 DEF Present, Apart, BoundInv, LapseInv
  <1>5. \A d \in Present : worker[d].cycle \in DOMAIN cycles
    BY CyclesOf
  <1>6. \A d \in Present : worker[d].cycle # i => (Leads(d)' <=> Leads(d))
    BY <1>1, <1>3, <1>5 DEF Leads, IsOpenCycle
  <1>7. faults \in Nat /\ faults' \in Nat /\ faults <= faults'
    BY <1>1, SupervisorAssumption DEF TInv
  <1>8. LapseInv'
    <2>1. CASE \A d \in Present : worker[d].cycle # i
      <3>1. Lapsed' \subseteq Lapsed
        BY <1>4, <1>6, <2>1 DEF Lapsed
      <3> QED BY <1>3, <1>4, <1>7, <3>1, LapseStays DEF BoundInv
    <2>2. ASSUME NEW c \in Present, worker[c].cycle = i PROVE LapseInv'
      <3>1. faults' = faults + 1
        BY <1>1, <2>2 DEF Present
      <3>2. \A d \in Present : d # c => worker[d].cycle # i
        BY <2>2 DEF BoundInv, LapseInv, Apart
      <3>3. Lapsed' \subseteq Lapsed \cup {c}
        BY <1>4, <1>6, <3>2 DEF Lapsed
      <3>4. IsFiniteSet(Lapsed) /\ Cardinality(Lapsed) <= faults /\ Cardinality(Lapsed) \in Nat
        BY FS_CardinalityType DEF BoundInv, LapseInv, FewLapsed
      <3>5. /\ IsFiniteSet(Lapsed \cup {c})
            /\ \/ Cardinality(Lapsed \cup {c}) = Cardinality(Lapsed)
               \/ Cardinality(Lapsed \cup {c}) = Cardinality(Lapsed) + 1
        BY <3>4, FS_AddElement
      <3>6. IsFiniteSet(Lapsed') /\ Cardinality(Lapsed') <= Cardinality(Lapsed \cup {c})
        BY <3>3, <3>5, FS_Subset
      <3>7. Cardinality(Lapsed') \in Nat
        BY <3>6, FS_CardinalityType
      <3>8. Cardinality(Lapsed') <= faults'
        BY <1>7, <3>1, <3>4, <3>5, <3>6, <3>7
      <3> QED BY <1>3, <1>4, <3>6, <3>8 DEF LapseInv, FewLapsed
    <2> QED BY <2>1, <2>2
  <1>9. Spent' /\ Escalated'
    BY <1>1 DEF BoundInv, EscInv, Spent, Escalated
  <1>10. \A p \in Projects : /\ Runs(p)' \subseteq Runs(p)
                             /\ health'[p].failures <= health[p].failures
    BY <1>1, <1>4 DEF Runs, Remaining, TInv, HealthInv
  <1>11. EscInv'
    BY <1>7, <1>9, <1>10, EscStays DEF BoundInv
  <1> QED BY <1>8, <1>11 DEF BoundInv

LEMMA InitBound == Init => BoundInv
  <1> SUFFICES ASSUME Init PROVE BoundInv
    OBVIOUS
  <1>0. TInv /\ faults = 0 /\ cycles = << >>
    BY InitTInv DEF Init
  <1>1. Present = {} /\ Lapsed = {}
    BY DEF Init, Away, Present, Lapsed
  <1>2. IsFiniteSet(Lapsed) /\ Cardinality(Lapsed) = 0
    BY <1>1, FS_EmptySet
  <1>3. LapseInv
    BY <1>0, <1>1, <1>2 DEF LapseInv, OneOpen, Apart, FewLapsed
  <1>4. Threshold \in Nat \ {0} /\ \A p \in Projects : health[p].failures = 0
    BY SupervisorAssumption DEF Init, Healthy
  <1>5. Spent /\ Escalated
    BY <1>4 DEF Init, Away, Spent, Escalated
  <1>6. ASSUME NEW p \in Projects PROVE Within(p)
    <2>1. Runs(p) = {}
      BY <1>1 DEF Runs
    <2>2. Cardinality(Runs(p)) = 0
      BY <2>1, FS_EmptySet
    <2>3. PerCycle * (1 + faults) \in Nat
      BY <1>0, SupervisorAssumption
    <2> QED BY <1>4, <2>2, <2>3 DEF Within, Ceiling
  <1> QED BY <1>3, <1>5, <1>6 DEF BoundInv, EscInv

LEMMA BoundStep ==
    ASSUME TInv, TInv', BoundInv, [Next]_vars
    PROVE  BoundInv'
  <1>0. \A p \in Projects :
          /\ health[p] \in [failures : Nat, suppressed : BOOLEAN, escalated : BOOLEAN]
          /\ health[p].failures >= 2 * Threshold => health[p].escalated
          /\ health[p].failures <= health[p].failures
    BY DEF TInv, HealthInv, BoundInv, EscInv, Escalated
  <1>f. faults \in Nat /\ faults <= faults /\ faults <= faults + 1 /\ Threshold \in Nat \ {0}
    BY SupervisorAssumption DEF TInv
  <1>1. ASSUME NEW c \in Callers, CycleStep(c) PROVE BoundInv'
    <2>1. CASE \/ RecoverStale(c) \/ (\E p \in Projects : PromoteProject(c, p))
               \/ (\E r \in Triggers : Promote(c, r))
               \/ SubmitRepair(c) \/ BindRepair(c)
               \/ (\E m \in Missions : StartWork(c, m))
               \/ EndAdvance(c) \/ FinishWork(c) \/ ReadRepair(c) \/ RecordOutcome(c)
      BY <2>1, CarriedSteps
    <2>2. CASE ReadScope(c)
      BY <2>2, ScopeRead
    <2>3. CASE RecordHealth(c)
      BY <2>3, HealthRecorded
    <2>4. CASE ClaimCycle(c)
      BY <2>4, Claimed
    <2>5. CASE Renew(c)
      BY <2>5, Renewed
    <2>6. CASE CloseCycle(c)
      <3>1. /\ worker[c].at # "away" /\ worker' = [worker EXCEPT ![c] = Away]
            /\ UNCHANGED <<health, faults>>
            /\ \E o \in Outcomes : cycles' = Closed(worker[c].cycle, o)
        BY <2>6 DEF CloseCycle, Outcomes
      <3> QED BY <1>f, <3>1, Left
    <2>7. CASE CrossBoundary(c)
      <3>1. UNCHANGED <<worker, cycles, health, faults>>
        BY <2>7 DEF CrossBoundary, ownVars
      <3> QED BY <1>0, <1>f, <3>1, Untouched
    <2> QED
      BY <1>1, <2>1, <2>2, <2>3, <2>4, <2>5, <2>6, <2>7 DEF CycleStep
  <1>2. CASE OwnerStep
    <2>1. /\ UNCHANGED <<worker, cycles>> /\ faults <= faults'
          /\ \/ UNCHANGED health
             \/ \E p \in Projects : health' = [health EXCEPT ![p] = Healthy]
             \/ \E p \in Projects : health' = [health EXCEPT ![p].suppressed = FALSE]
      BY <1>2, <1>f DEF OwnerStep, Transition, SettleStop, OwnerDies, Hold, OpenOrClose,
                        ClearHealth, SuppressionEnds
    <2>2. \A p \in Projects :
             /\ health'[p].failures <= health[p].failures
             /\ health'[p].failures >= 2 * Threshold => health'[p].escalated
      <3>1. CASE UNCHANGED health
        BY <1>0, <3>1
      <3>2. ASSUME NEW q \in Projects, health' = [health EXCEPT ![q] = Healthy],
                   NEW p \in Projects
            PROVE  /\ health'[p].failures <= health[p].failures
                   /\ health'[p].failures >= 2 * Threshold => health'[p].escalated
        <4>1. CASE p = q
          <5>1. health'[p].failures = 0
            BY <3>2, <4>1 DEF TInv, HealthInv, Healthy
          <5> QED BY <1>0, <1>f, <5>1
        <4>2. CASE p # q
          BY <1>0, <3>2, <4>2 DEF TInv, HealthInv
        <4> QED BY <4>1, <4>2
      <3>3. ASSUME NEW q \in Projects, health' = [health EXCEPT ![q].suppressed = FALSE],
                   NEW p \in Projects
            PROVE  /\ health'[p].failures <= health[p].failures
                   /\ health'[p].failures >= 2 * Threshold => health'[p].escalated
        <4>1. health'[p].failures = health[p].failures /\ health'[p].escalated = health[p].escalated
          BY <1>0, <3>3 DEF TInv, HealthInv
        <4> QED BY <1>0, <4>1
      <3> QED BY <2>1, <3>1, <3>2, <3>3
    <2> QED BY <2>1, <2>2, Untouched
  <1>3. CASE MaintenanceStep
    <2>1. UNCHANGED <<worker, cycles, health, faults>>
      BY <1>3 DEF MaintenanceStep, ownVars
    <2> QED BY <1>0, <1>f, <2>1, Untouched
  <1>4. CASE Fault
    <2>1. ASSUME NEW c \in Callers, Abandon(c) PROVE BoundInv'
      <3>1. /\ worker[c].at # "away" /\ worker' = [worker EXCEPT ![c] = Away]
            /\ UNCHANGED health /\ faults' = faults + 1
            /\ UNCHANGED cycles \/ \E o \in Outcomes : cycles' = Closed(worker[c].cycle, o)
        BY <2>1 DEF Abandon, Outcomes
      <3> QED BY <1>f, <3>1, Left
    <2>2. ASSUME NEW i \in DOMAIN cycles, CycleLeaseEnds(i) PROVE BoundInv'
      BY <2>2, LeaseLost
    <2> QED BY <1>4, <2>1, <2>2 DEF Fault
  <1>5. CASE UNCHANGED vars
    <2>1. UNCHANGED <<worker, cycles, health, faults>>
      BY <1>5 DEF vars
    <2> QED BY <1>0, <1>f, <2>1, Untouched
  <1> QED
    BY <1>1, <1>2, <1>3, <1>4, <1>5 DEF Next

(* However many cycles overlap, the consecutive failures on record of a    *)
(* project never exceed the escalation threshold by more than the missions *)
(* of one cycle, and of one more for every lease of a cycle that was lost. *)
(* Nothing is said of the missions spent: the count begins anew at every   *)
(* outcome that is not an infrastructure failure, a retry among them.      *)
THEOREM EscalationIsBounded == Spec => []EscalationBounds
  <1>1. Init => BoundInv
    BY InitBound
  <1>2. TInv /\ TInv' /\ BoundInv /\ [Next]_vars => BoundInv'
    BY BoundStep
  <1>3. TInv /\ BoundInv => EscalationBounds
    <2> SUFFICES ASSUME TInv, BoundInv, NEW p \in Projects
                 PROVE  health[p].failures <= Ceiling
      BY DEF EscalationBounds, Ceiling
    <2>1. Cardinality(Runs(p)) \in Nat /\ health[p].failures \in Nat
      BY RunsFew DEF FewRuns, BoundInv, TInv, HealthInv
    <2>2. PerCycle * (1 + faults) \in Nat /\ Threshold \in Nat
      BY Shares, SupervisorAssumption DEF TInv
    <2>3. Ceiling \in Int
      BY <2>2 DEF Ceiling
    <2>4. Cardinality(Runs(p)) + health[p].failures <= Ceiling
      BY DEF BoundInv, EscInv, Within
    <2> QED BY <2>1, <2>3, <2>4
  <1> QED BY <1>1, <1>2, <1>3, SupervisorInvariance, PTL DEF Spec

=============================================================================
