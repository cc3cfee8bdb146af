----------------------------- MODULE AweProofs -----------------------------
(***************************************************************************)
(* Proofs about the AWE ledger and its workers, for any tasks, slots,      *)
(* workers and bounds.                                                     *)
(*                                                                         *)
(* TInv is the typing, with what a program counter says of the locals.     *)
(* On top of it, IInv says that a token belongs to the worker it was given *)
(* to (Bound) and that, as long as no lease ran out during a cycle on its  *)
(* task, a cycle only extends a lease that is still live (Punctual).  CInv *)
(* follows an accepted head from the gate, through the writes of the cycle *)
(* (Passed), to the evidence of the completed claim.  VInv (Standing) ties *)
(* the page of a task to its lease: whoever moves the page has the lease,  *)
(* and while the page is in Review it is only completed.                   *)
(***************************************************************************)
EXTENDS AweProperties, TLAPS

-----------------------------------------------------------------------------
(* Typing.                                                                  *)

\* At these the goal of the writes is set.
Aiming == {"owner", "source", "move", "board", "erase", "append"}

JobOK(j) ==
    /\ j \in Job
    /\ j.pc = "idle" <=> j.task = None
    /\ j.pc \in Aiming => j.goal # None
    /\ j.pc = "owner" => j.goal = "Blocked"

JobsOK == job \in [Workers -> Job] /\ \A w \in Workers : JobOK(job[w])

TInv == AweTypeOK /\ JobsOK

LEMMA IdleOK == JobOK(Idle)
  BY LedgerAssumption DEF JobOK, Job, Idle, PC, Aiming, Status

\* One worker moves to a proper local state.
LEMMA OneJob ==
    ASSUME JobsOK, NEW w \in Workers, NEW j, JobOK(j), job' = [job EXCEPT ![w] = j]
    PROVE  JobsOK'
  BY DEF JobsOK, JobOK

LEMMA ReturnOK ==
    ASSUME JobsOK, NEW w \in Workers, Return(w)
    PROVE  JobsOK'
  BY OneJob, IdleOK DEF Return

LEMMA GotoOK ==
    ASSUME JobsOK, NEW w \in Workers, NEW pc \in PC \ {"idle", "owner"}, ~At(w, "idle"),
           pc \in Aiming => job[w].goal # None, Goto(w, pc)
    PROVE  JobsOK'
<1> DEFINE j == [job[w] EXCEPT !.pc = pc]
<1>1. JobOK(j)
  BY DEF JobsOK, JobOK, Job, At
<1>2. job' = [job EXCEPT ![w] = j]
  BY DEF Goto, JobsOK
<1>3. QED
  BY <1>1, <1>2, OneJob

LEMMA LeaveOK ==
    ASSUME JobsOK, NEW w \in Workers, NEW pc \in PC \ {"owner"}, ~At(w, "idle"),
           pc \in Aiming => job[w].goal # None, Leave(w, pc)
    PROVE  JobsOK'
  BY ReturnOK, GotoOK DEF Leave

LEMMA AfterWritesPC ==
    ASSUME NEW w, NEW ok \in BOOLEAN
    PROVE  AfterWrites(w, ok) \in PC \ Aiming /\ AfterWrites(w, ok) # "owner"
  BY DEF AfterWrites, PC, Aiming

LEMMA WriteFailsOK ==
    ASSUME JobsOK, NEW w \in Workers, ~At(w, "idle"), WriteFails(w)
    PROVE  JobsOK'
  BY AfterWritesPC, LeaveOK DEF WriteFails

LEMMA BusyTask ==
    ASSUME JobsOK, NEW w \in Workers, ~At(w, "idle")
    PROVE  Task(w) \in Tasks
  BY DEF JobsOK, JobOK, Job, At, Task

LEMMA GrantRowsType ==
    ASSUME AweTypeOK, NEW t \in Tasks, NEW w \in Workers, GrantRows(t, w)
    PROVE  /\ claims' \in [Tasks -> Claims] /\ issued' \in [Tasks -> Nat]
           /\ UNCHANGED <<evidence, verdicts, accepted>>
  BY DEF AweTypeOK, GrantRows, Claims, ClaimStates

LEMMA ResumeRowsType ==
    ASSUME AweTypeOK, NEW t \in Tasks, ResumeRows(t)
    PROVE  /\ claims' \in [Tasks -> Claims] /\ issued' \in [Tasks -> Nat]
           /\ UNCHANGED <<evidence, verdicts, accepted>>
  BY DEF AweTypeOK, ResumeRows, Claims

LEMMA CloseType ==
    ASSUME AweTypeOK, NEW t \in Tasks, NEW token, NEW new \in {"review", "blocked"},
           NEW h \in 0..MaxHead, Close(t, token, new, h)
    PROVE  /\ claims' \in [Tasks -> Claims] /\ evidence' \in [Tasks -> 0..MaxHead]
           /\ UNCHANGED <<issued, verdicts, accepted>>
<1>0. claims[t] \in Claims /\ evidence[t] \in 0..MaxHead
  BY DEF AweTypeOK
<1>1. CASE claims[t].token = token
  <2> DEFINE c == [claims[t] EXCEPT !.state = new, !.live = FALSE]
  <2>1. claims' = [claims EXCEPT ![t] = c]
    BY <1>1 DEF AweTypeOK, Close
  <2>2. c \in Claims
    BY <1>0 DEF Claims, ClaimStates
  <2> DEFINE e == IF new = "review" THEN h ELSE evidence[t]
  <2>3. evidence' = [evidence EXCEPT ![t] = e] /\ e \in 0..MaxHead
    BY <1>0, <1>1 DEF AweTypeOK, Close
  <2>4. QED
    BY <2>1, <2>2, <2>3 DEF AweTypeOK, Close
<1>2. CASE claims[t].token # token
  BY <1>2 DEF AweTypeOK, Close
<1>3. QED
  BY <1>1, <1>2

LEMMA CleanedType ==
    ASSUME AweTypeOK
    PROVE  Cleaned \in [Tasks -> Claims]
  BY DEF AweTypeOK, Cleaned, Claims, ClaimStates

LEMMA GrantedType ==
    ASSUME TInv, NEW w \in Workers, ~At(w, "idle"),
           NEW pc \in PC \ {"idle"}, NEW goal \in Status, Granted(w, pc, goal),
           pc = "owner" => goal = "Blocked"
    PROVE  /\ JobsOK'
           /\ claims' \in [Tasks -> Claims] /\ issued' \in [Tasks -> Nat]
           /\ UNCHANGED <<evidence, verdicts, accepted>>
<1> DEFINE t == Task(w)
<1>1. t \in Tasks
  BY BusyTask DEF TInv
<1>2. JobOK(job[w]) /\ job[w] \in Job /\ goal # None
  BY WorkerAssumption DEF TInv, JobsOK, JobOK
<1>3. CASE Resumes(t, w, job[w].late) /\ ResumeRows(t)
           /\ job' = [job EXCEPT ![w].pc = pc, ![w].goal = goal, ![w].late = {},
                                 ![w].token = claims[t].token, ![w].working = TRUE]
  <2> DEFINE j == [job[w] EXCEPT !.pc = pc, !.goal = goal, !.late = {},
                                 !.token = claims[t].token, !.working = TRUE]
  <2>1. claims[t].token \in Nat
    BY <1>1 DEF TInv, AweTypeOK, Claims
  <2>2. JobOK(j)
    BY <1>2, <2>1 DEF JobOK, Job, At
  <2>3. job' = [job EXCEPT ![w] = j]
    BY <1>3 DEF TInv, JobsOK
  <2>4. QED
    BY <1>1, <1>3, <2>2, <2>3, OneJob, ResumeRowsType DEF TInv
<1>4. CASE Free(t, job[w].late) /\ GrantRows(t, w)
           /\ job' = [job EXCEPT ![w].pc = pc, ![w].goal = goal, ![w].late = {},
                                 ![w].token = issued'[t]]
  <2> DEFINE j == [job[w] EXCEPT !.pc = pc, !.goal = goal, !.late = {}, !.token = issued'[t]]
  <2>1. issued'[t] \in Nat
    BY <1>1, <1>4, GrantRowsType DEF TInv
  <2>2. JobOK(j)
    BY <1>2, <2>1 DEF JobOK, Job, At
  <2>3. job' = [job EXCEPT ![w] = j]
    BY <1>4 DEF TInv, JobsOK
  <2>4. QED
    BY <1>1, <1>4, <2>2, <2>3, OneJob, GrantRowsType DEF TInv
<1>5. QED
  BY <1>3, <1>4 DEF Granted

\* The types of the exchange, of the branches and of the bookkeeping.
ExchangeTyped ==
    /\ folder \in [Tasks -> Status] /\ board \in [Tasks -> Status]
    /\ current \in [Tasks -> BOOLEAN] /\ needsOwner \in [Tasks -> BOOLEAN]
    /\ note \in [Tasks -> Workers \cup {None}]
    /\ pointer \in [Slots -> Pointers]
    /\ head \in [Tasks -> 0..MaxHead]
    /\ faults \in Nat /\ stalled \in BOOLEAN

LEMMA FaultTyped ==
    ASSUME faults \in Nat, stalled \in BOOLEAN, Fault \/ NoFault
    PROVE  faults' \in Nat /\ stalled' \in BOOLEAN
  BY DEF Fault, NoFault

\* A step that leaves the exchange and the ledger alone.
LEMMA JobStepType ==
    ASSUME TInv, JobsOK', UNCHANGED <<ledgerVars, exchangeVars, head>>, Fault \/ NoFault
    PROVE  TInv'
  BY FaultTyped DEF TInv, AweTypeOK, ledgerVars, exchangeVars, JobsOK

\* A step that writes the ledger only.
LEMMA LedgerStepType ==
    ASSUME TInv, JobsOK', UNCHANGED <<exchangeVars, head>>, Fault \/ NoFault,
           claims' \in [Tasks -> Claims], issued' \in [Tasks -> Nat],
           evidence' \in [Tasks -> 0..MaxHead], UNCHANGED <<verdicts, accepted>>
    PROVE  TInv'
  BY FaultTyped DEF TInv, AweTypeOK, exchangeVars, JobsOK

\* A step that writes the exchange only.
LEMMA ExchangeStepType ==
    ASSUME TInv, JobsOK', UNCHANGED ledgerVars, ExchangeTyped'
    PROVE  TInv'
  BY DEF TInv, AweTypeOK, ledgerVars, JobsOK, ExchangeTyped

LEMMA ObserveType ==
    ASSUME TInv, NEW w \in Workers, NEW s \in Slots, Observe(w, s)
    PROVE  TInv'
<1>1. PICK t \in Eligible(s) :
           job' = [job EXCEPT ![w] =
                [Idle EXCEPT !.pc = "preflight", !.task = t, !.owner = needsOwner[t],
                             !.working = (folder[t] = "In Progress"),
                             !.certifiers = {c \in CertifierOf[t] :
                                                folder[c] \notin {"In Progress", "Review"}}]]
  BY DEF Observe
<1> DEFINE j == [Idle EXCEPT !.pc = "preflight", !.task = t, !.owner = needsOwner[t],
                             !.working = (folder[t] = "In Progress"),
                             !.certifiers = {c \in CertifierOf[t] :
                                                folder[c] \notin {"In Progress", "Review"}}]
<1>2. t \in Tasks
  BY DEF Eligible, Offered
<1>3. /\ {c \in CertifierOf[t] : folder[c] \notin {"In Progress", "Review"}} \in SUBSET Tasks
      /\ needsOwner[t] \in BOOLEAN
  BY <1>2, WorkerAssumption DEF TInv, AweTypeOK
<1>4. JobOK(j)
  <2>1. j.pc = "preflight" /\ j.task = t /\ t # None
    BY <1>2, LedgerAssumption DEF Idle
  <2>2. Idle \in Job
    BY IdleOK DEF JobOK
  <2>3. j \in Job
    BY <1>2, <1>3, <2>2 DEF Job, PC
  <2>4. QED
    BY <2>1, <2>3 DEF JobOK, Aiming
<1>5. JobsOK'
  BY <1>1, <1>4, OneJob DEF TInv
<1>6. QED
  BY <1>5, CleanedType, LedgerStepType DEF Observe, TInv, AweTypeOK

LEMMA ClaimType ==
    ASSUME TInv, NEW w \in Workers, Claim(w)
    PROVE  TInv'
<1>1. ~At(w, "idle")
  BY DEF Claim, At
<1>2. CASE Granted(w, IF job[w].working THEN "wake" ELSE "source", "In Progress")
  <2>1. "In Progress" \in Status /\ (IF job[w].working THEN "wake" ELSE "source") \in PC \ {"idle"}
    BY DEF Status, PC
  <2>2. QED
    BY <1>1, <1>2, <2>1, GrantedType, LedgerStepType DEF Claim, TInv, AweTypeOK
<1>3. CASE Return(w) /\ UNCHANGED ledgerVars
  BY <1>3, ReturnOK, JobStepType DEF Claim, TInv
<1>4. QED
  BY <1>2, <1>3 DEF Claim

LEMMA EscalateType ==
    ASSUME TInv, NEW w \in Workers, Escalate(w)
    PROVE  TInv'
<1>1. ~At(w, "idle")
  BY DEF Escalate, At
<1>2. "Blocked" \in Status /\ "owner" \in PC \ {"idle"}
  BY DEF Status, PC
<1>3. CASE Granted(w, "owner", "Blocked")
  BY <1>1, <1>2, <1>3, GrantedType, LedgerStepType DEF Escalate, TInv, AweTypeOK
<1>4. CASE /\ job' = [job EXCEPT ![w].pc = "move", ![w].goal = "Blocked", ![w].late = {}]
           /\ UNCHANGED ledgerVars
  <2> DEFINE j == [job[w] EXCEPT !.pc = "move", !.goal = "Blocked", !.late = {}]
  <2>1. JobOK(j)
    BY <1>1, <1>2, WorkerAssumption DEF TInv, JobsOK, JobOK, Job, PC, At
  <2>2. job' = [job EXCEPT ![w] = j]
    BY <1>4 DEF TInv, JobsOK
  <2>3. QED
    BY <1>4, <2>1, <2>2, OneJob, JobStepType DEF Escalate, TInv
<1>5. QED
  BY <1>3, <1>4 DEF Escalate

LEMMA SettleType ==
    ASSUME TInv, NEW w \in Workers, BlockForOwner(w) \/ Abandon(w) \/ CloseClaim(w)
    PROVE  TInv'
<1>1. ~At(w, "idle")
  BY DEF BlockForOwner, Abandon, CloseClaim, At
<1>2. Task(w) \in Tasks
  BY <1>1, BusyTask DEF TInv
<1>3. 0 \in 0..MaxHead /\ job[w].head \in 0..MaxHead
  BY LedgerAssumption DEF TInv, JobsOK, Job
<1>4. JobsOK'
  <2>1. CASE BlockForOwner(w)
    BY <1>1, <2>1, GotoOK DEF BlockForOwner, TInv, JobsOK, JobOK, At, Aiming, PC
  <2>2. CASE Abandon(w) \/ CloseClaim(w)
    BY <2>2, ReturnOK DEF Abandon, CloseClaim, TInv
  <2>3. QED
    BY <2>1, <2>2
<1>5. PICK new \in {"review", "blocked"}, h \in 0..MaxHead :
          Close(Task(w), job[w].token, new, h)
  BY <1>3 DEF BlockForOwner, Abandon, CloseClaim
<1>6. QED
  BY <1>2, <1>4, <1>5, CloseType, LedgerStepType
  DEF BlockForOwner, Abandon, CloseClaim, TInv, AweTypeOK

LEMMA QuietStepType ==
    ASSUME TInv, NEW w \in Workers, UNCHANGED <<ledgerVars, exchangeVars, head>>,
           Fault \/ NoFault,
           \/ Return(w)
           \/ \E pc \in PC \ ({"idle"} \cup Aiming) : ~At(w, "idle") /\ Goto(w, pc)
    PROVE  TInv'
  BY ReturnOK, GotoOK, JobStepType DEF TInv, Aiming

LEMMA LocalType ==
    ASSUME TInv, NEW w \in Workers,
           Preflight(w) \/ CheckSource(w) \/ Wake(w) \/ Detect(w) \/ ReadGate(w) \/ Decide(w)
             \/ Crash(w)
    PROVE  TInv'
<1>1. CASE Preflight(w)
  BY <1>1, QuietStepType DEF Preflight, At, PC, Aiming
<1>2. CASE CheckSource(w)
  <2>1. CASE Goto(w, "move")
    BY <1>2, <2>1, GotoOK, JobStepType DEF CheckSource, TInv, JobsOK, JobOK, At, Aiming, PC
  <2>2. CASE Goto(w, "abandon")
    BY <1>2, <2>2, QuietStepType DEF CheckSource, At, PC, Aiming
  <2>3. QED
    BY <1>2, <2>1, <2>2 DEF CheckSource
<1>3. CASE Wake(w)
  BY <1>3, QuietStepType DEF Wake, At, PC, Aiming
<1>4. CASE Detect(w)
  <2>1. CASE Return(w)
    BY <1>4, <2>1, QuietStepType DEF Detect
  <2>2. CASE job' = [job EXCEPT ![w].pc = "gate", ![w].head = head[Task(w)]]
    <3> DEFINE j == [job[w] EXCEPT !.pc = "gate", !.head = head[Task(w)]]
    <3>1. head[Task(w)] \in 0..MaxHead
      BY <1>4, BusyTask DEF TInv, AweTypeOK, Detect, At
    <3>2. JobOK(j)
      BY <1>4, <3>1 DEF Detect, TInv, JobsOK, JobOK, Job, PC, At, Aiming
    <3>3. job' = [job EXCEPT ![w] = j]
      BY <2>2 DEF TInv, JobsOK
    <3>4. QED
      BY <1>4, <3>2, <3>3, OneJob, JobStepType DEF Detect, TInv
  <2>3. QED
    BY <1>4, <2>1, <2>2 DEF Detect
<1>5. CASE ReadGate(w)
  <2>1. PICK g \in Status \cup {None} :
            job' = [job EXCEPT ![w].pc = "certifiers", ![w].goal = g]
    BY <1>5 DEF ReadGate, Gate, Status
  <2> DEFINE j == [job[w] EXCEPT !.pc = "certifiers", !.goal = g]
  <2>2. JobOK(j)
    <3>1. job[w] \in Job /\ job[w].task # None
      BY <1>5 DEF ReadGate, TInv, JobsOK, JobOK, At
    <3>2. j \in Job
      BY <2>1, <3>1 DEF Job, PC
    <3>3. j.pc = "certifiers" /\ j.task # None
      BY <3>1 DEF Job
    <3>4. QED
      BY <3>2, <3>3 DEF JobOK, Aiming
  <2>3. job' = [job EXCEPT ![w] = j]
    BY <2>1 DEF TInv, JobsOK
  <2>4. QED
    BY <1>5, <2>2, <2>3, OneJob, JobStepType DEF ReadGate, TInv
<1>6. CASE Decide(w)
  BY <1>6, ReturnOK, GotoOK, JobStepType DEF Decide, TInv, At, PC
<1>7. CASE Crash(w)
  BY <1>7, QuietStepType DEF Crash
<1>8. QED
  BY <1>1, <1>2, <1>3, <1>4, <1>5, <1>6, <1>7

LEMMA WriteType ==
    ASSUME TInv, NEW w \in Workers, Move(w) \/ Project(w) \/ Erase(w) \/ Append(w)
    PROVE  TInv'
<1>1. ~At(w, "idle") /\ Task(w) \in Tasks
  BY BusyTask DEF TInv, Move, Project, Erase, Append, At
<1>2. job[w].goal \in Status
  BY DEF TInv, JobsOK, JobOK, Job, Aiming, Move, Project, Erase, Append, At
<1>3. faults' \in Nat /\ stalled' \in BOOLEAN
  BY FaultTyped
  DEF Move, Project, Erase, Append, WriteFails, TInv, AweTypeOK, Fault, NoFault
<1>4. CASE Move(w)
  <2>1. folder' \in [Tasks -> Status]
    BY <1>1, <1>2, <1>4 DEF Move, Moved, TInv, AweTypeOK
  <2>2. JobsOK'
    <3>1. CASE Goto(w, "board")
      BY <1>1, <1>2, <3>1, GotoOK, WorkerAssumption DEF TInv, PC
    <3>2. CASE WriteFails(w)
      BY <1>1, <3>2, WriteFailsOK DEF TInv
    <3>3. QED
      BY <1>4, <3>1, <3>2 DEF Move
  <2>3. QED
    BY <1>3, <1>4, <2>1, <2>2, ExchangeStepType DEF Move, ExchangeTyped, TInv, AweTypeOK
<1>5. CASE Project(w)
  <2>1. /\ board' \in [Tasks -> Status] /\ current' \in [Tasks -> BOOLEAN]
        /\ needsOwner' \in [Tasks -> BOOLEAN] /\ note' \in [Tasks -> Workers \cup {None}]
    <3>1. CASE UNCHANGED <<board, current, needsOwner, note>>
      BY <3>1 DEF TInv, AweTypeOK
    <3>2. CASE Projected(w)
      <4>1. board' \in [Tasks -> Status] /\ note' \in [Tasks -> Workers \cup {None}]
        BY <1>1, <1>2, <3>2 DEF Projected, TInv, AweTypeOK
      <4> DEFINE c == current[Task(w)] \/ job[w].goal = "In Progress"
                 n == needsOwner[Task(w)] \/ job[w].goal = "Blocked"
      <4>2. c \in BOOLEAN /\ n \in BOOLEAN
        OBVIOUS
      <4>3. current' = [current EXCEPT ![Task(w)] = c]
        BY <1>1, <3>2 DEF Projected, TInv, AweTypeOK
      <4>4. needsOwner' = [needsOwner EXCEPT ![Task(w)] = n]
        BY <1>1, <3>2 DEF Projected, TInv, AweTypeOK
      <4> HIDE DEF c, n
      <4>5. QED
        BY <4>1, <4>2, <4>3, <4>4 DEF TInv, AweTypeOK
    <3>3. QED
      BY <1>5, <3>1, <3>2 DEF Project
  <2>2. JobsOK'
    <3>1. CASE Goto(w, "erase")
      BY <1>1, <1>2, <3>1, GotoOK, WorkerAssumption DEF TInv, PC
    <3>2. CASE WriteFails(w)
      BY <1>1, <3>2, WriteFailsOK DEF TInv
    <3>3. QED
      BY <1>5, <3>1, <3>2 DEF Project
  <2>3. QED
    BY <1>3, <1>5, <2>1, <2>2, ExchangeStepType DEF Project, ExchangeTyped, TInv, AweTypeOK
<1>6. CASE Erase(w)
  <2>1. \A S : Erased(S) \in [Slots -> Pointers]
    BY DEF Erased, NoPointer, Pointers, TInv, AweTypeOK
  <2>2. pointer' \in [Slots -> Pointers]
    BY <1>6, <2>1 DEF Erase
  <2>3. JobsOK'
    <3>1. CASE Goto(w, "append")
      BY <1>1, <1>2, <3>1, GotoOK, WorkerAssumption DEF TInv, PC
    <3>2. CASE WriteFails(w)
      BY <1>1, <3>2, WriteFailsOK DEF TInv
    <3>3. QED
      BY <1>6, <3>1, <3>2 DEF Erase
  <2>4. QED
    BY <1>3, <1>6, <2>2, <2>3, ExchangeStepType DEF Erase, ExchangeTyped, TInv, AweTypeOK
<1>7. CASE Append(w)
  <2>1. pointer' \in [Slots -> Pointers]
    <3> DEFINE p == IF job[w].goal \in {"Queue", "In Progress"}
                    THEN [task |-> Task(w), lifecycle |-> job[w].goal]
                    ELSE NoPointer
    <3>1. p \in Pointers
      BY <1>1, <1>2 DEF Pointers, NoPointer
    <3>2. pointer' = pointer \/ pointer' = [pointer EXCEPT ![SlotOf[Task(w)]] = p]
      BY <1>7 DEF Append, Pointed
    <3>3. QED
      BY <3>1, <3>2 DEF TInv, AweTypeOK
  <2>2. JobsOK'
    <3>1. CASE Leave(w, AfterWrites(w, TRUE))
      BY <1>1, <3>1, LeaveOK, AfterWritesPC DEF TInv
    <3>2. CASE WriteFails(w)
      BY <1>1, <3>2, WriteFailsOK DEF TInv
    <3>3. QED
      BY <1>7, <3>1, <3>2 DEF Append
  <2>3. QED
    BY <1>3, <1>7, <2>1, <2>2, ExchangeStepType DEF Append, ExchangeTyped, TInv, AweTypeOK
<1>8. QED
  BY <1>4, <1>5, <1>6, <1>7

LEMMA QueueCertifierType ==
    ASSUME TInv, NEW w \in Workers, QueueCertifier(w)
    PROVE  TInv'
<1>1. PICK c \in job[w].certifiers :
          \/ /\ board' = [board EXCEPT ![c] = "Queue"] /\ note' = [note EXCEPT ![c] = None]
             /\ job' = [job EXCEPT ![w].certifiers = @ \ {c}] /\ NoFault
          \/ UNCHANGED <<board, note>> /\ Return(w) /\ Fault
  BY DEF QueueCertifier
<1>2. JobOK(job[w]) /\ job[w] \in Job /\ c \in Tasks
  BY DEF TInv, JobsOK, JobOK, Job
<1>3. /\ UNCHANGED <<ledgerVars, folder, current, needsOwner, pointer, head>>
      /\ faults' \in Nat /\ stalled' \in BOOLEAN
  BY <1>1, FaultTyped DEF QueueCertifier, TInv, AweTypeOK
<1>4. board' \in [Tasks -> Status] /\ note' \in [Tasks -> Workers \cup {None}]
  BY <1>1, <1>2 DEF TInv, AweTypeOK, Status
<1>5. JobsOK'
  <2>1. CASE job' = [job EXCEPT ![w].certifiers = @ \ {c}]
    <3> DEFINE j == [job[w] EXCEPT !.certifiers = @ \ {c}]
    <3>1. JobOK(j)
      BY <1>2 DEF JobOK, Job
    <3>2. job' = [job EXCEPT ![w] = j]
      BY <2>1 DEF TInv, JobsOK
    <3>3. QED
      BY <3>1, <3>2, OneJob DEF TInv
  <2>2. CASE Return(w)
    BY <2>2, ReturnOK DEF TInv
  <2>3. QED
    BY <1>1, <2>1, <2>2
<1>6. QED
  BY <1>3, <1>4, <1>5, ExchangeStepType DEF ExchangeTyped, TInv, AweTypeOK

LEMMA ExpireType ==
    ASSUME TInv, NEW t \in Tasks, Expire(t)
    PROVE  TInv'
<1>1. claims' \in [Tasks -> Claims]
  BY DEF Expire, TInv, AweTypeOK, Claims
<1>2. faults' \in Nat /\ stalled' \in BOOLEAN
  BY DEF Expire, TInv, AweTypeOK
<1>3. \A w \in Workers : JobOK([job[w] EXCEPT !.late = @ \cup {t}])
  BY DEF TInv, JobsOK, JobOK, Job
<1>4. JobsOK'
  BY <1>3 DEF Expire, TInv, JobsOK, JobOK
<1>5. QED
  BY <1>1, <1>2, <1>4 DEF Expire, TInv, AweTypeOK, exchangeVars, JobsOK

LEMMA OthersType ==
    ASSUME TInv, NEW t \in Tasks, Others(t)
    PROVE  TInv'
<1>1. JobsOK' /\ faults' \in Nat /\ stalled' \in BOOLEAN
  BY DEF Others, Agent, Certify, Assign, KeepForOwner, NoFault, TInv, JobsOK, JobOK, AweTypeOK
<1>2. CASE Agent(t)
  <2>1. head' \in [Tasks -> 0..MaxHead]
    <3>1. head[t] \in 0..MaxHead /\ head[t] < MaxHead
      BY <1>2 DEF Agent, TInv, AweTypeOK
    <3>2. head[t] + 1 \in 0..MaxHead
      BY <3>1, LedgerAssumption
    <3>3. QED
      BY <1>2, <3>2 DEF Agent, TInv, AweTypeOK
  <2>2. QED
    BY <1>1, <1>2, <2>1 DEF Agent, TInv, AweTypeOK, ledgerVars, exchangeVars, JobsOK
<1>3. CASE Certify(t)
  <2>1. PICK h \in 1..head[t], r \in Roles, v \in {"accept", "reject"} :
            record_certification(t, h, r, v)
    BY <1>3 DEF Certify
  <2>2. h \in Commits
    BY LedgerAssumption DEF TInv, AweTypeOK, Commits
  <2>3. verdicts' \in [Tasks -> [Commits -> [Roles -> {"none", "accept", "reject"}]]]
    BY <2>1, <2>2 DEF record_certification, TInv, AweTypeOK
  <2>4. accepted' \in SUBSET (Tasks \X Commits \X Roles)
    BY <2>1, <2>2 DEF record_certification, TInv, AweTypeOK
  <2>5. QED
    BY <1>1, <1>3, <2>1, <2>3, <2>4
    DEF Certify, record_certification, TInv, AweTypeOK, exchangeVars, JobsOK
<1>4. CASE Assign(t)
  <2>1. /\ folder' \in [Tasks -> Status] /\ board' \in [Tasks -> Status]
        /\ needsOwner' \in [Tasks -> BOOLEAN] /\ note' \in [Tasks -> Workers \cup {None}]
    BY <1>4 DEF Assign, TInv, AweTypeOK, Status
  <2>2. current' \in [Tasks -> BOOLEAN]
    BY <1>4 DEF Assign, TInv, AweTypeOK
  <2>3. pointer' \in [Slots -> Pointers]
    BY <1>4 DEF Assign, TInv, AweTypeOK, Pointers, Status
  <2>4. QED
    BY <1>1, <1>4, <2>1, <2>2, <2>3, ExchangeStepType DEF Assign, ExchangeTyped, TInv, AweTypeOK
<1>5. CASE KeepForOwner(t)
  <2>1. needsOwner' \in [Tasks -> BOOLEAN]
    BY <1>5 DEF KeepForOwner, TInv, AweTypeOK
  <2>2. QED
    BY <1>1, <1>5, <2>1, ExchangeStepType DEF KeepForOwner, ExchangeTyped, TInv, AweTypeOK
<1>6. QED
  BY <1>2, <1>3, <1>4, <1>5 DEF Others

LEMMA InitType == Init => TInv
<1> SUFFICES ASSUME Init PROVE TInv
  OBVIOUS
<1>1. JobsOK
  BY IdleOK DEF Init, JobsOK, JobOK
<1>2. 0 \in 0..MaxHead
  BY LedgerAssumption
<1>3. /\ claims \in [Tasks -> Claims] /\ issued \in [Tasks -> Nat]
      /\ evidence \in [Tasks -> 0..MaxHead]
      /\ verdicts \in [Tasks -> [Commits -> [Roles -> {"none", "accept", "reject"}]]]
      /\ accepted \in SUBSET (Tasks \X Commits \X Roles)
  BY <1>2 DEF Init, InitLedger, NoClaim, Claims, ClaimStates
<1>4. ExchangeTyped
  BY <1>2 DEF Init, ExchangeTyped, NoPointer, Pointers, Status
<1>5. QED
  BY <1>1, <1>3, <1>4 DEF TInv, AweTypeOK, ExchangeTyped, JobsOK

\* Every step is one worker's, an expiry or somebody else's.
LEMMA Steps ==
    ASSUME Next
    PROVE  \/ \E w \in Workers :
                \/ \E s \in Slots : Observe(w, s)
                \/ Claim(w)
                \/ Escalate(w)
                \/ BlockForOwner(w) \/ Abandon(w) \/ CloseClaim(w)
                \/ Preflight(w) \/ CheckSource(w) \/ Wake(w) \/ Detect(w) \/ ReadGate(w)
                     \/ Decide(w) \/ Crash(w)
                \/ Move(w) \/ Project(w) \/ Erase(w) \/ Append(w)
                \/ QueueCertifier(w)
           \/ \E t \in Tasks : Expire(t) \/ Others(t)
  BY DEF Next, Cycle

LEMMA TypingStep == TInv /\ [Next]_vars => TInv'
<1> SUFFICES ASSUME TInv, [Next]_vars PROVE TInv'
  OBVIOUS
<1>1. CASE Next
  BY <1>1, Steps, ObserveType, ClaimType, EscalateType, SettleType, LocalType, WriteType,
     QueueCertifierType, ExpireType, OthersType
<1>2. CASE UNCHANGED vars
  BY <1>2 DEF vars, ledgerVars, exchangeVars, TInv, AweTypeOK, JobsOK, JobOK
<1>3. QED
  BY <1>1, <1>2

\* Ledger, exchange and workers keep their types, and a busy worker has a task.
THEOREM AweTyping == Spec => []AweTypeOK
<1>1. Spec => []TInv
  BY InitType, TypingStep, PTL DEF Spec
<1>2. TInv => AweTypeOK
  BY DEF TInv
<1>3. QED
  BY <1>1, <1>2, PTL

-----------------------------------------------------------------------------
(* Leases and tokens.                                                       *)

\* The program counters at which a cycle holds a token it will settle with.
Keeping == {"owner", "source", "abandon", "wake", "detect", "gate", "certifiers", "close"}
Holding(j) ==
    j.pc \in Keeping \/ (j.pc \in {"move", "board", "erase", "append"} /\ j.goal # "Blocked")

\* A row carries the last token its task was issued; one was, if it names a worker.
Fresh ==
    \A t \in Tasks : /\ claims[t].token = issued[t]
                     /\ claims[t].worker # None => issued[t] >= 1

\* A cycle that settles with a token was given it, and the row of the last token
\* names the worker it was given to.
Bound ==
    \A w \in Workers : Holding(job[w]) =>
        /\ job[w].token \in 1..issued[Task(w)]
        /\ job[w].token = issued[Task(w)] => claims[Task(w)].worker = w

\* The lease of the task a cycle works on did not run out since it began.
Punctual == ~stalled => \A w \in Workers : Task(w) \notin job[w].late

\* A completed row has no lease, and no cycle holds its token any more.
Final ==
    \A t \in Tasks : claims[t].state = "review" =>
        /\ ~claims[t].live
        /\ \A w \in Workers : Holding(job[w]) /\ Task(w) = t => job[w].token # issued[t]

IInv == TInv /\ Fresh /\ Bound /\ Punctual /\ SlotHeldOnce /\ Final

\* The rows a step may write without granting or completing anything: they keep
\* their tokens and workers, and in a world without stalls no claim comes to life.
QuietRows ==
    /\ issued' = issued
    /\ \A t \in Tasks : /\ claims'[t].token = claims[t].token
                        /\ claims'[t].worker = claims[t].worker
                        /\ ~stalled /\ Live(t)' => Live(t)
                        /\ claims[t].state = "review" \/ claims'[t].state = "review" =>
                              claims'[t] = claims[t]

\* What a cycle may become without being granted anything.
QuietJob(i, j) ==
    /\ Holding(j) => Holding(i) /\ j.task = i.task /\ j.token = i.token
    /\ j.late = {} \/ (j.late = i.late /\ j.task = i.task)

LEMMA QuietStep ==
    ASSUME IInv, TInv', QuietRows, NEW w \in Workers, NEW j,
           job' = [job EXCEPT ![w] = j], QuietJob(job[w], j), stalled' = stalled
    PROVE  IInv'
<1>1. \A x \in Workers : job'[x] = IF x = w THEN j ELSE job[x]
  BY DEF IInv, TInv, JobsOK
<1>2. Fresh'
  BY DEF IInv, Fresh, QuietRows
<1>3. \A x \in Workers : Holding(job'[x]) =>
          Holding(job[x]) /\ job'[x].task = job[x].task /\ job'[x].token = job[x].token
  BY <1>1 DEF QuietJob
<1>4. \A x \in Workers : Holding(job[x]) => Task(x) \in Tasks
  BY BusyTask DEF IInv, TInv, Holding, Keeping, At
<1>5. Bound'
  BY <1>3, <1>4 DEF IInv, Bound, Task, QuietRows
<1>6. Punctual'
  BY <1>1 DEF IInv, Punctual, QuietJob, Task
<1>7. SlotHeldOnce'
  BY DEF IInv, SlotHeldOnce, SlotExclusive, QuietRows
<1>8. Final'
  BY <1>3 DEF IInv, Final, Task, QuietRows
<1>9. QED
  BY <1>2, <1>5, <1>6, <1>7, <1>8 DEF IInv

\* The same for the ways in which a cycle goes on.
LEMMA QuietGo ==
    ASSUME IInv, TInv', QuietRows, NEW w \in Workers, stalled' = stalled,
           \/ Return(w)
           \/ \E pc \in PC : Goto(w, pc) /\ (job[w].pc \in Keeping \/ pc \in Unclaimed)
           \/ \E pc \in PC : Leave(w, pc) /\ job[w].pc \in Keeping
    PROVE  IInv'
<1>1. job \in [Workers -> Job]
  BY DEF IInv, TInv, JobsOK
<1>2. CASE Return(w)
  <2>1. QuietJob(job[w], Idle)
    BY DEF QuietJob, Holding, Keeping, Idle
  <2>2. QED
    BY <1>2, <2>1, QuietStep DEF Return
<1>3. ASSUME NEW pc \in PC, Goto(w, pc), job[w].pc \in Keeping \/ pc \in Unclaimed
      PROVE  IInv'
  <2> DEFINE j == [job[w] EXCEPT !.pc = pc]
  <2>1. job' = [job EXCEPT ![w] = j]
    BY <1>1, <1>3 DEF Goto
  <2>2. QuietJob(job[w], j)
    BY <1>1, <1>3 DEF QuietJob, Holding, Keeping, Unclaimed, Job
  <2>3. QED
    BY <2>1, <2>2, QuietStep
<1>4. QED
  BY <1>2, <1>3 DEF Leave

\* The writes of the source of record.
LEMMA QuietWrites ==
    ASSUME IInv, TInv', QuietRows, NEW w \in Workers, stalled' = stalled,
           job[w].pc \in {"move", "board", "erase", "append"},
           \/ \E pc \in {"board", "erase", "append"} : Goto(w, pc)
           \/ \E ok \in BOOLEAN : Leave(w, AfterWrites(w, ok))
    PROVE  IInv'
<1>1. job \in [Workers -> Job]
  BY DEF IInv, TInv, JobsOK
<1>2. ASSUME NEW pc \in {"board", "erase", "append"}, Goto(w, pc)
      PROVE  IInv'
  <2> DEFINE j == [job[w] EXCEPT !.pc = pc]
  <2>1. job' = [job EXCEPT ![w] = j]
    BY <1>1, <1>2 DEF Goto
  <2>2. QuietJob(job[w], j)
    BY <1>1 DEF QuietJob, Holding, Keeping, Job
  <2>3. QED
    BY <2>1, <2>2, QuietStep
<1>3. ASSUME NEW ok \in BOOLEAN, Leave(w, AfterWrites(w, ok))
      PROVE  IInv'
  <2>1. CASE Return(w)
    BY <2>1, QuietGo
  <2>2. CASE Goto(w, AfterWrites(w, ok)) /\ job[w].goal # "Blocked"
    <3> DEFINE j == [job[w] EXCEPT !.pc = AfterWrites(w, ok)]
    <3>1. job' = [job EXCEPT ![w] = j]
      BY <1>1, <2>2 DEF Goto
    <3>2. QuietJob(job[w], j)
      BY <1>1, <2>2 DEF QuietJob, Holding, Job
    <3>3. QED
      BY <3>1, <3>2, QuietStep
  <2>3. job[w].goal = "Blocked" => AfterWrites(w, ok) = "idle"
    BY DEF AfterWrites
  <2>4. QED
    BY <1>3, <2>1, <2>2, <2>3 DEF Leave
<1>4. QED
  BY <1>2, <1>3

LEMMA SameRows ==
    ASSUME claims' = claims, issued' = issued
    PROVE  QuietRows
  BY DEF QuietRows, Live

LEMMA CleanedRows ==
    ASSUME TInv, claims' = Cleaned, issued' = issued
    PROVE  QuietRows
  BY DEF QuietRows, Live, Cleaned, TInv, AweTypeOK, Claims

LEMMA BlockedRows ==
    ASSUME TInv, NEW t \in Tasks, NEW token, NEW h, Close(t, token, "blocked", h),
           claims[t].token = token => claims[t].state # "review"
    PROVE  QuietRows
<1>1. CASE claims[t].token = token
  <2> DEFINE c == [claims[t] EXCEPT !.state = "blocked", !.live = FALSE]
  <2>1. claims' = [claims EXCEPT ![t] = c]
    BY <1>1 DEF Close, TInv, AweTypeOK
  <2>2. claims[t] \in Claims
    BY DEF TInv, AweTypeOK
  <2>3. /\ c.token = claims[t].token /\ c.worker = claims[t].worker /\ ~c.live
        /\ c.state = "blocked"
    BY <2>2 DEF Claims
  <2>4. QED
    BY <1>1, <2>1, <2>3 DEF QuietRows, Live, Close, TInv, AweTypeOK
<1>2. CASE claims[t].token # token
  BY <1>2, SameRows DEF Close
<1>3. QED
  BY <1>1, <1>2

LEMMA ObserveKeeps ==
    ASSUME IInv, TInv', NEW w \in Workers, NEW s \in Slots, Observe(w, s)
    PROVE  IInv'
<1>1. PICK t \in Eligible(s) :
           job' = [job EXCEPT ![w] =
                [Idle EXCEPT !.pc = "preflight", !.task = t, !.owner = needsOwner[t],
                             !.working = (folder[t] = "In Progress"),
                             !.certifiers = {c \in CertifierOf[t] :
                                                folder[c] \notin {"In Progress", "Review"}}]]
  BY DEF Observe
<1> DEFINE j == [Idle EXCEPT !.pc = "preflight", !.task = t, !.owner = needsOwner[t],
                             !.working = (folder[t] = "In Progress"),
                             !.certifiers = {c \in CertifierOf[t] :
                                                folder[c] \notin {"In Progress", "Review"}}]
<1>2. j.pc = "preflight" /\ j.late = {}
  BY DEF Idle
<1>3. QuietJob(job[w], j)
  BY <1>2 DEF QuietJob, Holding, Keeping
<1>4. QuietRows
  BY CleanedRows DEF Observe, IInv
<1>5. QED
  BY <1>1, <1>3, <1>4, QuietStep DEF Observe, NoFault

\* A cycle that settles holds a token, and if it is the last one the row is its own
\* and not completed.
LEMMA Settler ==
    ASSUME IInv, NEW w \in Workers, BlockForOwner(w) \/ Abandon(w) \/ CloseClaim(w)
    PROVE  /\ Task(w) \in Tasks /\ ~At(w, "idle") /\ job[w].pc \in Keeping /\ Holding(job[w])
           /\ job[w].token = claims[Task(w)].token =>
                 claims[Task(w)].worker = w /\ claims[Task(w)].state # "review"
<1>1. job[w].pc \in Keeping /\ ~At(w, "idle") /\ Holding(job[w])
  BY DEF BlockForOwner, Abandon, CloseClaim, At, Keeping, Holding
<1>2. Task(w) \in Tasks
  BY <1>1, BusyTask DEF IInv, TInv
<1>3. QED
  BY <1>1, <1>2 DEF IInv, Fresh, Bound, Final

\* The completion of a row by the worker it belongs to.
LEMMA CompleteKeeps ==
    ASSUME IInv, TInv', NEW w \in Workers, CloseClaim(w), job[w].token = claims[Task(w)].token,
           Close(Task(w), job[w].token, "review", job[w].head)
    PROVE  IInv'
<1> DEFINE t == Task(w)
           c == [claims[t] EXCEPT !.state = "review", !.live = FALSE]
<1>1. t \in Tasks /\ Holding(job[w]) /\ claims[t].worker = w
  BY Settler
<1>2. claims' = [claims EXCEPT ![t] = c] /\ issued' = issued
  BY DEF Close, IInv, TInv, AweTypeOK
<1>3. claims[t] \in Claims /\ job \in [Workers -> Job]
  BY <1>1 DEF IInv, TInv, AweTypeOK, JobsOK
<1>4. c.token = claims[t].token /\ c.worker = claims[t].worker /\ ~c.live /\ c.state = "review"
  BY <1>3 DEF Claims
<1>5. /\ \A u \in Tasks : claims'[u].token = claims[u].token /\ claims'[u].worker = claims[u].worker
      /\ \A u \in Tasks \ {t} : claims'[u] = claims[u]
      /\ claims'[t] = c
  BY <1>1, <1>2, <1>4 DEF IInv, TInv, AweTypeOK
<1>6. /\ \A x \in Workers : job'[x] = IF x = w THEN Idle ELSE job[x]
      /\ ~Holding(Idle) /\ Idle.late = {} /\ stalled' = stalled
  BY <1>3 DEF CloseClaim, Return, Holding, Keeping, Idle, NoFault
<1>7. \A x \in Workers : Holding(job[x]) => Task(x) \in Tasks
  BY BusyTask DEF IInv, TInv, Holding, Keeping, At
<1>8. Fresh'
  BY <1>2, <1>5 DEF IInv, Fresh
<1>9. Bound'
  BY <1>2, <1>5, <1>6, <1>7 DEF IInv, Bound, Task
<1>10. Punctual'
  BY <1>6 DEF IInv, Punctual, Task
<1>11. SlotHeldOnce'
  BY <1>4, <1>5, <1>6 DEF IInv, SlotHeldOnce, SlotExclusive, Live
<1>12. Final'
  <2>1. \A x \in Workers : x # w /\ Holding(job[x]) /\ Task(x) = t => job[x].token # issued[t]
    BY <1>1 DEF IInv, Bound
  <2>2. \A u \in Tasks : claims'[u].state = "review" => ~claims'[u].live
    BY <1>4, <1>5 DEF IInv, Final
  <2>3. QED
    BY <1>2, <1>5, <1>6, <2>1, <2>2 DEF IInv, Final, Task
<1>13. QED
  BY <1>8, <1>9, <1>10, <1>11, <1>12 DEF IInv

LEMMA SettleKeeps ==
    ASSUME IInv, TInv', NEW w \in Workers, BlockForOwner(w) \/ Abandon(w) \/ CloseClaim(w)
    PROVE  IInv'
<1>1. stalled' = stalled
  BY DEF BlockForOwner, Abandon, CloseClaim, NoFault
<1>2. Return(w) \/ (Goto(w, "move") /\ job[w].pc \in Keeping)
  BY DEF BlockForOwner, Abandon, CloseClaim, At, Keeping
<1>3. CASE \E h : Close(Task(w), job[w].token, "blocked", h)
  <2>1. QuietRows
    BY <1>3, BlockedRows, Settler DEF IInv
  <2>2. QED
    BY <1>1, <1>2, <2>1, QuietGo DEF PC
<1>4. CASE CloseClaim(w) /\ Close(Task(w), job[w].token, "review", job[w].head)
  <2>1. CASE job[w].token = claims[Task(w)].token
    BY <1>4, <2>1, CompleteKeeps
  <2>2. CASE job[w].token # claims[Task(w)].token
    BY <1>1, <1>2, <1>4, <2>2, SameRows, QuietGo DEF Close, PC
  <2>3. QED
    BY <2>1, <2>2
<1>5. QED
  BY <1>3, <1>4 DEF BlockForOwner, Abandon, CloseClaim

LEMMA LocalKeeps ==
    ASSUME IInv, TInv', NEW w \in Workers,
           Preflight(w) \/ CheckSource(w) \/ Wake(w) \/ Detect(w) \/ ReadGate(w) \/ Decide(w)
             \/ Crash(w) \/ QueueCertifier(w)
    PROVE  IInv'
<1>1. job \in [Workers -> Job] /\ job[w] \in Job
  BY DEF IInv, TInv, JobsOK
<1>2. UNCHANGED ledgerVars /\ stalled' = stalled
  BY DEF Preflight, CheckSource, Wake, Detect, ReadGate, Decide, Crash, QueueCertifier, NoFault,
         Fault
<1>3. QuietRows
  BY <1>2, SameRows DEF ledgerVars
<1>4. CASE Return(w)
  BY <1>2, <1>3, <1>4, QuietGo
<1>5. CASE Preflight(w) /\ ~Return(w)
  BY <1>2, <1>3, <1>5, QuietGo DEF Preflight, Unclaimed, PC
<1>6. CASE (CheckSource(w) \/ Wake(w) \/ Decide(w)) /\ ~Return(w)
  <2>1. job[w].pc \in Keeping
    BY <1>6 DEF CheckSource, Wake, Decide, At, Keeping
  <2>2. \E pc \in PC : Goto(w, pc)
    BY <1>6 DEF CheckSource, Wake, Decide, PC
  <2>3. QED
    BY <1>2, <1>3, <2>1, <2>2, QuietGo
<1>7. CASE (Detect(w) \/ ReadGate(w) \/ QueueCertifier(w)) /\ ~Return(w)
  <2>1. job[w].pc \in Keeping
    BY <1>7 DEF Detect, ReadGate, QueueCertifier, At, Keeping
  <2>2. PICK j : /\ job' = [job EXCEPT ![w] = j]
                 /\ j.task = job[w].task /\ j.token = job[w].token /\ j.late = job[w].late
    <3>1. CASE job' = [job EXCEPT ![w].pc = "gate", ![w].head = head[Task(w)]]
      <4> DEFINE j == [job[w] EXCEPT !.pc = "gate", !.head = head[Task(w)]]
      <4>1. job' = [job EXCEPT ![w] = j]
        BY <1>1, <3>1
      <4>2. j.task = job[w].task /\ j.token = job[w].token /\ j.late = job[w].late
        BY <1>1 DEF Job
      <4> HIDE DEF j
      <4>3. QED
        BY <4>1, <4>2
    <3>2. ASSUME NEW g, job' = [job EXCEPT ![w].pc = "certifiers", ![w].goal = g]
          PROVE  \E j : /\ job' = [job EXCEPT ![w] = j]
                        /\ j.task = job[w].task /\ j.token = job[w].token
                        /\ j.late = job[w].late
      <4> DEFINE j == [job[w] EXCEPT !.pc = "certifiers", !.goal = g]
      <4>1. job' = [job EXCEPT ![w] = j]
        BY <1>1, <3>2
      <4>2. j.task = job[w].task /\ j.token = job[w].token /\ j.late = job[w].late
        BY <1>1 DEF Job
      <4> HIDE DEF j
      <4>3. QED
        BY <4>1, <4>2
    <3>3. ASSUME NEW c, job' = [job EXCEPT ![w].certifiers = @ \ {c}]
          PROVE  \E j : /\ job' = [job EXCEPT ![w] = j]
                        /\ j.task = job[w].task /\ j.token = job[w].token
                        /\ j.late = job[w].late
      <4> DEFINE j == [job[w] EXCEPT !.certifiers = @ \ {c}]
      <4>1. job' = [job EXCEPT ![w] = j]
        BY <1>1, <3>3
      <4>2. j.task = job[w].task /\ j.token = job[w].token /\ j.late = job[w].late
        BY <1>1 DEF Job
      <4> HIDE DEF j
      <4>3. QED
        BY <4>1, <4>2
    <3>4. QED
      BY <1>7, <3>1, <3>2, <3>3 DEF Detect, ReadGate, QueueCertifier
  <2>3. QuietJob(job[w], j)
    BY <2>1, <2>2 DEF QuietJob, Holding
  <2>4. QED
    BY <1>2, <1>3, <2>2, <2>3, QuietStep
<1>8. QED
  BY <1>4, <1>5, <1>6, <1>7 DEF Crash

LEMMA WriteKeeps ==
    ASSUME IInv, TInv', NEW w \in Workers, Move(w) \/ Project(w) \/ Erase(w) \/ Append(w)
    PROVE  IInv'
<1>1. job[w].pc \in {"move", "board", "erase", "append"}
  BY DEF Move, Project, Erase, Append, At
<1>2. UNCHANGED ledgerVars /\ stalled' = stalled
  BY DEF Move, Project, Erase, Append, NoFault, WriteFails, Fault
<1>3. QuietRows
  BY <1>2, SameRows DEF ledgerVars
<1>4. \/ \E pc \in {"board", "erase", "append"} : Goto(w, pc)
      \/ \E ok \in BOOLEAN : Leave(w, AfterWrites(w, ok))
  BY DEF Move, Project, Erase, Append, WriteFails
<1>5. QED
  BY <1>1, <1>2, <1>3, <1>4, QuietWrites

\* The row of a task that is granted to a worker, by extending its lease or anew.
LEMMA GrantedKeeps ==
    ASSUME IInv, TInv', NEW w \in Workers, ~At(w, "idle"), NEW pc \in PC, NEW goal \in Status,
           Granted(w, pc, goal), stalled' = stalled
    PROVE  IInv'
<1> DEFINE t == Task(w)
<1>1. t \in Tasks /\ job \in [Workers -> Job] /\ job[w] \in Job
  BY BusyTask DEF IInv, TInv, JobsOK
<1>2. \A x \in Workers : Holding(job[x]) => Task(x) \in Tasks
  BY BusyTask DEF IInv, TInv, Holding, Keeping, At
<1>3. claims \in [Tasks -> Claims] /\ issued \in [Tasks -> Nat]
  BY DEF IInv, TInv, AweTypeOK
<1>4. CASE /\ Resumes(t, w, job[w].late) /\ ResumeRows(t)
           /\ job' = [job EXCEPT ![w].pc = pc, ![w].goal = goal, ![w].late = {},
                                 ![w].token = claims[t].token, ![w].working = TRUE]
  <2> DEFINE j == [job[w] EXCEPT !.pc = pc, !.goal = goal, !.late = {},
                                 !.token = claims[t].token, !.working = TRUE]
             c == [claims[t] EXCEPT !.live = TRUE]
  <2>1. /\ job' = [job EXCEPT ![w] = j] /\ j.task = t /\ j.token = claims[t].token
        /\ j.late = {}
    BY <1>1, <1>4 DEF Job, Task
  <2>2. claims' = [claims EXCEPT ![t] = c] /\ issued' = issued
    BY <1>3, <1>4 DEF ResumeRows
  <2>3. claims[t] \in Claims
    BY <1>1, <1>3
  <2>4. /\ c.token = claims[t].token /\ c.worker = claims[t].worker /\ c.state = claims[t].state
        /\ claims[t].worker = w
    BY <1>4, <2>3 DEF Claims, Resumes
  <2>5. ~stalled => claims[t].live
    BY <1>4 DEF Resumes, Leased, IInv, Punctual
  <2>6. \A u \in Tasks : /\ claims'[u].token = claims[u].token
                         /\ claims'[u].worker = claims[u].worker
                         /\ ~stalled /\ Live(u)' => Live(u)
    BY <1>3, <2>2, <2>4, <2>5 DEF Live
  <2>7. Fresh'
    BY <2>2, <2>6 DEF IInv, Fresh
  <2>8. SlotHeldOnce'
    BY <2>6 DEF IInv, SlotHeldOnce, SlotExclusive
  <2>9. \A x \in Workers : job'[x] = IF x = w THEN j ELSE job[x]
    BY <1>1, <2>1
  <2>10. Punctual'
    BY <2>1, <2>9 DEF IInv, Punctual, Task
  <2>11. issued[t] >= 1 /\ claims[t].token = issued[t]
    BY <1>1, <1>4, LedgerAssumption DEF IInv, Fresh, Resumes
  <2>12. Bound'
    <3> SUFFICES ASSUME NEW x \in Workers, Holding(job'[x])
                 PROVE  /\ job'[x].token \in 1..issued'[Task(x)']
                        /\ job'[x].token = issued'[Task(x)'] => claims'[Task(x)'].worker = x
      BY DEF Bound
    <3>1. CASE x = w
      BY <1>1, <1>3, <2>1, <2>2, <2>4, <2>6, <2>9, <2>11, <3>1 DEF Task
    <3>2. CASE x # w
      BY <1>2, <2>2, <2>6, <2>9, <3>2 DEF IInv, Bound, Task
    <3>3. QED
      BY <3>1, <3>2
  <2>13. \A u \in Tasks \ {t} : claims'[u] = claims[u]
    BY <2>2, <1>3
  <2>14. Final'
    <3>1. claims'[t].state # "review"
      BY <1>1, <1>3, <1>4, <2>2, <2>4 DEF Resumes
    <3>2. QED
      BY <2>2, <2>9, <2>13, <3>1, <2>1 DEF IInv, Final, Task
  <2>15. QED
    BY <2>7, <2>8, <2>10, <2>12, <2>14 DEF IInv
<1>5. CASE /\ Free(t, job[w].late) /\ GrantRows(t, w)
           /\ job' = [job EXCEPT ![w].pc = pc, ![w].goal = goal, ![w].late = {},
                                 ![w].token = issued'[t]]
  <2> DEFINE j == [job[w] EXCEPT !.pc = pc, !.goal = goal, !.late = {}, !.token = issued'[t]]
  <2>1. /\ job' = [job EXCEPT ![w] = j] /\ j.task = t /\ j.token = issued'[t] /\ j.late = {}
    BY <1>1, <1>5 DEF Job, Task
  <2>2. \A x \in Workers : job'[x] = IF x = w THEN j ELSE job[x]
    BY <1>1, <2>1
  <2>3. /\ issued'[t] = issued[t] + 1
        /\ claims'[t] = [state |-> "in_progress", worker |-> w, token |-> issued[t] + 1,
                         live |-> TRUE]
        /\ \A u \in Tasks \ {t} : claims'[u] = claims[u] /\ issued'[u] = issued[u]
    BY <1>1, <1>3, <1>5 DEF GrantRows
  <2>4. issued[t] \in Nat
    BY <1>1, <1>3
  <2>5. Fresh'
    BY <2>3, <2>4 DEF IInv, Fresh
  <2>6. SlotHeldOnce'
    <3>1. \A u \in Tasks \ {t} : SlotOf[u] = SlotOf[t] => ~Live(u)
      BY <1>5 DEF Free, Occupied, Leased, Live, Settled
    <3>2. \A u \in Tasks \ {t} : Live(u)' <=> Live(u)
      BY <2>3 DEF Live
    <3>3. QED
      BY <3>1, <3>2 DEF IInv, SlotHeldOnce, SlotExclusive
  <2>7. Punctual'
    BY <2>1, <2>2 DEF IInv, Punctual, Task
  <2>8. Bound'
    <3> SUFFICES ASSUME NEW x \in Workers, Holding(job'[x])
                 PROVE  /\ job'[x].token \in 1..issued'[Task(x)']
                        /\ job'[x].token = issued'[Task(x)'] => claims'[Task(x)'].worker = x
      BY DEF Bound
    <3>1. CASE x = w
      <4>1. job'[x].token = issued[t] + 1 /\ Task(x)' = t
        BY <2>1, <2>2, <2>3, <3>1 DEF Task
      <4>2. issued'[Task(x)'] = issued[t] + 1 /\ claims'[Task(x)'].worker = w
        BY <2>3, <4>1
      <4>3. QED
        BY <2>4, <3>1, <4>1, <4>2
    <3>2. CASE x # w
      <4>1. job'[x] = job[x] /\ Task(x) \in Tasks
        BY <1>2, <2>2, <3>2
      <4>2. /\ job[x].token \in 1..issued[Task(x)]
            /\ job[x].token = issued[Task(x)] => claims[Task(x)].worker = x
        BY <4>1 DEF IInv, Bound
      <4>3. CASE Task(x) = t
        BY <2>3, <2>4, <4>1, <4>2, <4>3 DEF Task
      <4>4. CASE Task(x) # t
        BY <2>3, <4>1, <4>2, <4>4 DEF Task
      <4>5. QED
        BY <4>3, <4>4
    <3>3. QED
      BY <3>1, <3>2
  <2>9. Final'
    BY <2>1, <2>2, <2>3 DEF IInv, Final, Task
  <2>10. QED
    BY <2>5, <2>6, <2>7, <2>8, <2>9 DEF IInv
<1>6. QED
  BY <1>4, <1>5 DEF Granted

LEMMA ClaimKeeps ==
    ASSUME IInv, TInv', NEW w \in Workers, Claim(w)
    PROVE  IInv'
<1>1. ~At(w, "idle") /\ stalled' = stalled
  BY DEF Claim, At, NoFault
<1>2. CASE Granted(w, IF job[w].working THEN "wake" ELSE "source", "In Progress")
  BY <1>1, <1>2, GrantedKeeps DEF PC, Status
<1>3. CASE Return(w) /\ UNCHANGED ledgerVars
  BY <1>1, <1>3, SameRows, QuietGo DEF ledgerVars
<1>4. QED
  BY <1>2, <1>3 DEF Claim

LEMMA EscalateKeeps ==
    ASSUME IInv, TInv', NEW w \in Workers, Escalate(w)
    PROVE  IInv'
<1>1. ~At(w, "idle") /\ stalled' = stalled
  BY DEF Escalate, At, NoFault
<1>2. CASE Granted(w, "owner", "Blocked")
  BY <1>1, <1>2, GrantedKeeps DEF PC, Status
<1>3. CASE /\ job' = [job EXCEPT ![w].pc = "move", ![w].goal = "Blocked", ![w].late = {}]
           /\ UNCHANGED ledgerVars
  <2> DEFINE j == [job[w] EXCEPT !.pc = "move", !.goal = "Blocked", !.late = {}]
  <2>1. job \in [Workers -> Job]
    BY DEF IInv, TInv, JobsOK
  <2>2. job' = [job EXCEPT ![w] = j]
    BY <1>3, <2>1
  <2>3. j.pc = "move" /\ j.goal = "Blocked" /\ j.late = {}
    BY <2>1 DEF Job
  <2>4. QuietJob(job[w], j)
    BY <2>3 DEF QuietJob, Holding, Keeping
  <2>5. QED
    BY <1>1, <1>3, <2>2, <2>4, SameRows, QuietStep DEF ledgerVars
<1>4. QED
  BY <1>2, <1>3 DEF Escalate

LEMMA ExpireKeeps ==
    ASSUME IInv, TInv', NEW t \in Tasks, Expire(t)
    PROVE  IInv'
<1>1. claims \in [Tasks -> Claims] /\ job \in [Workers -> Job]
  BY DEF IInv, TInv, AweTypeOK, JobsOK
<1> DEFINE c == [claims[t] EXCEPT !.live = FALSE]
<1>2. claims' = [claims EXCEPT ![t] = c] /\ issued' = issued
  BY <1>1 DEF Expire
<1>3. claims[t] \in Claims
  BY <1>1
<1>4. c.token = claims[t].token /\ c.worker = claims[t].worker /\ ~c.live
  BY <1>3 DEF Claims
<1>5. QuietRows
  <2>1. claims[t].state # "review" /\ c.state = claims[t].state
    BY <1>3 DEF Expire, IInv, Final, Claims
  <2>2. QED
    BY <1>1, <1>2, <1>4, <2>1 DEF QuietRows, Live
<1>6. \A w \in Workers :
          /\ job'[w].pc = job[w].pc /\ job'[w].goal = job[w].goal
          /\ job'[w].task = job[w].task /\ job'[w].token = job[w].token
          /\ job'[w].late \in {job[w].late, job[w].late \cup {t}}
  <2> SUFFICES ASSUME NEW w \in Workers
               PROVE  /\ job'[w].pc = job[w].pc /\ job'[w].goal = job[w].goal
                      /\ job'[w].task = job[w].task /\ job'[w].token = job[w].token
                      /\ job'[w].late \in {job[w].late, job[w].late \cup {t}}
    OBVIOUS
  <2>1. job[w] \in Job
    BY <1>1
  <2>2. job'[w] = job[w] \/ job'[w] = [job[w] EXCEPT !.late = @ \cup {t}]
    BY DEF Expire
  <2>3. QED
    BY <2>1, <2>2 DEF Job
<1>7. \A w \in Workers : Holding(job'[w]) <=> Holding(job[w])
  BY <1>6 DEF Holding
<1>8. \A w \in Workers : Holding(job[w]) => Task(w) \in Tasks
  BY BusyTask DEF IInv, TInv, Holding, Keeping, At
<1>9. Fresh'
  BY <1>5 DEF IInv, Fresh, QuietRows
<1>10. Bound'
  BY <1>5, <1>6, <1>7, <1>8 DEF IInv, Bound, Task, QuietRows
<1>11. ~stalled' => ~stalled /\ \A w \in Workers : Task(w) # t
  BY DEF Expire
<1>12. Punctual'
  BY <1>6, <1>11 DEF IInv, Punctual, Task
<1>13. SlotHeldOnce'
  BY <1>5, <1>11 DEF IInv, SlotHeldOnce, SlotExclusive, QuietRows
<1>14. Final'
  BY <1>5, <1>6, <1>7 DEF IInv, Final, Task, QuietRows
<1>15. QED
  BY <1>9, <1>10, <1>12, <1>13, <1>14 DEF IInv

LEMMA StandStill ==
    ASSUME IInv, TInv', claims' = claims, issued' = issued, job' = job, stalled' = stalled
    PROVE  IInv'
  BY DEF IInv, Fresh, Bound, Punctual, SlotHeldOnce, SlotExclusive, Live, Final, Task

LEMMA OthersKeep ==
    ASSUME IInv, TInv', NEW t \in Tasks, Others(t)
    PROVE  IInv'
<1>1. claims' = claims /\ issued' = issued /\ job' = job /\ stalled' = stalled
  BY DEF Others, Agent, Certify, Assign, KeepForOwner, NoFault, record_certification, ledgerVars
<1>2. QED
  BY <1>1, StandStill

LEMMA IInvInit == Init => IInv
<1> SUFFICES ASSUME Init PROVE IInv
  OBVIOUS
<1>1. TInv
  BY InitType
<1>2. Fresh /\ SlotHeldOnce
  BY DEF Init, InitLedger, NoClaim, Fresh, SlotHeldOnce, SlotExclusive, Live
<1>3. Bound /\ Punctual /\ Final
  BY DEF Init, InitLedger, NoClaim, Idle, Bound, Holding, Keeping, Punctual, Final
<1>4. QED
  BY <1>1, <1>2, <1>3 DEF IInv

LEMMA IInvStep == IInv /\ [Next]_vars => IInv'
<1> SUFFICES ASSUME IInv, [Next]_vars PROVE IInv'
  OBVIOUS
<1>1. TInv'
  BY TypingStep DEF IInv
<1>2. CASE Next
  BY <1>1, <1>2, Steps, ObserveKeeps, ClaimKeeps, EscalateKeeps, SettleKeeps, LocalKeeps,
     WriteKeeps, ExpireKeeps, OthersKeep
<1>3. CASE UNCHANGED vars
  BY <1>1, <1>3, StandStill DEF vars, ledgerVars
<1>4. QED
  BY <1>2, <1>3

\* Tokens belong to the worker they were given to, without stalls cycles extend only
\* leases that are live, and no token of a completed claim is left with anybody.
THEOREM AweInvariance == Spec => []IInv
  BY IInvInit, IInvStep, PTL DEF Spec

\* However many workers race for a slot and whatever calls fail, as long as no lease
\* ran out during a cycle on its task the slot has one live claim at most.
THEOREM SlotIsHeldOnce == Spec => []SlotHeldOnce
<1>1. IInv => SlotHeldOnce
  BY DEF IInv
<1>2. QED
  BY <1>1, AweInvariance, PTL

-----------------------------------------------------------------------------
(* What a step may do to a row.                                             *)

\* Only a row that is not completed changes, and only the worker it belongs to
\* settles it.
RowChange(t) ==
    claims'[t] # claims[t] =>
        /\ claims[t].state # "review"
        /\ \/ claims'[t].state \in {claims[t].state, "in_progress", "stale_expired"}
           \/ \E w \in Workers : /\ ~At(w, "idle") /\ Task(w) = t
                                 /\ job[w].token = claims[t].token /\ claims[t].worker = w

LEMMA GrantedRow ==
    ASSUME IInv, NEW w \in Workers, NEW pc, NEW goal, Granted(w, pc, goal), NEW t \in Tasks
    PROVE  RowChange(t)
<1>1. claims \in [Tasks -> Claims]
  BY DEF IInv, TInv, AweTypeOK
<1>2. CASE t # Task(w)
  BY <1>1, <1>2 DEF Granted, ResumeRows, GrantRows, RowChange
<1>3. CASE t = Task(w) /\ Resumes(t, w, job[w].late) /\ ResumeRows(t)
  <2> DEFINE c == [claims[t] EXCEPT !.live = TRUE]
  <2>1. claims'[t] = c /\ claims[t] \in Claims
    BY <1>1, <1>3 DEF ResumeRows
  <2>2. c.state = claims[t].state
    BY <2>1 DEF Claims
  <2>3. QED
    BY <1>3, <2>1, <2>2 DEF Resumes, RowChange
<1>4. CASE t = Task(w) /\ Free(t, job[w].late) /\ GrantRows(t, w)
  BY <1>1, <1>4 DEF Free, GrantRows, RowChange
<1>5. QED
  BY <1>2, <1>3, <1>4 DEF Granted

LEMMA SettledRow ==
    ASSUME IInv, NEW w \in Workers, BlockForOwner(w) \/ Abandon(w) \/ CloseClaim(w),
           NEW t \in Tasks
    PROVE  RowChange(t)
<1>1. claims \in [Tasks -> Claims]
  BY DEF IInv, TInv, AweTypeOK
<1>2. PICK new, h : Close(Task(w), job[w].token, new, h)
  BY DEF BlockForOwner, Abandon, CloseClaim
<1>3. claims'[t] # claims[t] => t = Task(w) /\ job[w].token = claims[t].token
  BY <1>1, <1>2 DEF Close
<1>4. QED
  BY <1>3, Settler DEF RowChange

LEMMA OtherRow ==
    ASSUME IInv, NEW t \in Tasks,
           \/ claims' = claims
           \/ claims' = Cleaned
           \/ \E u \in Tasks : Expire(u)
    PROVE  RowChange(t)
<1>1. claims \in [Tasks -> Claims] /\ claims[t] \in Claims
  BY DEF IInv, TInv, AweTypeOK
<1>2. CASE claims' = claims
  BY <1>2 DEF RowChange
<1>3. CASE claims' = Cleaned
  BY <1>1, <1>3 DEF Cleaned, RowChange, Claims
<1>4. ASSUME NEW u \in Tasks, Expire(u) PROVE RowChange(t)
  <2> DEFINE c == [claims[u] EXCEPT !.live = FALSE]
  <2>1. claims' = [claims EXCEPT ![u] = c] /\ claims[u].live
    BY <1>1, <1>4 DEF Expire
  <2>2. CASE t = u
    <3>1. claims[t].state # "review" /\ claims'[t].state = claims[t].state
      BY <1>1, <2>1, <2>2 DEF IInv, Final, Claims
    <3>2. QED
      BY <3>1 DEF RowChange
  <2>3. CASE t # u
    BY <1>1, <2>1, <2>3 DEF RowChange
  <2>4. QED
    BY <2>2, <2>3
<1>5. QED
  BY <1>2, <1>3, <1>4

LEMMA RowStep == IInv /\ [Next]_vars => \A t \in Tasks : RowChange(t)
<1> SUFFICES ASSUME IInv, [Next]_vars, NEW t \in Tasks PROVE RowChange(t)
  OBVIOUS
<1>1. ASSUME NEW w \in Workers, NEW s \in Slots, Observe(w, s) PROVE RowChange(t)
  BY <1>1, OtherRow DEF Observe
<1>2. ASSUME NEW w \in Workers, Claim(w) \/ Escalate(w) PROVE RowChange(t)
  BY <1>2, GrantedRow, OtherRow DEF Claim, Escalate, ledgerVars
<1>3. ASSUME NEW w \in Workers, BlockForOwner(w) \/ Abandon(w) \/ CloseClaim(w)
      PROVE  RowChange(t)
  BY <1>3, SettledRow
<1>4. ASSUME NEW w \in Workers,
             \/ Preflight(w) \/ CheckSource(w) \/ Wake(w) \/ Detect(w) \/ ReadGate(w) \/ Decide(w)
             \/ Crash(w) \/ Move(w) \/ Project(w) \/ Erase(w) \/ Append(w) \/ QueueCertifier(w)
      PROVE  RowChange(t)
  <2>1. claims' = claims
    BY <1>4 DEF Preflight, CheckSource, Wake, Detect, ReadGate, Decide, Crash, Move, Project, Erase,
                Append, QueueCertifier, ledgerVars
  <2>2. QED
    BY <2>1, OtherRow
<1>5. ASSUME NEW u \in Tasks, Expire(u) \/ Others(u) PROVE RowChange(t)
  <2>1. CASE Expire(u)
    BY <2>1, OtherRow
  <2>2. CASE Others(u)
    BY <2>2, OtherRow
    DEF Others, Agent, Certify, Assign, KeepForOwner, record_certification, ledgerVars
  <2>3. QED
    BY <1>5, <2>1, <2>2
<1>6. CASE UNCHANGED vars
  BY <1>6, OtherRow DEF vars, ledgerVars
<1>7. QED
  BY <1>1, <1>2, <1>3, <1>4, <1>5, <1>6, Steps

\* A completed task is never reopened, rewritten or leased again, whoever still runs
\* a cycle on it.
THEOREM ReviewStaysFinal == Spec => ReviewIsFinal
<1>1. IInv /\ [Next]_vars =>
          [\A t \in Tasks : claims[t].state = "review" => claims'[t] = claims[t]]_vars
  BY RowStep DEF RowChange
<1>2. QED
  BY <1>1, AweInvariance, PTL DEF Spec, ReviewIsFinal

\* A row is settled by a cycle of the worker it names, with the last token.
THEOREM OnlyTheHolderCloses == Spec => ClosedByHolder
<1>1. IInv /\ [Next]_vars =>
          [\A t \in Tasks :
              claims'[t].state \in {"review", "blocked"} /\ claims[t].state # claims'[t].state =>
                  \E w \in Workers : /\ ~At(w, "idle") /\ Task(w) = t
                                    /\ job[w].token = claims[t].token
                                    /\ claims[t].worker = w]_vars
  BY RowStep DEF RowChange
<1>2. QED
  BY <1>1, AweInvariance, PTL DEF Spec, ClosedByHolder

-----------------------------------------------------------------------------
(* The gate.                                                                *)

\* The program counters at which a cycle may be on its way to Review.
Passing == {"certifiers", "move", "board", "erase", "append", "close"}

\* The last verdict on a head is one of those that were recorded.
Backed ==
    \A t \in Tasks, h \in Commits, r \in Roles :
        verdicts[t][h][r] = "accept" => <<t, h, r>> \in accepted

\* A cycle on its way to Review goes there for a head every role accepted.
Passed(j) ==
    /\ j.goal = "Review" => j.pc \in Passing /\ \A r \in Roles : <<j.task, j.head, r>> \in accepted
    /\ j.pc = "gate" => j.head \in Commits

CInv == TInv /\ Backed /\ (\A w \in Workers : Passed(job[w])) /\ ReviewIsCertified

\* The job of one worker changes, and nothing the gate depends on.
LEMMA PassedStep ==
    ASSUME CInv, TInv', UNCHANGED <<verdicts, accepted>>,
           NEW w \in Workers, NEW j, job' = [job EXCEPT ![w] = j], Passed(j),
           \A t \in Tasks : claims'[t].state = "review" =>
               \/ claims[t].state = "review" /\ evidence'[t] = evidence[t]
               \/ \A r \in Roles : <<t, evidence'[t], r>> \in accepted
    PROVE  CInv'
<1>1. \A x \in Workers : job'[x] = IF x = w THEN j ELSE job[x]
  BY DEF CInv, TInv, JobsOK
<1>2. \A x \in Workers : Passed(job[x])'
  BY <1>1 DEF CInv, Passed
<1>3. Backed'
  BY DEF CInv, Backed
<1>4. ReviewIsCertified'
  BY DEF CInv, ReviewIsCertified
<1>5. QED
  BY <1>2, <1>3, <1>4 DEF CInv

LEMMA PassedOn ==
    ASSUME CInv, TInv', UNCHANGED <<verdicts, accepted>>, NEW w \in Workers,
           \/ Return(w)
           \/ \E pc \in PC \ {"gate"} :
                  Goto(w, pc) /\ (job[w].pc \in Passing => pc \in Passing \/ job[w].goal # "Review"),
           \A t \in Tasks : claims'[t].state = "review" =>
               \/ claims[t].state = "review" /\ evidence'[t] = evidence[t]
               \/ \A r \in Roles : <<t, evidence'[t], r>> \in accepted
    PROVE  CInv'
<1>1. job \in [Workers -> Job] /\ job[w] \in Job
  BY DEF CInv, TInv, JobsOK
<1>2. CASE Return(w)
  <2>1. Passed(Idle)
    BY WorkerAssumption DEF Passed, Idle, Status
  <2>2. QED
    BY <1>2, <2>1, PassedStep DEF Return
<1>3. ASSUME NEW pc \in PC \ {"gate"}, Goto(w, pc),
             job[w].pc \in Passing => pc \in Passing \/ job[w].goal # "Review"
      PROVE  CInv'
  <2> DEFINE j == [job[w] EXCEPT !.pc = pc]
  <2>1. job' = [job EXCEPT ![w] = j]
    BY <1>1, <1>3 DEF Goto
  <2>2. Passed(j)
    BY <1>1, <1>3 DEF CInv, Passed, Job
  <2>3. QED
    BY <2>1, <2>2, PassedStep
<1>4. QED
  BY <1>2, <1>3

LEMMA GateAccepts ==
    ASSUME TInv, NEW t \in Tasks, NEW h \in Commits, Gate(t, h) = "accept", NEW r \in Roles
    PROVE  verdicts[t][h][r] = "accept"
<1>1. verdicts[t][h][r] \in {"none", "accept", "reject"}
  BY DEF TInv, AweTypeOK
<1>2. QED
  BY <1>1 DEF Gate

LEMMA GrantedPassed ==
    ASSUME CInv, TInv', NEW w \in Workers, NEW pc \in PC \ {"gate"},
           NEW goal \in Status \ {"Review"}, Granted(w, pc, goal), ~At(w, "idle")
    PROVE  CInv'
<1> DEFINE t == Task(w)
<1>1. claims \in [Tasks -> Claims] /\ t \in Tasks /\ job \in [Workers -> Job] /\ job[w] \in Job
  BY BusyTask DEF CInv, TInv, AweTypeOK, JobsOK
<1>2. PICK j : job' = [job EXCEPT ![w] = j] /\ j.pc = pc /\ j.goal = goal
  <2>1. ASSUME NEW k, job' = [job EXCEPT ![w].pc = pc, ![w].goal = goal, ![w].late = {},
                                        ![w].token = k, ![w].working = TRUE]
        PROVE  \E j : job' = [job EXCEPT ![w] = j] /\ j.pc = pc /\ j.goal = goal
    <3> DEFINE j == [job[w] EXCEPT !.pc = pc, !.goal = goal, !.late = {}, !.token = k,
                                   !.working = TRUE]
    <3>1. job' = [job EXCEPT ![w] = j] /\ j.pc = pc /\ j.goal = goal
      BY <1>1, <2>1 DEF Job
    <3> HIDE DEF j
    <3>2. QED
      BY <3>1
  <2>2. ASSUME NEW k, job' = [job EXCEPT ![w].pc = pc, ![w].goal = goal, ![w].late = {},
                                        ![w].token = k]
        PROVE  \E j : job' = [job EXCEPT ![w] = j] /\ j.pc = pc /\ j.goal = goal
    <3> DEFINE j == [job[w] EXCEPT !.pc = pc, !.goal = goal, !.late = {}, !.token = k]
    <3>1. job' = [job EXCEPT ![w] = j] /\ j.pc = pc /\ j.goal = goal
      BY <1>1, <2>2 DEF Job
    <3> HIDE DEF j
    <3>2. QED
      BY <3>1
  <2>3. QED
    BY <2>1, <2>2 DEF Granted
<1>3. Passed(j)
  BY <1>2 DEF Passed
<1>4. UNCHANGED <<evidence, verdicts, accepted>>
  BY DEF Granted, ResumeRows, GrantRows
<1>5. \A u \in Tasks : claims'[u].state = "review" => claims[u].state = "review"
  <2>1. CASE Resumes(t, w, job[w].late) /\ ResumeRows(t)
    <3> DEFINE c == [claims[t] EXCEPT !.live = TRUE]
    <3>1. claims' = [claims EXCEPT ![t] = c] /\ claims[t] \in Claims
      BY <1>1, <2>1 DEF ResumeRows
    <3>2. c.state = claims[t].state
      BY <3>1 DEF Claims
    <3>3. QED
      BY <1>1, <3>1, <3>2
  <2>2. CASE GrantRows(t, w)
    BY <1>1, <2>2 DEF GrantRows
  <2>3. QED
    BY <2>1, <2>2 DEF Granted
<1>6. QED
  BY <1>2, <1>3, <1>4, <1>5, PassedStep

LEMMA GateStep ==
    ASSUME CInv, TInv', NEW w \in Workers, Detect(w) \/ ReadGate(w) \/ QueueCertifier(w)
    PROVE  CInv'
<1>1. job \in [Workers -> Job] /\ job[w] \in Job
  BY DEF CInv, TInv, JobsOK
<1>2. UNCHANGED <<claims, evidence, verdicts, accepted>>
  BY DEF Detect, ReadGate, QueueCertifier, ledgerVars
<1>3. CASE Return(w)
  BY <1>2, <1>3, PassedOn
<1>4. CASE Detect(w) /\ job' = [job EXCEPT ![w].pc = "gate", ![w].head = head[Task(w)]]
           /\ head[Task(w)] > 0
  <2> DEFINE j == [job[w] EXCEPT !.pc = "gate", !.head = head[Task(w)]]
  <2>1. head[Task(w)] \in Commits
    BY <1>4, BusyTask, LedgerAssumption DEF CInv, TInv, AweTypeOK, Detect, At, Commits
  <2>2. job' = [job EXCEPT ![w] = j]
    BY <1>1, <1>4
  <2>3. Passed(j)
    BY <1>1, <1>4, <2>1 DEF CInv, Passed, Passing, Detect, At, Job
  <2>4. QED
    BY <1>2, <2>2, <2>3, PassedStep
<1>5. CASE ReadGate(w)
  <2>1. Task(w) \in Tasks /\ job[w].head \in Commits
    BY <1>5, BusyTask DEF CInv, TInv, Passed, ReadGate, At
  <2> DEFINE gate == Gate(Task(w), job[w].head)
             g == CASE gate = "accept" -> "Review"
                    [] gate = "reject" -> "Queue"
                    [] OTHER           -> None
  <2>2. /\ job' = [job EXCEPT ![w].pc = "certifiers", ![w].goal = g]
        /\ g = "Review" => gate = "accept"
    <3>1. job' = [job EXCEPT ![w].pc = "certifiers", ![w].goal = g]
      BY <1>5 DEF ReadGate
    <3>2. g = "Review" => gate = "accept"
      <4> HIDE DEF gate
      <4>1. gate = "reject" => g = "Queue"
        OBVIOUS
      <4>2. gate \notin {"accept", "reject"} => g = None
        OBVIOUS
      <4>3. QED
        BY <4>1, <4>2, WorkerAssumption DEF Status
    <3>3. QED
      BY <3>1, <3>2
  <2> HIDE DEF g
  <2> DEFINE j == [job[w] EXCEPT !.pc = "certifiers", !.goal = g]
  <2>3. job' = [job EXCEPT ![w] = j]
    BY <1>1, <2>2
  <2>4. g = "Review" => \A r \in Roles : <<job[w].task, job[w].head, r>> \in accepted
    BY <2>1, <2>2, GateAccepts DEF CInv, Backed, Task
  <2>5. Passed(j)
    BY <1>1, <2>4 DEF Passed, Passing, Job
  <2>6. QED
    BY <1>2, <2>3, <2>5, PassedStep
<1>6. ASSUME NEW c, QueueCertifier(w), job' = [job EXCEPT ![w].certifiers = @ \ {c}]
      PROVE  CInv'
  <2> DEFINE j == [job[w] EXCEPT !.certifiers = @ \ {c}]
  <2>1. job' = [job EXCEPT ![w] = j]
    BY <1>1, <1>6
  <2>2. Passed(j)
    BY <1>1, <1>6 DEF CInv, Passed, Passing, Job
  <2>3. QED
    BY <1>2, <2>1, <2>2, PassedStep
<1>7. QED
  BY <1>3, <1>4, <1>5, <1>6 DEF Detect, QueueCertifier

LEMMA CloseStep ==
    ASSUME CInv, TInv', NEW w \in Workers, BlockForOwner(w) \/ Abandon(w) \/ CloseClaim(w)
    PROVE  CInv'
<1>1. claims \in [Tasks -> Claims] /\ evidence \in [Tasks -> 0..MaxHead]
  BY DEF CInv, TInv, AweTypeOK
<1>2. UNCHANGED <<verdicts, accepted>>
  BY DEF BlockForOwner, Abandon, CloseClaim, Close
<1>3. \/ Return(w)
      \/ \E pc \in PC \ {"gate"} :
             Goto(w, pc) /\ (job[w].pc \in Passing => pc \in Passing \/ job[w].goal # "Review")
  BY DEF BlockForOwner, Abandon, CloseClaim, PC, Passing
<1>4. PICK new, h :
          /\ new \in {"review", "blocked"}
          /\ Close(Task(w), job[w].token, new, h)
          /\ new = "review" => \A r \in Roles : <<Task(w), h, r>> \in accepted
  BY DEF BlockForOwner, Abandon, CloseClaim, CInv, Passed, Task
<1>5. \A t \in Tasks : claims'[t].state = "review" =>
          \/ claims[t].state = "review" /\ evidence'[t] = evidence[t]
          \/ \A r \in Roles : <<t, evidence'[t], r>> \in accepted
  <2> SUFFICES ASSUME NEW t \in Tasks, claims'[t].state = "review"
               PROVE  \/ claims[t].state = "review" /\ evidence'[t] = evidence[t]
                      \/ \A r \in Roles : <<t, evidence'[t], r>> \in accepted
    OBVIOUS
  <2>1. CASE t # Task(w) \/ claims[t].token # job[w].token
    BY <1>1, <1>4, <2>1 DEF Close
  <2>2. CASE t = Task(w) /\ claims[t].token = job[w].token
    <3> DEFINE c == [claims[t] EXCEPT !.state = new, !.live = FALSE]
    <3>1. claims'[t] = c /\ claims[t] \in Claims
      BY <1>1, <1>4, <2>2 DEF Close
    <3>2. new = "review"
      BY <3>1 DEF Claims
    <3>3. evidence'[t] = h
      BY <1>1, <1>4, <2>2, <3>2 DEF Close
    <3>4. QED
      BY <1>4, <2>2, <3>2, <3>3
  <2>3. QED
    BY <2>1, <2>2
<1>6. QED
  BY <1>2, <1>3, <1>5, PassedOn

LEMMA SilentStep ==
    ASSUME CInv, TInv', NEW w \in Workers,
           \/ Preflight(w) \/ CheckSource(w) \/ Wake(w) \/ Decide(w) \/ Crash(w)
           \/ Move(w) \/ Project(w) \/ Erase(w) \/ Append(w)
    PROVE  CInv'
<1>1. UNCHANGED <<claims, evidence, verdicts, accepted>>
  BY DEF Preflight, CheckSource, Wake, Decide, Crash, Move, Project, Erase, Append, ledgerVars
<1>2. CASE Preflight(w) \/ CheckSource(w) \/ Wake(w) \/ Decide(w) \/ Crash(w)
  <2>1. \/ Return(w)
        \/ \E pc \in PC \ {"gate"} :
               Goto(w, pc) /\ (job[w].pc \in Passing => pc \in Passing \/ job[w].goal # "Review")
    BY <1>2 DEF Preflight, CheckSource, Wake, Decide, Crash, At, PC, Passing
  <2>2. QED
    BY <1>1, <2>1, PassedOn
<1>3. CASE Move(w) \/ Project(w) \/ Erase(w) \/ Append(w)
  <2>1. \A ok \in BOOLEAN : /\ AfterWrites(w, ok) \in PC \ {"gate"}
                            /\ job[w].goal = "Review" => AfterWrites(w, ok) \in Passing
    BY DEF AfterWrites, PC, Passing
  <2>2. \/ \E pc \in {"board", "erase", "append"} : Goto(w, pc)
        \/ \E ok \in BOOLEAN : Leave(w, AfterWrites(w, ok))
    BY <1>3 DEF Move, Project, Erase, Append, WriteFails
  <2>3. \/ Return(w)
        \/ \E pc \in PC \ {"gate"} :
               Goto(w, pc) /\ (job[w].pc \in Passing => pc \in Passing \/ job[w].goal # "Review")
    BY <2>1, <2>2 DEF Leave, PC, Passing
  <2>4. QED
    BY <1>1, <2>3, PassedOn
<1>4. QED
  BY <1>2, <1>3

LEMMA ObservePassed ==
    ASSUME CInv, TInv', NEW w \in Workers, NEW s \in Slots, Observe(w, s)
    PROVE  CInv'
<1>1. PICK j : job' = [job EXCEPT ![w] = j] /\ j.pc = "preflight" /\ j.goal = None
  <2>1. PICK t \in Eligible(s) :
             job' = [job EXCEPT ![w] =
                  [Idle EXCEPT !.pc = "preflight", !.task = t, !.owner = needsOwner[t],
                               !.working = (folder[t] = "In Progress"),
                               !.certifiers = {c \in CertifierOf[t] :
                                                  folder[c] \notin {"In Progress", "Review"}}]]
    BY DEF Observe
  <2> DEFINE j == [Idle EXCEPT !.pc = "preflight", !.task = t, !.owner = needsOwner[t],
                               !.working = (folder[t] = "In Progress"),
                               !.certifiers = {c \in CertifierOf[t] :
                                                  folder[c] \notin {"In Progress", "Review"}}]
  <2>2. job' = [job EXCEPT ![w] = j] /\ j.pc = "preflight" /\ j.goal = None
    BY <2>1 DEF Idle
  <2> HIDE DEF j
  <2>3. QED
    BY <2>2
<1>2. Passed(j)
  BY <1>1, WorkerAssumption DEF Passed, Status
<1>3. /\ UNCHANGED <<evidence, verdicts, accepted>>
      /\ \A t \in Tasks : claims'[t].state = "review" => claims[t].state = "review"
  BY DEF Observe, Cleaned, CInv, TInv, AweTypeOK, Claims
<1>4. QED
  BY <1>1, <1>2, <1>3, PassedStep

LEMMA ExpirePassed ==
    ASSUME CInv, TInv', NEW t \in Tasks, Expire(t)
    PROVE  CInv'
<1>1. claims \in [Tasks -> Claims] /\ job \in [Workers -> Job]
  BY DEF CInv, TInv, AweTypeOK, JobsOK
<1>2. UNCHANGED <<evidence, verdicts, accepted>>
  BY DEF Expire
<1>3. \A u \in Tasks : claims'[u].state = claims[u].state
  BY <1>1 DEF Expire, Claims
<1>4. \A w \in Workers : /\ job'[w].pc = job[w].pc /\ job'[w].goal = job[w].goal
                         /\ job'[w].task = job[w].task /\ job'[w].head = job[w].head
  BY <1>1 DEF Expire, Job
<1>5. \A w \in Workers : Passed(job[w])'
  BY <1>2, <1>4 DEF CInv, Passed
<1>6. QED
  BY <1>2, <1>3, <1>5 DEF CInv, Backed, ReviewIsCertified

LEMMA OthersPassed ==
    ASSUME CInv, TInv', NEW t \in Tasks, Others(t)
    PROVE  CInv'
<1>1. UNCHANGED <<claims, evidence, job>>
  BY DEF Others, Agent, Certify, Assign, KeepForOwner, record_certification, ledgerVars
<1>2. accepted \subseteq accepted' /\ Backed'
  <2>1. CASE Certify(t)
    <3>1. PICK h \in 1..head[t], r \in Roles, v \in {"accept", "reject"} :
              record_certification(t, h, r, v)
      BY <2>1 DEF Certify
    <3>2. h \in Commits /\ verdicts \in [Tasks -> [Commits -> [Roles -> {"none", "accept", "reject"}]]]
      BY LedgerAssumption DEF CInv, TInv, AweTypeOK, Commits
    <3>3. accepted \subseteq accepted'
      BY <3>1 DEF record_certification
    <3>4. \A u \in Tasks, g \in Commits, q \in Roles :
              verdicts'[u][g][q] = IF <<u, g, q>> = <<t, h, r>> THEN v ELSE verdicts[u][g][q]
      BY <3>1, <3>2 DEF record_certification
    <3>5. v = "accept" => <<t, h, r>> \in accepted'
      BY <3>1 DEF record_certification
    <3>6. QED
      BY <3>3, <3>4, <3>5 DEF CInv, Backed
  <2>2. CASE UNCHANGED <<verdicts, accepted>>
    BY <2>2 DEF CInv, Backed
  <2>3. QED
    BY <2>1, <2>2 DEF Others, Agent, Assign, KeepForOwner, ledgerVars
<1>3. \A w \in Workers : Passed(job[w])'
  BY <1>1, <1>2 DEF CInv, Passed
<1>4. ReviewIsCertified'
  BY <1>1, <1>2 DEF CInv, ReviewIsCertified
<1>5. QED
  BY <1>2, <1>3, <1>4 DEF CInv

LEMMA CInvInit == Init => CInv
<1> SUFFICES ASSUME Init PROVE CInv
  OBVIOUS
<1>1. TInv
  BY InitType
<1>2. Backed /\ ReviewIsCertified
  BY DEF Init, InitLedger, NoClaim, Backed, ReviewIsCertified
<1>3. \A w \in Workers : Passed(job[w])
  BY WorkerAssumption DEF Init, Idle, Passed, Status
<1>4. QED
  BY <1>1, <1>2, <1>3 DEF CInv

LEMMA CInvStep == CInv /\ [Next]_vars => CInv'
<1> SUFFICES ASSUME CInv, [Next]_vars PROVE CInv'
  OBVIOUS
<1>1. TInv'
  BY TypingStep DEF CInv
<1>2. ASSUME NEW w \in Workers, Claim(w) \/ Escalate(w) PROVE CInv'
  <2>1. ~At(w, "idle")
    BY <1>2 DEF Claim, Escalate, At
  <2>2. ASSUME NEW pc \in PC \ {"gate"}, NEW goal \in Status \ {"Review"}, Granted(w, pc, goal)
        PROVE  CInv'
    BY <1>1, <2>1, <2>2, GrantedPassed
  <2>3. CASE Return(w) /\ UNCHANGED ledgerVars
    BY <1>1, <2>3, PassedOn DEF ledgerVars
  <2>4. CASE /\ job' = [job EXCEPT ![w].pc = "move", ![w].goal = "Blocked", ![w].late = {}]
             /\ UNCHANGED ledgerVars
    <3> DEFINE j == [job[w] EXCEPT !.pc = "move", !.goal = "Blocked", !.late = {}]
    <3>1. job \in [Workers -> Job]
      BY DEF CInv, TInv, JobsOK
    <3>2. job' = [job EXCEPT ![w] = j]
      BY <2>4, <3>1
    <3>3. Passed(j)
      BY <3>1 DEF Passed, Job
    <3>4. QED
      BY <1>1, <2>4, <3>2, <3>3, PassedStep DEF ledgerVars
  <2>5. QED
    BY <1>2, <2>2, <2>3, <2>4 DEF Claim, Escalate, PC, Status
<1>3. CASE Next
  BY <1>1, <1>2, <1>3, Steps, ObservePassed, CloseStep, SilentStep, GateStep, ExpirePassed,
     OthersPassed
<1>4. CASE UNCHANGED vars
  BY <1>1, <1>4 DEF vars, ledgerVars, CInv, Passed, Backed, ReviewIsCertified
<1>5. QED
  BY <1>3, <1>4

\* A task is recorded as completed only with a head that every required role has
\* accepted, whatever is committed, certified or interrupted while the cycle runs.
THEOREM CompletionIsCertified == Spec => []ReviewIsCertified
<1>1. Spec => []CInv
  BY CInvInit, CInvStep, PTL DEF Spec
<1>2. CInv => ReviewIsCertified
  BY DEF CInv
<1>3. QED
  BY <1>1, <1>2, PTL
-----------------------------------------------------------------------------
(* The page of a reviewed task.                                             *)

\* The program counters at which an accepted cycle writes its page and its row.
Closing == {"move", "board", "erase", "append", "close"}

\* A lease that counts is on a claim that is still to be settled.
LiveOpen == \A t \in Tasks : claims[t].live => claims[t].state \notin Settled

\* Whoever settles with a token has the lease: nobody else works on the task.
Owns(w) ==
    Holding(job[w]) => /\ claims[Task(w)].worker = w
                       /\ claims[Task(w)].token = job[w].token
                       /\ claims[Task(w)].live

\* The lease of a task whose page is in Review serves to complete it, and nothing
\* else.
Aims(w) ==
    Holding(job[w]) /\ folder[Task(w)] = "Review" =>
        job[w].goal = "Review" /\ job[w].pc \in Closing

\* A worker that saw the task earlier and now asks for its claim will be refused.
Waits(w) ==
    job[w].pc \in {"claim", "escalate"} /\ folder[Task(w)] = "Review" =>
        \/ claims[Task(w)].state = "review"
        \/ claims[Task(w)].live /\ claims[Task(w)].worker # w

Standing == LiveOpen /\ \A w \in Workers : Owns(w) /\ Aims(w) /\ Waits(w)

VInv == IInv /\ (~stalled => Standing)

LEMMA Asking ==
    ASSUME TInv, NEW w \in Workers,
           Holding(job[w]) \/ job[w].pc \in {"claim", "escalate"}
    PROVE  Task(w) \in Tasks
  BY BusyTask DEF TInv, Holding, Keeping, At

\* How a cycle may go on without being granted anything and without settling.
Onward(i, j) ==
    /\ Holding(j) => /\ Holding(i) /\ j.task = i.task /\ j.token = i.token
                     /\ i.goal = "Review" /\ i.pc \in Closing =>
                           j.goal = "Review" /\ j.pc \in Closing
    /\ j.pc \in {"claim", "escalate"} => j.task \in Tasks /\ folder[j.task] # "Review"

\* Rows with a live lease or a completion stay; no page comes to Review.
SameClaims ==
    \A t \in Tasks : /\ claims[t].live \/ claims[t].state = "review" => claims'[t] = claims[t]
                     /\ claims'[t].live => claims[t].live

LEMMA Proceeds ==
    ASSUME TInv, Standing, SameClaims, NEW w \in Workers, NEW j,
           job' = [job EXCEPT ![w] = j], Onward(job[w], j),
           \A t \in Tasks : folder'[t] = "Review" => folder[t] = "Review"
    PROVE  Standing'
<1>1. \A x \in Workers : job'[x] = IF x = w THEN j ELSE job[x]
  BY DEF TInv, JobsOK
<1>2. LiveOpen'
  BY DEF Standing, LiveOpen, SameClaims
<1>3. ASSUME NEW x \in Workers, Holding(job'[x])
      PROVE  /\ Holding(job[x]) /\ job'[x].task = job[x].task /\ job'[x].token = job[x].token
             /\ job[x].goal = "Review" /\ job[x].pc \in Closing =>
                   job'[x].goal = "Review" /\ job'[x].pc \in Closing
  BY <1>1, <1>3 DEF Onward
<1>4. ASSUME NEW x \in Workers PROVE Owns(x)'
  <2> SUFFICES ASSUME Holding(job'[x])
               PROVE  /\ claims'[job'[x].task].worker = x
                      /\ claims'[job'[x].task].token = job'[x].token
                      /\ claims'[job'[x].task].live
    BY DEF Owns, Task
  <2>1. Holding(job[x]) /\ job'[x].task = job[x].task /\ job'[x].token = job[x].token
    BY <1>3
  <2>2. job[x].task \in Tasks
    BY <2>1, Asking DEF Task
  <2>3. QED
    BY <2>1, <2>2 DEF Standing, Owns, Task, SameClaims
<1>5. ASSUME NEW x \in Workers PROVE Aims(x)'
  <2> SUFFICES ASSUME Holding(job'[x]), folder'[job'[x].task] = "Review"
               PROVE  job'[x].goal = "Review" /\ job'[x].pc \in Closing
    BY DEF Aims, Task
  <2>1. Holding(job[x]) /\ job'[x].task = job[x].task
    BY <1>3
  <2>2. job[x].task \in Tasks
    BY <2>1, Asking DEF Task
  <2>3. job[x].goal = "Review" /\ job[x].pc \in Closing
    BY <2>1, <2>2 DEF Standing, Aims, Task
  <2>4. QED
    BY <1>3, <2>3
<1>6. ASSUME NEW x \in Workers PROVE Waits(x)'
  <2> SUFFICES ASSUME job'[x].pc \in {"claim", "escalate"}, folder'[job'[x].task] = "Review"
               PROVE  \/ claims'[job'[x].task].state = "review"
                      \/ claims'[job'[x].task].live /\ claims'[job'[x].task].worker # x
    BY DEF Waits, Task
  <2>1. x # w
    BY <1>1 DEF Onward
  <2>2. job'[x] = job[x] /\ job[x].task \in Tasks
    BY <1>1, <2>1, Asking DEF Task
  <2>3. QED
    BY <2>2 DEF Standing, Waits, Task, SameClaims
<1>7. QED
  BY <1>2, <1>4, <1>5, <1>6 DEF Standing

LEMMA ProceedsTo ==
    ASSUME TInv, Standing, SameClaims, NEW w \in Workers,
           \A t \in Tasks : folder'[t] = "Review" => folder[t] = "Review",
           \/ Return(w)
           \/ \E pc \in PC \ {"claim", "escalate"} :
                 /\ Goto(w, pc)
                 /\ Holding([job[w] EXCEPT !.pc = pc]) =>
                       /\ Holding(job[w])
                       /\ job[w].goal = "Review" /\ job[w].pc \in Closing => pc \in Closing
    PROVE  Standing'
<1>1. job \in [Workers -> Job] /\ job[w] \in Job
  BY DEF TInv, JobsOK
<1>2. CASE Return(w)
  <2>1. Onward(job[w], Idle)
    BY DEF Onward, Holding, Keeping, Idle
  <2>2. QED
    BY <1>2, <2>1, Proceeds DEF Return
<1>3. ASSUME NEW pc \in PC \ {"claim", "escalate"}, Goto(w, pc),
             Holding([job[w] EXCEPT !.pc = pc]) =>
                 /\ Holding(job[w])
                 /\ job[w].goal = "Review" /\ job[w].pc \in Closing => pc \in Closing
      PROVE  Standing'
  <2> DEFINE j == [job[w] EXCEPT !.pc = pc]
  <2>1. job' = [job EXCEPT ![w] = j]
    BY <1>1, <1>3 DEF Goto
  <2>2. j.pc = pc /\ j.task = job[w].task /\ j.token = job[w].token /\ j.goal = job[w].goal
    BY <1>1 DEF Job
  <2>3. Holding(j) => /\ Holding(job[w])
                      /\ job[w].goal = "Review" /\ job[w].pc \in Closing => pc \in Closing
    BY <1>3
  <2> HIDE DEF j
  <2>4. Onward(job[w], j)
    BY <2>2, <2>3 DEF Onward
  <2>5. QED
    BY <2>1, <2>4, Proceeds
<1>4. QED
  BY <1>2, <1>3

LEMMA UnchangedClaims ==
    ASSUME claims' = claims
    PROVE  SameClaims
  BY DEF SameClaims
LEMMA LocalStands ==
    ASSUME TInv, Standing, NEW w \in Workers,
           Preflight(w) \/ CheckSource(w) \/ Wake(w) \/ Detect(w) \/ ReadGate(w) \/ Decide(w)
             \/ Crash(w) \/ QueueCertifier(w)
    PROVE  Standing'
<1>1. job \in [Workers -> Job] /\ job[w] \in Job
  BY DEF TInv, JobsOK
<1>2. folder' = folder /\ SameClaims
  BY UnchangedClaims
  DEF Preflight, CheckSource, Wake, Detect, ReadGate, Decide, Crash, QueueCertifier, ledgerVars,
      exchangeVars
<1>3. CASE Return(w)
  BY <1>2, <1>3, ProceedsTo
<1>4. CASE Preflight(w) /\ ~Return(w)
  <2>1. Task(w) \in Tasks
    BY <1>4, BusyTask DEF TInv, Preflight, At
  <2>2. PICK pc \in {"claim", "escalate"} : Goto(w, pc) /\ Agrees(Task(w))
    BY <1>4 DEF Preflight
  <2>3. folder[Task(w)] # "Review"
    BY <2>2 DEF Agrees, Authorized
  <2> DEFINE j == [job[w] EXCEPT !.pc = pc]
  <2>4. job' = [job EXCEPT ![w] = j]
    BY <1>1, <2>2 DEF Goto
  <2>5. j.pc = pc /\ j.task = Task(w)
    BY <1>1 DEF Job, Task
  <2> HIDE DEF j
  <2>6. Onward(job[w], j)
    BY <2>1, <2>2, <2>3, <2>5 DEF Onward, Holding, Keeping
  <2>7. QED
    BY <1>2, <2>4, <2>6, Proceeds
<1>5. CASE (CheckSource(w) \/ Wake(w) \/ Decide(w)) /\ ~Return(w)
  <2>1. Holding(job[w]) /\ job[w].pc \notin Closing
    BY <1>5 DEF CheckSource, Wake, Decide, At, Holding, Keeping, Closing
  <2>2. \E pc \in PC \ {"claim", "escalate"} : Goto(w, pc)
    BY <1>5 DEF CheckSource, Wake, Decide, PC
  <2>3. QED
    BY <1>2, <2>1, <2>2, ProceedsTo
<1>6. CASE (Detect(w) \/ ReadGate(w) \/ QueueCertifier(w)) /\ ~Return(w)
  <2>1. Holding(job[w]) /\ job[w].pc \notin Closing
    BY <1>6 DEF Detect, ReadGate, QueueCertifier, At, Holding, Keeping, Closing
  <2>2. ASSUME NEW j, job' = [job EXCEPT ![w] = j], j.task = job[w].task,
               j.token = job[w].token, j.pc \notin {"claim", "escalate"}
        PROVE  Standing'
    <3>1. Onward(job[w], j)
      BY <2>1, <2>2 DEF Onward
    <3>2. QED
      BY <1>2, <2>2, <3>1, Proceeds
  <2>3. CASE job' = [job EXCEPT ![w].pc = "gate", ![w].head = head[Task(w)]]
    <3> DEFINE j == [job[w] EXCEPT !.pc = "gate", !.head = head[Task(w)]]
    <3>1. job' = [job EXCEPT ![w] = j]
      BY <1>1, <2>3
    <3>2. /\ j.task = job[w].task /\ j.token = job[w].token
          /\ j.pc \notin {"claim", "escalate"}
      BY <1>1 DEF Job
    <3> HIDE DEF j
    <3>3. QED
      BY <2>2, <3>1, <3>2
  <2>4. ASSUME NEW g, job' = [job EXCEPT ![w].pc = "certifiers", ![w].goal = g]
        PROVE  Standing'
    <3> DEFINE j == [job[w] EXCEPT !.pc = "certifiers", !.goal = g]
    <3>1. job' = [job EXCEPT ![w] = j]
      BY <1>1, <2>4
    <3>2. /\ j.task = job[w].task /\ j.token = job[w].token
          /\ j.pc \notin {"claim", "escalate"}
      BY <1>1 DEF Job
    <3> HIDE DEF j
    <3>3. QED
      BY <2>2, <3>1, <3>2
  <2>5. ASSUME NEW c, QueueCertifier(w), job' = [job EXCEPT ![w].certifiers = @ \ {c}]
        PROVE  Standing'
    <3> DEFINE j == [job[w] EXCEPT !.certifiers = @ \ {c}]
    <3>1. job' = [job EXCEPT ![w] = j]
      BY <1>1, <2>5
    <3>2. j.task = job[w].task /\ j.token = job[w].token /\ j.pc = job[w].pc
      BY <1>1 DEF Job
    <3>3. job[w].pc = "certifiers"
      BY <2>5 DEF QueueCertifier, At
    <3> HIDE DEF j
    <3>4. QED
      BY <2>2, <3>1, <3>2, <3>3
  <2>6. QED
    BY <1>6, <2>3, <2>4, <2>5 DEF Detect, ReadGate, QueueCertifier
<1>7. QED
  BY <1>3, <1>4, <1>5, <1>6 DEF Crash

\* A cycle that writes keeps its goal until the claim is closed.
LEMMA OnwardWrites ==
    ASSUME NEW w \in Workers, job[w] \in Job, NEW pc,
           job[w].pc \in {"move", "board", "erase", "append"},
           \/ pc \in {"board", "erase", "append"}
           \/ \E ok \in BOOLEAN : pc = AfterWrites(w, ok) /\ pc # "idle"
    PROVE  /\ pc \in PC \ {"claim", "escalate"}
           /\ Holding([job[w] EXCEPT !.pc = pc]) => Holding(job[w])
           /\ job[w].goal = "Review" => pc \in Closing
<1> DEFINE j == [job[w] EXCEPT !.pc = pc]
<1>1. j.pc = pc /\ j.goal = job[w].goal
  BY DEF Job
<1>2. CASE pc \in {"board", "erase", "append"}
  BY <1>1, <1>2 DEF Holding, Keeping, Closing, PC
<1>3. CASE \E ok \in BOOLEAN : pc = AfterWrites(w, ok) /\ pc # "idle"
  <2>1. job[w].goal = "Blocked" => pc = "idle"
    BY <1>3 DEF AfterWrites
  <2>2. job[w].goal = "Review" => pc = "close"
    BY <1>3 DEF AfterWrites
  <2>3. pc \in PC \ {"claim", "escalate"}
    BY <1>3 DEF AfterWrites, PC
  <2>4. Holding(job[w])
    BY <1>3, <2>1 DEF Holding
  <2>5. QED
    BY <2>2, <2>3, <2>4 DEF Closing
<1>4. QED
  BY <1>2, <1>3

LEMMA WriteGoes ==
    ASSUME TInv, NEW w \in Workers, Move(w) \/ Project(w) \/ Erase(w) \/ Append(w)
    PROVE  \/ Return(w)
           \/ \E pc \in PC \ {"claim", "escalate"} :
                 /\ Goto(w, pc)
                 /\ Holding([job[w] EXCEPT !.pc = pc]) => Holding(job[w])
                 /\ job[w].goal = "Review" => pc \in Closing
<1>1. job[w] \in Job
  BY DEF TInv, JobsOK
<1>2. job[w].pc \in {"move", "board", "erase", "append"}
  BY DEF Move, Project, Erase, Append, At
<1>3. \/ \E pc \in {"board", "erase", "append"} : Goto(w, pc)
      \/ \E ok \in BOOLEAN : Leave(w, AfterWrites(w, ok))
  BY DEF Move, Project, Erase, Append, WriteFails
<1>4. \/ Return(w)
      \/ \E pc : /\ Goto(w, pc)
                 /\ \/ pc \in {"board", "erase", "append"}
                    \/ \E ok \in BOOLEAN : pc = AfterWrites(w, ok) /\ pc # "idle"
  BY <1>3 DEF Leave
<1>5. QED
  BY <1>1, <1>2, <1>4, OnwardWrites
LEMMA WriteStands ==
    ASSUME TInv, Standing, NEW w \in Workers, Move(w) \/ Project(w) \/ Erase(w) \/ Append(w)
    PROVE  Standing'
<1>1. claims' = claims /\ SameClaims
  BY UnchangedClaims DEF Move, Project, Erase, Append, ledgerVars
<1>2. CASE \A t \in Tasks : folder'[t] = "Review" => folder[t] = "Review"
  BY <1>1, <1>2, WriteGoes, ProceedsTo
<1>3. CASE Move(w) /\ Moved(w) /\ job[w].goal = "Review"
  <2> DEFINE t == Task(w)
  <2>1. Holding(job[w]) /\ t \in Tasks
    BY <1>3, BusyTask DEF Move, At, Holding, TInv
  <2>2. \A u \in Tasks : folder'[u] = "Review" => u = t \/ folder[u] = "Review"
    BY <1>3 DEF Moved, TInv, AweTypeOK
  <2>3. claims[t].worker = w /\ claims[t].token = job[w].token /\ claims[t].live
    BY <2>1 DEF Standing, Owns
  <2>4. ASSUME NEW x \in Workers \ {w}, Holding(job[x]) PROVE Task(x) # t
    BY <2>3, <2>4 DEF Standing, Owns
  <2>5. PICK j : /\ job' = [job EXCEPT ![w] = j]
                 /\ j.pc \notin {"claim", "escalate"}
                 /\ Holding(j) => /\ j.task = t /\ j.token = job[w].token
                                  /\ j.goal = "Review" /\ j.pc \in Closing
    <3>1. job \in [Workers -> Job] /\ job[w] \in Job
      BY DEF TInv, JobsOK
    <3>2. CASE Return(w)
      <4>1. Idle.pc \notin {"claim", "escalate"} /\ ~Holding(Idle)
        BY DEF Idle, Holding, Keeping
      <4>2. QED
        BY <3>2, <4>1 DEF Return
    <3>3. ASSUME NEW pc \in PC \ {"claim", "escalate"}, Goto(w, pc), pc \in Closing
          PROVE  \E j : /\ job' = [job EXCEPT ![w] = j]
                        /\ j.pc \notin {"claim", "escalate"}
                        /\ Holding(j) => /\ j.task = t /\ j.token = job[w].token
                                         /\ j.goal = "Review" /\ j.pc \in Closing
      <4> DEFINE j == [job[w] EXCEPT !.pc = pc]
      <4>1. job' = [job EXCEPT ![w] = j]
        BY <3>1, <3>3 DEF Goto
      <4>2. j.pc = pc /\ j.task = t /\ j.token = job[w].token /\ j.goal = "Review"
        BY <1>3, <3>1 DEF Job, Task
      <4> HIDE DEF j
      <4>3. QED
        BY <3>3, <4>1, <4>2
    <3>4. QED
      BY <1>3, <3>2, <3>3, WriteGoes
  <2>6. \A x \in Workers : job'[x] = IF x = w THEN j ELSE job[x]
    BY <2>5 DEF TInv, JobsOK
  <2>7. LiveOpen'
    BY <1>1 DEF Standing, LiveOpen
  <2>8. ASSUME NEW x \in Workers PROVE Owns(x)' /\ Aims(x)' /\ Waits(x)'
    <3>1. CASE x = w
      <4>1. job'[x] = j
        BY <2>6, <3>1
      <4>2. QED
        BY <1>1, <2>3, <2>5, <3>1, <4>1 DEF Owns, Aims, Waits, Task
    <3>2. CASE x # w
      <4>1. job'[x] = job[x]
        BY <2>6, <3>2
      <4>2. Owns(x)'
        BY <1>1, <4>1 DEF Standing, Owns, Task
      <4>3. Aims(x)'
        <5> SUFFICES ASSUME Holding(job[x]), folder'[Task(x)] = "Review"
                     PROVE  job[x].goal = "Review" /\ job[x].pc \in Closing
          BY <4>1 DEF Aims, Task
        <5>1. folder[Task(x)] = "Review"
          BY <2>2, <2>4, <3>2, Asking
        <5>2. QED
          BY <5>1 DEF Standing, Aims
      <4>4. Waits(x)'
        <5> SUFFICES ASSUME job[x].pc \in {"claim", "escalate"}, folder'[Task(x)] = "Review"
                     PROVE  \/ claims[Task(x)].state = "review"
                            \/ claims[Task(x)].live /\ claims[Task(x)].worker # x
          BY <1>1, <4>1 DEF Waits, Task
        <5>1. Task(x) = t \/ folder[Task(x)] = "Review"
          BY <2>2, Asking
        <5>2. QED
          BY <2>3, <3>2, <5>1 DEF Standing, Waits
      <4>5. QED
        BY <4>2, <4>3, <4>4
    <3>3. QED
      BY <3>1, <3>2
  <2>9. QED
    BY <2>7, <2>8 DEF Standing
<1>4. QED
  BY <1>2, <1>3 DEF Move, Moved, Project, Erase, Append, TInv, AweTypeOK

\* A step that gives w a job and changes no row but that of its task, on which no
\* other worker has the lease; the page of the task is not in Review.
LEMMA TakesRow ==
    ASSUME TInv, Standing, NEW w \in Workers, NEW t \in Tasks, NEW j,
           job' = [job EXCEPT ![w] = j], j.task = t, j.pc \notin {"claim", "escalate"},
           folder' = folder, folder[t] # "Review",
           \A u \in Tasks \ {t} : claims'[u] = claims[u],
           claims'[t].live, claims'[t].state \notin Settled,
           claims'[t].worker = w, claims'[t].token = j.token,
           \A x \in Workers \ {w} : Holding(job[x]) => Task(x) # t
    PROVE  Standing'
<1>1. \A x \in Workers : job'[x] = IF x = w THEN j ELSE job[x]
  BY DEF TInv, JobsOK
<1>2. LiveOpen'
  BY DEF Standing, LiveOpen
<1>3. ASSUME NEW x \in Workers PROVE Owns(x)' /\ Aims(x)' /\ Waits(x)'
  <2>1. CASE x = w
    <3>1. job'[x] = j
      BY <1>1, <2>1
    <3>2. QED
      BY <2>1, <3>1 DEF Owns, Aims, Waits, Task
  <2>2. CASE x # w
    <3>1. job'[x] = job[x]
      BY <1>1, <2>2
    <3>2. Owns(x)'
      <4> SUFFICES ASSUME Holding(job[x])
                   PROVE  /\ claims'[Task(x)].worker = x
                          /\ claims'[Task(x)].token = job[x].token
                          /\ claims'[Task(x)].live
        BY <3>1 DEF Owns, Task
      <4>1. Task(x) \in Tasks \ {t}
        BY <2>2, Asking
      <4>2. QED
        BY <4>1 DEF Standing, Owns
    <3>3. Aims(x)'
      BY <3>1 DEF Standing, Aims, Task
    <3>4. Waits(x)'
      <4> SUFFICES ASSUME job[x].pc \in {"claim", "escalate"}, folder[Task(x)] = "Review"
                   PROVE  \/ claims'[Task(x)].state = "review"
                          \/ claims'[Task(x)].live /\ claims'[Task(x)].worker # x
        BY <3>1 DEF Waits, Task
      <4>1. Task(x) \in Tasks \ {t}
        BY Asking
      <4>2. QED
        BY <4>1 DEF Standing, Waits
    <3>5. QED
      BY <3>2, <3>3, <3>4
  <2>3. QED
    BY <2>1, <2>2
<1>4. QED
  BY <1>2, <1>3 DEF Standing
LEMMA GrantedStands ==
    ASSUME IInv, Standing, ~stalled, NEW w \in Workers, job[w].pc \in {"claim", "escalate"},
           NEW pc \in PC \ {"claim", "escalate"}, NEW goal \in Status,
           Granted(w, pc, goal), folder' = folder
    PROVE  Standing'
<1> DEFINE t == Task(w)
<1>1. t \in Tasks /\ job \in [Workers -> Job] /\ job[w] \in Job /\ TInv
  BY Asking DEF IInv, TInv, JobsOK
<1>2. claims \in [Tasks -> Claims] /\ issued \in [Tasks -> Nat]
  BY DEF IInv, TInv, AweTypeOK
<1>3. t \notin job[w].late
  BY DEF IInv, Punctual
<1>4. folder[t] # "Review"
  <2>1. \/ Resumes(t, w, job[w].late)
        \/ Free(t, job[w].late)
    BY DEF Granted
  <2>2. claims[t].state # "review" /\ (claims[t].live => claims[t].worker = w)
    BY <1>3, <2>1 DEF Resumes, Free, Leased
  <2>3. QED
    BY <2>2 DEF Standing, Waits
<1>5. CASE /\ Resumes(t, w, job[w].late) /\ ResumeRows(t)
           /\ job' = [job EXCEPT ![w].pc = pc, ![w].goal = goal, ![w].late = {},
                                 ![w].token = claims[t].token, ![w].working = TRUE]
  <2> DEFINE j == [job[w] EXCEPT !.pc = pc, !.goal = goal, !.late = {},
                                 !.token = claims[t].token, !.working = TRUE]
  <2>1. job' = [job EXCEPT ![w] = j] /\ j.task = t /\ j.token = claims[t].token /\ j.pc = pc
    BY <1>1, <1>5 DEF Job, Task
  <2> HIDE DEF j
  <2>2. claims[t].live /\ claims[t].worker = w
    BY <1>3, <1>5 DEF Resumes, Leased
  <2>3. claims'[t] = [claims[t] EXCEPT !.live = TRUE]
        /\ \A u \in Tasks \ {t} : claims'[u] = claims[u]
    BY <1>1, <1>2, <1>5 DEF ResumeRows
  <2>4. claims[t] \in Claims
    BY <1>1, <1>2
  <2>5. claims'[t].live
    BY <2>3, <2>4 DEF Claims
  <2>6. /\ claims'[t].state = claims[t].state /\ claims'[t].worker = claims[t].worker
        /\ claims'[t].token = claims[t].token
    BY <2>3, <2>4 DEF Claims
  <2>7. claims[t].state \notin Settled
    BY <1>1, <2>2 DEF Standing, LiveOpen
  <2>8. \A x \in Workers \ {w} : Holding(job[x]) => Task(x) # t
    BY <2>2 DEF Standing, Owns
  <2>9. claims'[t].state \notin Settled /\ claims'[t].worker = w /\ claims'[t].token = j.token
    BY <2>1, <2>2, <2>6, <2>7
  <2>10. \A u \in Tasks \ {t} : claims'[u] = claims[u]
    BY <2>3
  <2>11. QED
    BY <1>1, <1>4, <2>1, <2>5, <2>8, <2>9, <2>10, TakesRow
<1>6. CASE /\ Free(t, job[w].late) /\ GrantRows(t, w)
           /\ job' = [job EXCEPT ![w].pc = pc, ![w].goal = goal, ![w].late = {},
                                 ![w].token = issued'[t]]
  <2> DEFINE j == [job[w] EXCEPT !.pc = pc, !.goal = goal, !.late = {}, !.token = issued'[t]]
  <2>1. job' = [job EXCEPT ![w] = j] /\ j.task = t /\ j.token = issued'[t] /\ j.pc = pc
    BY <1>1, <1>6 DEF Job, Task
  <2> HIDE DEF j
  <2>2. /\ issued'[t] = issued[t] + 1
        /\ claims'[t] = [state |-> "in_progress", worker |-> w, token |-> issued[t] + 1,
                         live |-> TRUE]
        /\ \A u \in Tasks \ {t} : claims'[u] = claims[u]
    BY <1>1, <1>2, <1>6 DEF GrantRows
  <2>3. ~claims[t].live
    BY <1>6 DEF Free, Leased
  <2>4. \A x \in Workers \ {w} : Holding(job[x]) => Task(x) # t
    BY <2>3 DEF Standing, Owns
  <2>5. /\ claims'[t].live /\ claims'[t].state \notin Settled
        /\ claims'[t].worker = w /\ claims'[t].token = j.token
    BY <2>1, <2>2 DEF Settled
  <2>6. QED
    BY <1>1, <1>4, <2>1, <2>2, <2>4, <2>5, TakesRow
<1>7. QED
  BY <1>5, <1>6 DEF Granted

LEMMA ClaimStands ==
    ASSUME IInv, Standing, ~stalled, NEW w \in Workers, Claim(w) \/ Escalate(w)
    PROVE  Standing'
<1>1. folder' = folder /\ job[w].pc \in {"claim", "escalate"} /\ TInv
  BY DEF Claim, Escalate, At, exchangeVars, IInv
<1>2. job \in [Workers -> Job] /\ job[w] \in Job
  BY DEF IInv, TInv, JobsOK
<1>3. ASSUME NEW pc \in {"wake", "source", "owner"}, NEW goal \in {"In Progress", "Blocked"},
             Granted(w, pc, goal)
      PROVE  Standing'
  BY <1>1, <1>3, GrantedStands DEF PC, Status
<1>4. CASE Return(w) /\ UNCHANGED ledgerVars
  BY <1>1, <1>4, UnchangedClaims, ProceedsTo DEF ledgerVars
<1>5. CASE /\ job' = [job EXCEPT ![w].pc = "move", ![w].goal = "Blocked", ![w].late = {}]
           /\ UNCHANGED ledgerVars
  <2> DEFINE j == [job[w] EXCEPT !.pc = "move", !.goal = "Blocked", !.late = {}]
  <2>1. job' = [job EXCEPT ![w] = j] /\ j.pc = "move" /\ j.goal = "Blocked"
    BY <1>2, <1>5 DEF Job
  <2> HIDE DEF j
  <2>2. Onward(job[w], j)
    BY <2>1 DEF Onward, Holding, Keeping
  <2>3. QED
    BY <1>1, <1>5, <2>1, <2>2, UnchangedClaims, Proceeds DEF ledgerVars
<1>6. QED
  BY <1>3, <1>4, <1>5 DEF Claim, Escalate

LEMMA SettleStands ==
    ASSUME IInv, Standing, NEW w \in Workers,
           BlockForOwner(w) \/ Abandon(w) \/ CloseClaim(w)
    PROVE  Standing'
<1> DEFINE t == Task(w)
<1>1. t \in Tasks /\ Holding(job[w]) /\ TInv
  BY Settler DEF IInv
<1>2. claims[t].worker = w /\ claims[t].token = job[w].token /\ claims[t].live
  BY <1>1 DEF Standing, Owns
<1>3. folder' = folder /\ job \in [Workers -> Job] /\ job[w] \in Job
  BY DEF BlockForOwner, Abandon, CloseClaim, exchangeVars, IInv, TInv, JobsOK
<1>4. PICK new, h :
          /\ new \in {"review", "blocked"}
          /\ Close(t, job[w].token, new, h)
          /\ CloseClaim(w) /\ job[w].goal = "Review" => new = "review"
  BY DEF BlockForOwner, Abandon, CloseClaim, At
<1>5. /\ \A u \in Tasks \ {t} : claims'[u] = claims[u]
      /\ claims'[t] = [claims[t] EXCEPT !.state = new, !.live = FALSE]
  <2> DEFINE c == [claims[t] EXCEPT !.state = new, !.live = FALSE]
  <2>1. claims' = [claims EXCEPT ![t] = c]
    BY <1>1, <1>2, <1>4 DEF Close, TInv, AweTypeOK
  <2>2. QED
    BY <1>1, <2>1 DEF TInv, AweTypeOK
<1>6. claims'[t].state = new /\ ~claims'[t].live
  BY <1>1, <1>5 DEF TInv, AweTypeOK, Claims
<1>7. folder[t] = "Review" => new = "review"
  <2> SUFFICES ASSUME folder[t] = "Review" PROVE new = "review"
    OBVIOUS
  <2>1. job[w].goal = "Review" /\ job[w].pc \in Closing
    BY <1>1 DEF Standing, Aims
  <2>2. QED
    BY <1>4, <2>1 DEF BlockForOwner, Abandon, At, Closing
<1>8. PICK j : job' = [job EXCEPT ![w] = j] /\ ~Holding(j) /\ j.pc \notin {"claim", "escalate"}
  <2>1. CASE Return(w)
    <3>1. ~Holding(Idle) /\ Idle.pc \notin {"claim", "escalate"}
      BY DEF Idle, Holding, Keeping
    <3>2. QED
      BY <2>1, <3>1 DEF Return
  <2>2. CASE BlockForOwner(w)
    <3> DEFINE j == [job[w] EXCEPT !.pc = "move"]
    <3>1. job[w].goal = "Blocked"
      BY <1>1, <2>2 DEF BlockForOwner, At, TInv, JobsOK, JobOK
    <3>2. job' = [job EXCEPT ![w] = j] /\ j.pc = "move" /\ j.goal = "Blocked"
      BY <1>3, <2>2, <3>1 DEF BlockForOwner, Goto, Job
    <3> HIDE DEF j
    <3>3. ~Holding(j) /\ j.pc \notin {"claim", "escalate"}
      BY <3>2 DEF Holding, Keeping
    <3>4. QED
      BY <3>2, <3>3
  <2>3. QED
    BY <2>1, <2>2 DEF Abandon, CloseClaim
<1>9. \A x \in Workers : job'[x] = IF x = w THEN j ELSE job[x]
  BY <1>3, <1>8
<1>10. LiveOpen'
  BY <1>5, <1>6 DEF Standing, LiveOpen
<1>11. ASSUME NEW x \in Workers PROVE Owns(x)' /\ Aims(x)' /\ Waits(x)'
  <2>1. CASE x = w
    <3>1. job'[x] = j
      BY <1>9, <2>1
    <3>2. QED
      BY <1>8, <3>1 DEF Owns, Aims, Waits
  <2>2. CASE x # w
    <3>1. job'[x] = job[x]
      BY <1>9, <2>2
    <3>2. Owns(x)'
      <4> SUFFICES ASSUME Holding(job[x])
                   PROVE  /\ claims'[Task(x)].worker = x
                          /\ claims'[Task(x)].token = job[x].token
                          /\ claims'[Task(x)].live
        BY <3>1 DEF Owns, Task
      <4>1. Task(x) \in Tasks /\ claims[Task(x)].worker = x
        BY <1>1, Asking DEF Standing, Owns
      <4>2. Task(x) # t
        BY <1>2, <2>2, <4>1
      <4>3. QED
        BY <1>5, <4>1, <4>2 DEF Standing, Owns
    <3>3. Aims(x)'
      BY <1>3, <3>1 DEF Standing, Aims, Task
    <3>4. Waits(x)'
      <4> SUFFICES ASSUME job[x].pc \in {"claim", "escalate"}, folder[Task(x)] = "Review"
                   PROVE  \/ claims'[Task(x)].state = "review"
                          \/ claims'[Task(x)].live /\ claims'[Task(x)].worker # x
        BY <1>3, <3>1 DEF Waits, Task
      <4>1. Task(x) \in Tasks
        BY <1>1, Asking
      <4>2. QED
        BY <1>5, <1>6, <1>7, <4>1 DEF Standing, Waits
    <3>5. QED
      BY <3>2, <3>3, <3>4
  <2>3. QED
    BY <2>1, <2>2
<1>12. QED
  BY <1>10, <1>11 DEF Standing
LEMMA ObserveStands ==
    ASSUME TInv, Standing, NEW w \in Workers, NEW s \in Slots, Observe(w, s)
    PROVE  Standing'
<1>1. PICK t \in Eligible(s) :
           job' = [job EXCEPT ![w] =
                [Idle EXCEPT !.pc = "preflight", !.task = t, !.owner = needsOwner[t],
                             !.working = (folder[t] = "In Progress"),
                             !.certifiers = {c \in CertifierOf[t] :
                                                folder[c] \notin {"In Progress", "Review"}}]]
  BY DEF Observe
<1> DEFINE j == [Idle EXCEPT !.pc = "preflight", !.task = t, !.owner = needsOwner[t],
                             !.working = (folder[t] = "In Progress"),
                             !.certifiers = {c \in CertifierOf[t] :
                                                folder[c] \notin {"In Progress", "Review"}}]
<1>2. job' = [job EXCEPT ![w] = j] /\ j.pc = "preflight"
  BY <1>1 DEF Idle
<1> HIDE DEF j
<1>3. Onward(job[w], j)
  BY <1>2 DEF Onward, Holding, Keeping
<1>4. SameClaims
  BY DEF Observe, SameClaims, Cleaned, TInv, AweTypeOK, Claims
<1>5. folder' = folder
  BY DEF Observe, exchangeVars
<1>6. QED
  BY <1>2, <1>3, <1>4, <1>5, Proceeds

LEMMA ExpireStands ==
    ASSUME TInv, Standing, NEW t \in Tasks, Expire(t), ~stalled'
    PROVE  Standing'
<1>1. claims \in [Tasks -> Claims] /\ job \in [Workers -> Job]
  BY DEF TInv, AweTypeOK, JobsOK
<1>2. folder' = folder /\ \A w \in Workers : Task(w) # t
  BY DEF Expire, exchangeVars
<1>3. /\ \A u \in Tasks \ {t} : claims'[u] = claims[u]
      /\ ~claims'[t].live
  BY <1>1 DEF Expire, Claims
<1>4. ASSUME NEW w \in Workers
      PROVE  /\ job'[w].pc = job[w].pc /\ job'[w].goal = job[w].goal
             /\ job'[w].task = job[w].task /\ job'[w].token = job[w].token
  <2>1. job'[w] = job[w] \/ job'[w] = [job[w] EXCEPT !.late = @ \cup {t}]
    BY DEF Expire
  <2>2. QED
    BY <1>1, <2>1 DEF Job
<1>5. LiveOpen'
  BY <1>3 DEF Standing, LiveOpen
<1>6. ASSUME NEW w \in Workers PROVE Owns(w)' /\ Aims(w)' /\ Waits(w)'
  <2>1. Holding(job'[w]) <=> Holding(job[w])
    BY <1>4 DEF Holding
  <2>2. Holding(job[w]) \/ job[w].pc \in {"claim", "escalate"} => Task(w) \in Tasks \ {t}
    BY <1>2, Asking
  <2>3. Owns(w)'
    BY <1>3, <1>4, <2>1, <2>2 DEF Standing, Owns, Task
  <2>4. Aims(w)'
    BY <1>2, <1>4, <2>1 DEF Standing, Aims, Task
  <2>5. Waits(w)'
    BY <1>2, <1>3, <1>4, <2>2 DEF Standing, Waits, Task
  <2>6. QED
    BY <2>3, <2>4, <2>5
<1>7. QED
  BY <1>5, <1>6 DEF Standing

LEMMA OthersStand ==
    ASSUME TInv, Standing, NEW t \in Tasks, Others(t)
    PROVE  Standing'
<1>1. claims' = claims /\ job' = job
  BY DEF Others, Agent, Certify, Assign, KeepForOwner, record_certification, ledgerVars
<1>2. \A u \in Tasks : folder'[u] = "Review" => folder[u] = "Review"
  BY DEF Others, Agent, Certify, Assign, KeepForOwner, exchangeVars, TInv, AweTypeOK
<1>3. LiveOpen'
  BY <1>1 DEF Standing, LiveOpen
<1>4. ASSUME NEW w \in Workers PROVE Owns(w)' /\ Aims(w)' /\ Waits(w)'
  <2>1. Holding(job[w]) \/ job[w].pc \in {"claim", "escalate"} => Task(w) \in Tasks
    BY Asking
  <2>2. QED
    BY <1>1, <1>2, <2>1 DEF Standing, Owns, Aims, Waits, Task
<1>5. QED
  BY <1>3, <1>4 DEF Standing

LEMMA VInvInit == Init => VInv
<1> SUFFICES ASSUME Init PROVE VInv
  OBVIOUS
<1>1. LiveOpen
  BY DEF Init, InitLedger, NoClaim, LiveOpen
<1>2. \A w \in Workers : job[w].pc = "idle"
  BY DEF Init, Idle
<1>3. \A w \in Workers : Owns(w) /\ Aims(w) /\ Waits(w)
  BY <1>2 DEF Owns, Aims, Waits, Holding, Keeping
<1>4. QED
  BY <1>1, <1>3, IInvInit DEF VInv, Standing

\* A stall is never taken back.
LEMMA StallLasts == [Next]_vars /\ stalled => stalled'
<1> SUFFICES ASSUME [Next]_vars, stalled PROVE stalled'
  OBVIOUS
<1>1. CASE Next
  <2>1. ASSUME NEW w \in Workers, (\E s \in Slots : Observe(w, s)) \/ Cycle(w) \/ Crash(w)
        PROVE  stalled'
    BY <2>1
    DEF Observe, Cycle, Crash, Claim, Escalate, BlockForOwner, Abandon, CloseClaim, Preflight,
        CheckSource, Wake, Detect, ReadGate, Decide, Move, Project, Erase, Append,
        QueueCertifier, WriteFails, NoFault, Fault
  <2>2. ASSUME NEW t \in Tasks, Expire(t) \/ Others(t) PROVE stalled'
    BY <2>2 DEF Expire, Others, Agent, Certify, Assign, KeepForOwner, NoFault
  <2>3. QED
    BY <1>1, <2>1, <2>2 DEF Next
<1>2. QED
  BY <1>1 DEF vars

LEMMA StandingStep ==
    ASSUME IInv, Standing, ~stalled, ~stalled', [Next]_vars
    PROVE  Standing'
<1>1. TInv
  BY DEF IInv
<1>2. CASE Next
  BY <1>1, <1>2, Steps, ObserveStands, ClaimStands, SettleStands, LocalStands, WriteStands,
     ExpireStands, OthersStand
<1>3. CASE UNCHANGED vars
  BY <1>3 DEF vars, ledgerVars, exchangeVars, Standing, LiveOpen, Owns, Aims, Waits, Task
<1>4. QED
  BY <1>2, <1>3

LEMMA VInvStep == VInv /\ [Next]_vars => VInv'
<1> SUFFICES ASSUME VInv, [Next]_vars PROVE VInv'
  OBVIOUS
<1>1. IInv'
  BY IInvStep DEF VInv
<1>2. ~stalled' => Standing'
  BY StallLasts, StandingStep DEF VInv
<1>3. QED
  BY <1>1, <1>2 DEF VInv

\* A page leaves Review for a working lane in no step of a world without stalls.
LEMMA PageStays ==
    VInv /\ [Next]_vars =>
        \A t \in Tasks : ~stalled /\ folder[t] = "Review" =>
            folder'[t] \notin {"Queue", "In Progress"}
<1> SUFFICES ASSUME VInv, [Next]_vars, NEW t \in Tasks, ~stalled, folder[t] = "Review"
             PROVE  folder'[t] \notin {"Queue", "In Progress"}
  OBVIOUS
<1>1. Standing /\ TInv /\ folder \in [Tasks -> Status]
  BY DEF VInv, IInv, TInv, AweTypeOK
<1>2. CASE folder' = folder
  BY <1>2
<1>3. ASSUME NEW w \in Workers, Move(w), Moved(w)
      PROVE  folder'[t] \notin {"Queue", "In Progress"}
  <2>1. CASE Task(w) = t
    <3>1. folder'[t] = job[w].goal
      BY <1>1, <1>3, <2>1 DEF Moved
    <3>2. job[w].goal \in {"Blocked", "Review"}
      BY <1>1, <1>3, <2>1 DEF Standing, Aims, Move, At, Holding
    <3>3. QED
      BY <3>1, <3>2
  <2>2. CASE Task(w) # t
    BY <1>1, <1>3, <2>2 DEF Moved
  <2>3. QED
    BY <2>1, <2>2
<1>4. ASSUME NEW u \in Tasks, Assign(u)
      PROVE  folder'[t] \notin {"Queue", "In Progress"}
  BY <1>1, <1>4 DEF Assign
<1>5. CASE Next
  <2>1. ASSUME NEW w \in Workers, (\E s \in Slots : Observe(w, s)) \/ Cycle(w) \/ Crash(w)
        PROVE  folder' = folder \/ (Move(w) /\ Moved(w))
    BY <2>1
    DEF Observe, Cycle, Crash, Claim, Escalate, BlockForOwner, Abandon, CloseClaim, Preflight,
        CheckSource, Wake, Detect, ReadGate, Decide, Move, Project, Erase, Append,
        QueueCertifier, exchangeVars
  <2>2. ASSUME NEW u \in Tasks, Expire(u) \/ Others(u)
        PROVE  folder' = folder \/ Assign(u)
    BY <2>2 DEF Expire, Others, Agent, Certify, KeepForOwner, exchangeVars
  <2>3. QED
    BY <1>2, <1>3, <1>4, <1>5, <2>1, <2>2 DEF Next
<1>6. QED
  BY <1>2, <1>5 DEF vars, exchangeVars

\* The page moves are unconditional, and yet no worker takes a reviewed task back to
\* work, as long as no lease ran out during a cycle on its task: whoever moves a page
\* has the task's lease (Owns), whoever has it while the page is in Review only
\* completes it (Aims), and whoever asks for it then is refused (Waits).
THEOREM ReviewedIsNotReworked == Spec => ReviewedStays
<1>1. Spec => []VInv
  BY VInvInit, VInvStep, PTL DEF Spec
<1>2. VInv /\ [Next]_vars =>
          [\A t \in Tasks : ~stalled /\ folder[t] = "Review" =>
              folder'[t] \notin {"Queue", "In Progress"}]_vars
  BY PageStays
<1>3. QED
  BY <1>1, <1>2, PTL DEF Spec, ReviewedStays

=============================================================================
