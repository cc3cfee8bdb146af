----------------------------- MODULE AweWorker -----------------------------
(***************************************************************************)
(* The cycle of awe_worker/worker.py against the Agent Work Exchange.      *)
(*                                                                         *)
(* One fact is recorded three times outside the ledger: the folder a task  *)
(* page physically sits in (the truth), its dashboard row, and the pointer *)
(* on the Dispatch page of its harness.  No call writes two of them, so a  *)
(* move is a sequence of calls, each of which may fail, and between any    *)
(* two of them another worker, an agent, a certifier or the integration    *)
(* authority may act.                                                      *)
(***************************************************************************)
EXTENDS AweLedger, Functions

CONSTANTS
    HarnessOf,    \* the harness of a slot; one Dispatch page per harness
    CertifierOf,  \* the certifier tasks that name a producer task
    Protected,    \* tasks whose text asks for an authority only the Owner has
    Kept,         \* tasks the Owner may decide to keep for himself
    MaxClaims,    \* bound: tokens issued altogether
    MaxFaults     \* bound: crashes, failed calls and stalls

Status == {"Queue", "In Progress", "Blocked", "Review"}

ASSUME WorkerAssumption ==
    /\ None \notin Status
    /\ CertifierOf \in [Tasks -> SUBSET Tasks]
    /\ Protected \subseteq Tasks /\ Kept \subseteq Tasks
    /\ MaxClaims \in Nat /\ MaxFaults \in Nat

VARIABLES
    folder,      \* the lane folder a task page is in
    board,       \* dashboard: Status
    current,     \* dashboard: Current
    needsOwner,  \* dashboard: Needs Owner
    note,        \* dashboard: the worker its Notes say it is claimed by
    pointer,     \* per slot, the EXECUTABLE pointer of its Dispatch page
    head,        \* the last commit of the task's branch
    job,         \* what each worker is doing
    faults,      \* crashes and failed calls so far
    stalled      \* some lease ran out during a cycle on its task

exchangeVars == <<folder, board, current, needsOwner, note, pointer>>
vars == <<ledgerVars, exchangeVars, head, job, faults, stalled>>

NoPointer == [task |-> None, lifecycle |-> "none"]

PC == {"idle", "preflight", "escalate", "owner", "claim", "source", "move", "board", "erase",
       "append", "abandon", "wake", "detect", "gate", "certifiers", "close"}

\* The locals of run_cycle: the task as observed (owner: Needs Owner; working: it
\* was in progress, or this worker's claim was resumed; certifiers: those to be put
\* back to Queue), the leases that ran out since the cycle began, the token, the observed
\* head, and the lane the page is to be moved to (None: the gate is pending).
Job == [pc : PC, task : Tasks \cup {None}, owner : BOOLEAN, working : BOOLEAN,
        late : SUBSET Tasks, certifiers : SUBSET Tasks, token : Nat, head : 0..MaxHead,
        goal : Status \cup {None}]

Idle == [pc |-> "idle", task |-> None, owner |-> FALSE, working |-> FALSE, late |-> {},
         certifiers |-> {}, token |-> 0, head |-> 0, goal |-> None]

Init ==
    /\ InitLedger
    /\ folder = [t \in Tasks |-> "Queue"]
    /\ board = [t \in Tasks |-> "Queue"]
    /\ current = [t \in Tasks |-> FALSE]
    /\ needsOwner = [t \in Tasks |-> FALSE]
    /\ note = [t \in Tasks |-> None]
    /\ pointer = [s \in Slots |-> NoPointer]
    /\ head = [t \in Tasks |-> 0]
    /\ job = [w \in Workers |-> Idle]
    /\ faults = 0
    /\ stalled = FALSE

At(w, pc) == job[w].pc = pc
Task(w) == job[w].task
Goto(w, pc) == job' = [job EXCEPT ![w].pc = pc]
Return(w) == job' = [job EXCEPT ![w] = Idle]
NoFault == UNCHANGED <<faults, stalled>>
Fault == faults < MaxFaults /\ faults' = faults + 1 /\ UNCHANGED stalled

-----------------------------------------------------------------------------
(* Observation and preflight.                                               *)

Offered(s, status) == {t \in Tasks : SlotOf[t] = s /\ folder[t] = status}

\* filter_eligible: what is in progress in the slot goes before its queue, and
\* tasks kept for the Owner come last, to be escalated.
Eligible(s) ==
    LET delegable(status) == {t \in Offered(s, status) : ~needsOwner[t]}
    IN  IF delegable("In Progress") # {} THEN delegable("In Progress")
        ELSE IF delegable("Queue") # {} THEN delegable("Queue")
        ELSE Offered(s, "In Progress") \cup Offered(s, "Queue")

\* clean_expired_leases, then one look at the whole exchange.
Observe(w, s) ==
    /\ At(w, "idle")
    /\ claims' = Cleaned
    /\ \E t \in Eligible(s) :
          /\ \A u \in Eligible(s) : t <= u
          /\ job' = [job EXCEPT ![w] =
                [Idle EXCEPT !.pc = "preflight", !.task = t, !.owner = needsOwner[t],
                             !.working = (folder[t] = "In Progress"),
                             !.certifiers = {c \in CertifierOf[t] :
                                                folder[c] \notin {"In Progress", "Review"}}]]
    /\ UNCHANGED <<issued, evidence, verdicts, accepted, exchangeVars, head>>
    /\ NoFault

\* _authorized_pointer_findings: the task is the slot's only Current row, its page
\* can be claimed or resumed, and the slot's EXECUTABLE pointer says the same of it.
Authorized(t) ==
    LET s == SlotOf[t] IN
    /\ {u \in Tasks : SlotOf[u] = s /\ current[u]} = {t}
    /\ folder[t] \in {"Queue", "In Progress"}
    /\ pointer[s] = [task |-> t, lifecycle |-> folder[t]]

\* evaluate_claim_preflight, on a second look: page and row agree as well.
Agrees(t) == Authorized(t) /\ board[t] = folder[t]

\* check_escalation.
Escalates(w) == job[w].owner \/ Task(w) \in Protected

Preflight(w) ==
    /\ At(w, "preflight")
    /\ \/ Agrees(Task(w)) /\ Goto(w, IF Escalates(w) THEN "escalate" ELSE "claim")
       \/ ~Agrees(Task(w)) /\ Return(w)
    /\ UNCHANGED <<ledgerVars, exchangeVars, head>> /\ NoFault

-----------------------------------------------------------------------------
(* The claim in the ledger.                                                 *)

Tokens == FoldFunction(+, 0, issued)

Granted(w, pc, goal) ==
    LET t == Task(w) IN
    \/ /\ Resumes(t, w, job[w].late)
       /\ ResumeRows(t)
       /\ job' = [job EXCEPT ![w].pc = pc, ![w].goal = goal, ![w].late = {},
                             ![w].token = claims[t].token, ![w].working = TRUE]
    \/ /\ Free(t, job[w].late) /\ Tokens < MaxClaims
       /\ GrantRows(t, w)
       /\ job' = [job EXCEPT ![w].pc = pc, ![w].goal = goal, ![w].late = {},
                             ![w].token = issued'[t]]

Refused(w) == ~Resumes(Task(w), w, job[w].late) /\ ~Free(Task(w), job[w].late)

Claim(w) ==
    /\ At(w, "claim")
    /\ \/ Granted(w, IF job[w].working THEN "wake" ELSE "source", "In Progress")
       \/ Refused(w) /\ Return(w) /\ UNCHANGED ledgerVars
    /\ UNCHANGED <<exchangeVars, head>> /\ NoFault

\* A protected task is claimed only to be blocked, and its page is moved to
\* Blocked even when the claim was refused.
Escalate(w) ==
    /\ At(w, "escalate")
    /\ \/ Granted(w, "owner", "Blocked")
       \/ /\ Refused(w)
          /\ job' = [job EXCEPT ![w].pc = "move", ![w].goal = "Blocked", ![w].late = {}]
          /\ UNCHANGED ledgerVars
    /\ UNCHANGED <<exchangeVars, head>> /\ NoFault

BlockForOwner(w) ==
    /\ At(w, "owner")
    /\ Close(Task(w), job[w].token, "blocked", 0)
    /\ Goto(w, "move")
    /\ UNCHANGED <<exchangeVars, head>> /\ NoFault

-----------------------------------------------------------------------------
(* The source of record: claim_task, complete_task, block_task and           *)
(* route_rework are the same three writes towards four goals.               *)

\* Where the cycle goes when the writes are through, or one of them failed.
AfterWrites(w, ok) ==
    CASE job[w].goal = "In Progress" -> IF ok THEN "wake" ELSE "abandon"
      [] job[w].goal = "Blocked"     -> "idle"
      [] OTHER                       -> "close"

Leave(w, pc) == IF pc = "idle" THEN Return(w) ELSE Goto(w, pc)

WriteFails(w) == Leave(w, AfterWrites(w, FALSE)) /\ Fault

\* claim_task checks page and row before it writes; a retry of the same worker
\* may find its own note on the row.
CheckSource(w) ==
    LET t == Task(w) IN
    /\ At(w, "source")
    /\ \/ /\ folder[t] \in {"Queue", "In Progress"}
          /\ board[t] = "Queue" \/ (board[t] = "In Progress" /\ note[t] = w)
          /\ Goto(w, "move") /\ NoFault
       \/ /\ \/ folder[t] \notin {"Queue", "In Progress"}
             \/ board[t] # "Queue" /\ ~(board[t] = "In Progress" /\ note[t] = w)
          /\ Goto(w, "abandon") /\ NoFault
       \/ Goto(w, "abandon") /\ Fault
    /\ UNCHANGED <<ledgerVars, exchangeVars, head>>

\* move_page is unconditional: it takes the page from wherever it is.
Moved(w) == folder' = [folder EXCEPT ![Task(w)] = job[w].goal]

Move(w) ==
    /\ At(w, "move")
    /\ \/ Moved(w) /\ Goto(w, "board") /\ NoFault
       \/ (Moved(w) \/ UNCHANGED folder) /\ WriteFails(w)
    /\ UNCHANGED <<ledgerVars, board, current, needsOwner, note, pointer, head>>

\* The dashboard row: what each of the four goals writes on it.
Projected(w) ==
    LET t == Task(w)
        goal == job[w].goal
    IN  /\ board' = [board EXCEPT ![t] = goal]
        /\ current' = [current EXCEPT ![t] = @ \/ goal = "In Progress"]
        /\ needsOwner' = [needsOwner EXCEPT ![t] = @ \/ goal = "Blocked"]
        /\ note' = [note EXCEPT ![t] = IF goal = "In Progress" THEN w ELSE None]

Project(w) ==
    /\ At(w, "board")
    /\ \/ Projected(w) /\ Goto(w, "erase") /\ NoFault
       \/ /\ Projected(w) \/ UNCHANGED <<board, current, needsOwner, note>>
          /\ WriteFails(w)
    /\ UNCHANGED <<ledgerVars, folder, pointer, head>>

\* The slots whose pointers are blocks of the same Dispatch page.
Page(s) == {x \in Slots : HarnessOf[x] = HarnessOf[s]}

Erased(S) == [s \in Slots |-> IF s \in S THEN NoPointer ELSE pointer[s]]

\* write_pointer deletes every pointer block of the harness page; a failure
\* leaves some of them deleted.
Erase(w) ==
    LET page == Page(SlotOf[Task(w)]) IN
    /\ At(w, "erase")
    /\ \/ pointer' = Erased(page) /\ Goto(w, "append") /\ NoFault
       \/ (\E S \in SUBSET page : pointer' = Erased(S)) /\ WriteFails(w)
    /\ UNCHANGED <<ledgerVars, folder, board, current, needsOwner, note, head>>

\* NO_EXECUTABLE_TASK grants what a missing pointer grants: nothing.
Pointed(w) ==
    pointer' = [pointer EXCEPT ![SlotOf[Task(w)]] =
                    IF job[w].goal \in {"Queue", "In Progress"}
                    THEN [task |-> Task(w), lifecycle |-> job[w].goal]
                    ELSE NoPointer]

Append(w) ==
    /\ At(w, "append")
    /\ \/ Pointed(w) /\ Leave(w, AfterWrites(w, TRUE)) /\ NoFault
       \/ (Pointed(w) \/ UNCHANGED pointer) /\ WriteFails(w)
    /\ UNCHANGED <<ledgerVars, folder, board, current, needsOwner, note, head>>

\* A refused source of record rolls the local claim back to blocked.
Abandon(w) ==
    /\ At(w, "abandon")
    /\ Close(Task(w), job[w].token, "blocked", 0)
    /\ Return(w)
    /\ UNCHANGED <<exchangeVars, head>> /\ NoFault

-----------------------------------------------------------------------------
(* Waking the harness, and the certification cadence.                        *)

\* The agent process is started and not waited for; whether the wake succeeded
\* changes nothing but the receipt.
Wake(w) ==
    /\ At(w, "wake")
    /\ IF job[w].working THEN Goto(w, "detect") ELSE Return(w)
    /\ UNCHANGED <<ledgerVars, exchangeVars, head>> /\ NoFault

\* detect_state: a branch with commits is DONE once the task carries a verdict or
\* a pull request is found, which is left open; the head is read once.  The frozen
\* head that is recorded next is read by nobody else and left out.
Detect(w) ==
    LET t == Task(w) IN
    /\ At(w, "detect")
    /\ \/ head[t] > 0 /\ job' = [job EXCEPT ![w].pc = "gate", ![w].head = head[t]]
       \/ Return(w)
    /\ UNCHANGED <<ledgerVars, exchangeVars, head>> /\ NoFault

\* The certifications are read once; cadence and worker decide alike on them.
ReadGate(w) ==
    LET gate == Gate(Task(w), job[w].head) IN
    /\ At(w, "gate")
    /\ job' = [job EXCEPT ![w].pc = "certifiers",
                          ![w].goal = CASE gate = "accept" -> "Review"
                                        [] gate = "reject" -> "Queue"
                                        [] OTHER           -> None]
    /\ UNCHANGED <<ledgerVars, exchangeVars, head>> /\ NoFault

\* Certifier tasks that are neither running nor reviewed have their row set to
\* Queue; their pages are not moved.  A failed call is not caught.
QueueCertifier(w) ==
    /\ At(w, "certifiers")
    /\ \E c \in job[w].certifiers :
          /\ \/ board' = [board EXCEPT ![c] = "Queue"] /\ note' = [note EXCEPT ![c] = None]
                /\ job' = [job EXCEPT ![w].certifiers = @ \ {c}] /\ NoFault
             \/ UNCHANGED <<board, note>> /\ Return(w) /\ Fault
    /\ UNCHANGED <<ledgerVars, folder, current, needsOwner, pointer, head>>

\* An open gate moves the page; a pending one ends the cycle.
Decide(w) ==
    /\ At(w, "certifiers") /\ job[w].certifiers = {}
    /\ IF job[w].goal = None THEN Return(w) ELSE Goto(w, "move")
    /\ UNCHANGED <<ledgerVars, exchangeVars, head>> /\ NoFault

\* complete or block, whatever became of the writes before it.
CloseClaim(w) ==
    /\ At(w, "close")
    /\ Close(Task(w), job[w].token, IF job[w].goal = "Review" THEN "review" ELSE "blocked",
             job[w].head)
    /\ Return(w)
    /\ UNCHANGED <<exchangeVars, head>> /\ NoFault

\* run_cycle after its observation.
Cycle(w) ==
    \/ Preflight(w) \/ Claim(w) \/ Escalate(w) \/ BlockForOwner(w)
    \/ CheckSource(w) \/ Move(w) \/ Project(w) \/ Erase(w) \/ Append(w) \/ Abandon(w)
    \/ Wake(w) \/ Detect(w) \/ ReadGate(w) \/ QueueCertifier(w) \/ Decide(w)
    \/ CloseClaim(w)

-----------------------------------------------------------------------------
(* Everybody else.                                                          *)

Unclaimed == {"preflight", "escalate", "claim"}
Uses(w, t) == Task(w) = t /\ job[w].token = claims[t].token

\* A lease runs out.  That it does so under the cycle that holds it (120 seconds
\* of calls) counts as a fault; between two cycles any time may pass.
Expire(t) ==
    /\ claims[t].live
    /\ claims' = [claims EXCEPT ![t].live = FALSE]
    /\ IF \E w \in Workers : Uses(w, t)
       THEN faults < MaxFaults /\ faults' = faults + 1
       ELSE UNCHANGED faults
    /\ stalled' = (stalled \/ \E w \in Workers : Task(w) = t)
    /\ job' = [w \in Workers |->
                 IF job[w].pc \in Unclaimed THEN [job[w] EXCEPT !.late = @ \cup {t}] ELSE job[w]]
    /\ UNCHANGED <<issued, evidence, verdicts, accepted, exchangeVars, head>>

\* The process dies, or an exception nobody catches leaves run_cycle.
Crash(w) ==
    /\ ~At(w, "idle") /\ Fault /\ Return(w)
    /\ UNCHANGED <<ledgerVars, exchangeVars, head>>

\* The agent commits on the branch of a task it was woken for.
Agent(t) ==
    /\ folder[t] = "In Progress"
    /\ head[t] < MaxHead /\ head' = [head EXCEPT ![t] = @ + 1]
    /\ UNCHANGED <<ledgerVars, exchangeVars, job>> /\ NoFault

\* A certifier records a verdict on a head it looked at.
Certify(t) ==
    /\ \E h \in 1..head[t], r \in Roles, v \in {"accept", "reject"} :
          verdicts[t][h][r] # v /\ record_certification(t, h, r, v)
    /\ UNCHANGED <<exchangeVars, head, job>> /\ NoFault

\* The authority makes a task the executable one of its slot.
Assign(t) ==
    LET s == SlotOf[t] IN
    /\ folder[t] \in {"Queue", "Blocked"}
    /\ pointer[s] = NoPointer
    /\ folder' = [folder EXCEPT ![t] = "Queue"]
    /\ board' = [board EXCEPT ![t] = "Queue"]
    /\ current' = [u \in Tasks |-> IF SlotOf[u] = s THEN u = t ELSE current[u]]
    /\ needsOwner' = [needsOwner EXCEPT ![t] = FALSE]
    /\ note' = [note EXCEPT ![t] = None]
    /\ pointer' = [pointer EXCEPT ![s] = [task |-> t, lifecycle |-> "Queue"]]
    /\ UNCHANGED <<ledgerVars, head, job>> /\ NoFault

\* The Owner keeps a task for himself.
KeepForOwner(t) ==
    /\ t \in Kept /\ ~needsOwner[t] /\ folder[t] \in {"Queue", "In Progress"}
    /\ needsOwner' = [needsOwner EXCEPT ![t] = TRUE]
    /\ UNCHANGED <<ledgerVars, folder, board, current, note, pointer, head, job>> /\ NoFault

Others(t) == Agent(t) \/ Certify(t) \/ Assign(t) \/ KeepForOwner(t)

Next ==
    \/ \E w \in Workers : (\E s \in Slots : Observe(w, s)) \/ Cycle(w) \/ Crash(w)
    \/ \E t \in Tasks : Expire(t) \/ Others(t)

Spec == Init /\ [][Next]_vars

=============================================================================
