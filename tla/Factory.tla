------------------------------ MODULE Factory ------------------------------
(***************************************************************************)
(* The Factory's lifecycle (factory.py) over the shift authority, the      *)
(* control state, the service loader and the shift runtime's drain.        *)
(*                                                                         *)
(* "start", "stop", "run" and the shift commands are processes the Owner   *)
(* starts; "cycle" is what the loaded service runs, one at a time.  Each   *)
(* step below is one transaction, one call of the service loader or one    *)
(* work_once; any process may die between two of them.                     *)
(***************************************************************************)
EXTENDS Shift

CONSTANTS Owners,         \* processes of the Owner
          Service,        \* the process of the service
          DrainSteps,     \* max_steps of a drain
          PerCycle,       \* missions_per_cycle
          MaxMoves,       \* bound: commands of the Owner
          MaxFaults       \* bound: deaths

VARIABLES control,        \* supervisor_control.state
          loaded,         \* the service is loaded
          proc,           \* what each process holds in memory
          moves, faults

vars == <<grants, granted, attempts, control, loaded, proc, moves, faults>>

ASSUME FactoryAssumption ==
    /\ Service \notin Owners
    /\ {DrainSteps, PerCycle, MaxMoves, MaxFaults} \subseteq Nat

Procs == Owners \union {Service}
ControlStates == {"stopped", "running", "paused", "draining", "emergency_stopped"}

Points == {"away", "drain", "recover", "resume", "snapshot", "settle", "verify", "unload",
           "reference", "check", "insert", "boot", "turn", "confirm", "undo", "revoke",
           "park", "reload", "queue", "submit", "supervise", "work", "working"}

Away == [at |-> "away", verb |-> None, ref |-> None, created |-> FALSE, mode |-> None,
         slot |-> 0, attempt |-> 0, left |-> 0]

Init ==
    /\ InitShift
    /\ control = "stopped"
    /\ loaded = FALSE
    /\ proc = [p \in Procs |-> Away]
    /\ moves = 0
    /\ faults = 0

At(p, point) == proc[p].at = point
Goes(p, point) == proc' = [proc EXCEPT ![p].at = point]
Leaves(p) == proc' = [proc EXCEPT ![p] = Away]
Begins(p, verb, point, ref) ==
    /\ At(p, "away")
    /\ proc' = [proc EXCEPT ![p] = [Away EXCEPT !.at = point, !.verb = verb, !.ref = ref]]

(* One more command of the Owner.                                          *)
Commanded == moves < MaxMoves /\ moves' = moves + 1

-----------------------------------------------------------------------------
(* drain (shift_runtime.py): for "stop", and for "start" to recover.       *)

Enter(p) ==
    /\ At(p, "drain")
    /\ control' = IF control \in {"running", "paused"} THEN "draining" ELSE control
    /\ proc' = [proc EXCEPT ![p].at = "recover", ![p].left = DrainSteps]
    /\ UNCHANGED <<shiftVars, loaded, moves, faults>>

Orphans == {x \in (1..Slots) \X (1..MaxAttempts) :
              x[2] <= Len(attempts[x[1]]) /\ attempts[x[1]][x[2]].lease = "orphaned"}

Freed(stale) == [s \in 1..Slots |-> [i \in DOMAIN attempts[s] |->
                   IF <<s, i>> \in stale THEN [attempts[s][i] EXCEPT !.lease = "free"]
                   ELSE attempts[s][i]]]

(* recover: leases of the dead that have run out by now.                   *)
Recover(p) ==
    /\ At(p, "recover")
    /\ \E stale \in SUBSET Orphans : attempts' = Freed(stale)
    /\ Goes(p, IF p = Service THEN "work" ELSE "resume")
    /\ UNCHANGED <<grants, granted, control, loaded, moves, faults>>

(* work_once claims a mission: what may have run before anything new.      *)
Offered(fresh) ==
    LET free == {x \in (1..Slots) \X (1..MaxAttempts) :
                   x[2] <= Len(attempts[x[1]]) /\ attempts[x[1]][x[2]].lease = "free"}
        Of(state) == {x \in free : attempts[x[1]][x[2]].state = state}
    IN IF Of("past") # {} THEN Of("past") ELSE IF fresh THEN Of("admitted") ELSE {}

Claim(p, fresh) ==
    /\ proc[p].left > 0
    /\ \E x \in Offered(fresh) :
         /\ attempts' = [attempts EXCEPT ![x[1]][x[2]].lease = "held"]
         /\ proc' = [proc EXCEPT ![p].at = "working", ![p].left = @ - 1,
                                 ![p].slot = x[1], ![p].attempt = x[2]]
    /\ UNCHANGED <<grants, granted, control, loaded, moves, faults>>

Resumes(p) == At(p, "resume") /\ Claim(p, FALSE)

EndResume(p) ==
    /\ At(p, "resume")
    /\ proc[p].left = 0 \/ Offered(FALSE) = {}
    /\ proc' = [proc EXCEPT ![p].at = "snapshot", ![p].left = 0]
    /\ UNCHANGED <<shiftVars, control, loaded, moves, faults>>

Work(p) == attempts[proc[p].slot][proc[p].attempt]
Leave(p, state) ==
    attempts' = [attempts EXCEPT ![proc[p].slot][proc[p].attempt] =
                   [state |-> state, lease |-> "free"]]

(* The mission reaches its provider.                                       *)
Cross(p) ==
    /\ At(p, "working") /\ Work(p).state = "admitted"
    /\ attempts' = [attempts EXCEPT ![proc[p].slot][proc[p].attempt].state = "past"]
    /\ UNCHANGED <<grants, granted, control, loaded, proc, moves, faults>>

Returns(p) ==
    /\ At(p, "working")
    /\ \/ Work(p).state = "admitted" /\ \E s \in {"failed", "unserved"} : Leave(p, s)
       \/ Work(p).state = "past" /\ \E s \in {"completed", "failed", "past"} : Leave(p, s)
    /\ proc' = [proc EXCEPT ![p].at = IF p = Service THEN "work" ELSE "resume",
                            ![p].slot = 0, ![p].attempt = 0]
    /\ UNCHANGED <<grants, granted, control, loaded, moves, faults>>

(* _recovery_class.  A claim moves a mission to "dispatching" as it leases *)
(* it; "post_dispatch_recovery" stands for "uncertain_dispatch" as well.   *)
RecoveryClass(mission) ==
    CASE mission.state \in SettledStates -> "terminal"
      [] mission.state \notin SettledStates /\ mission.lease # "free" -> "in_flight"
      [] mission.state = "past" /\ mission.lease = "free" -> "post_dispatch_recovery"
      [] OTHER -> "pending"

(* _checkpoint_from_store, of every mission: what it reads of the steps,   *)
(* the legs and the receipts says whether the provider may have been       *)
(* reached, and the class says the rest.                                   *)
Checkpoints == {RecoveryClass(attempts[x[1]][x[2]]) :
                  x \in {y \in (1..Slots) \X (1..MaxAttempts) :
                           y[2] <= Len(attempts[y[1]])}}

Outstanding == Checkpoints \intersect {"in_flight", "post_dispatch_recovery"} # {}

Snapshot(p) ==
    /\ At(p, "snapshot")
    /\ proc' = [proc EXCEPT ![p].at = "settle",
                            ![p].mode = IF Outstanding THEN "busy" ELSE "quiet"]
    /\ UNCHANGED <<shiftVars, control, loaded, moves, faults>>

(* The control state is read again, the missions are not.                  *)
Settle(p) ==
    /\ At(p, "settle")
    /\ control' = IF proc[p].mode = "quiet" /\ control = "draining" THEN "stopped"
                  ELSE control
    /\ IF proc[p].verb = "stop" \/ control' = "stopped"
       THEN proc' = [proc EXCEPT ![p].mode = None,
                       ![p].at = IF proc[p].verb = "stop" THEN "verify" ELSE "reference"]
       ELSE Leaves(p)
    /\ UNCHANGED <<shiftVars, loaded, moves, faults>>

-----------------------------------------------------------------------------
(* start.                                                                  *)

Start(p) ==
    /\ control # "emergency_stopped"
    /\ Commanded
    /\ Begins(p, "start",
              IF control \in {"paused", "draining"} THEN "drain" ELSE "reference", None)
    /\ UNCHANGED <<shiftVars, control, loaded, faults>>

(* _next_shift_reference: the live one, or the next number.                *)
TakeReference(p) ==
    LET ref == IF LiveGrant = None THEN NextReference ELSE LiveGrant
    IN /\ At(p, "reference")
       /\ IF ref \in FactoryRefs
          THEN proc' = [proc EXCEPT ![p].at = "check", ![p].ref = ref]
          ELSE Leaves(p)
       /\ UNCHANGED <<shiftVars, control, loaded, moves, faults>>

(* The Owner's own "shift apply", under a name of his.                     *)
Apply(p, r) ==
    /\ r \in OtherRefs
    /\ Commanded /\ Begins(p, "apply", "check", r)
    /\ UNCHANGED <<shiftVars, control, loaded, faults>>

(* gate: a start and an apply ask it first, and one unmet condition refuses *)
(* either, whatever grant there is; the conditions themselves are open.    *)
GateUnmet(p) ==
    /\ At(p, "check")
    /\ Leaves(p)
    /\ UNCHANGED <<shiftVars, control, loaded, moves, faults>>

(* apply, what it reads once the gate is met.                              *)
CheckGrant(p) ==
    LET r == proc[p].ref
    IN /\ At(p, "check")
       /\ IF Live(r) /\ proc[p].verb = "start" THEN Goes(p, "boot")
          ELSE IF grants[r].known \/ LiveGrant # None THEN Leaves(p)
          ELSE Goes(p, "insert")
       /\ UNCHANGED <<shiftVars, control, loaded, moves, faults>>

InsertGrant(p) ==
    LET r == proc[p].ref
    IN /\ At(p, "insert") /\ ~grants[r].known
       /\ grants' = Granted(r)
       /\ granted' = Append(granted, r)
       /\ IF proc[p].verb = "apply" THEN Leaves(p)
          ELSE proc' = [proc EXCEPT ![p].at = "boot", ![p].created = TRUE]
       /\ UNCHANGED <<attempts, control, loaded, moves, faults>>

(* IntegrityError: nothing is undone, for nothing was done.                *)
KeyTaken(p) ==
    /\ At(p, "insert") /\ grants[proc[p].ref].known
    /\ Leaves(p)
    /\ UNCHANGED <<shiftVars, control, loaded, moves, faults>>

Boot(p) ==
    /\ At(p, "boot")
    /\ loaded' = TRUE
    /\ Goes(p, IF control = "emergency_stopped" THEN "undo"
               ELSE IF control = "running" THEN "confirm" ELSE "turn")
    /\ UNCHANGED <<shiftVars, control, moves, faults>>

Turn(p) ==
    /\ At(p, "turn")
    /\ IF control = "emergency_stopped" THEN Goes(p, "undo") /\ UNCHANGED control
       ELSE Goes(p, "confirm") /\ control' = "running"
    /\ UNCHANGED <<shiftVars, loaded, moves, faults>>

Confirm(p) ==
    /\ At(p, "confirm")
    /\ IF loaded THEN Leaves(p) ELSE Goes(p, "undo")
    /\ UNCHANGED <<shiftVars, control, loaded, moves, faults>>

Undo(p) ==
    /\ At(p, "undo")
    /\ grants' = IF proc[p].created THEN Revoked(proc[p].ref) ELSE grants
    /\ proc' = [proc EXCEPT ![p] = [Away EXCEPT !.at = "unload"]]
    /\ UNCHANGED <<granted, attempts, control, loaded, moves, faults>>

-----------------------------------------------------------------------------
(* stop.                                                                   *)

Stop(p) ==
    /\ LiveGrant \notin OtherRefs
    /\ Commanded /\ Begins(p, "stop", IF LiveGrant = None THEN "drain" ELSE "revoke", LiveGrant)
    /\ UNCHANGED <<shiftVars, control, loaded, faults>>

Revoke(p) ==
    /\ At(p, "revoke")
    /\ grants' = Revoked(proc[p].ref)
    /\ IF proc[p].verb = "stop"
       THEN proc' = [proc EXCEPT ![p].at = "drain", ![p].ref = None] ELSE Leaves(p)
    /\ UNCHANGED <<granted, attempts, control, loaded, moves, faults>>

Verify(p) ==
    /\ At(p, "verify")
    /\ IF Outstanding \/ control # "stopped" THEN Leaves(p)
       ELSE proc' = [proc EXCEPT ![p] = [Away EXCEPT !.at = "unload"]]
    /\ UNCHANGED <<shiftVars, control, loaded, moves, faults>>

(* Who dies leaves a mission behind under a lease nobody renews.           *)
Orphaned(p) ==
    IF At(p, "working")
    THEN [attempts EXCEPT ![proc[p].slot][proc[p].attempt].lease = "orphaned"]
    ELSE attempts

(* bootout ends the process the service is running.                        *)
Unload(p) ==
    /\ At(p, "unload")
    /\ loaded' = FALSE
    /\ attempts' = IF loaded THEN Orphaned(Service) ELSE attempts
    /\ proc' = [proc EXCEPT ![p] = Away, ![Service] = IF loaded THEN Away ELSE @]
    /\ UNCHANGED <<grants, granted, control, moves, faults>>

-----------------------------------------------------------------------------
(* run, and the cycle of the service.                                      *)

Ready == LiveGrant # None /\ control = "running" /\ loaded

Run(p) ==
    /\ Ready
    /\ Commanded /\ Begins(p, "run", "reload", LiveGrant)
    /\ UNCHANGED <<shiftVars, control, loaded, faults>>

(* _bootstrap_service: a service unloaded since is loaded again.           *)
Reload(p) ==
    /\ At(p, "reload")
    /\ loaded' = TRUE
    /\ Goes(p, "queue")
    /\ UNCHANGED <<shiftVars, control, moves, faults>>

Cycle ==
    /\ Ready
    /\ Begins(Service, "cycle", "queue", LiveGrant)
    /\ UNCHANGED <<shiftVars, control, loaded, moves, faults>>

(* _first_autopilot_attention.                                             *)
Attention ==
    \E s \in 1..Slots :
        /\ Settled(s) /\ Reading(s).state \in UNSUCCESSFUL /\ ~Retryable(s)
        /\ \A t \in 1..(s - 1) : Tried(t) /\ ~Retryable(t)

(* Where a process goes that has queued, or found nothing to queue; "mode" *)
(* tells the first handoff of a cycle from the one behind its work.        *)
Queued(p) == IF p = Service /\ proc[p].mode = None
             THEN proc' = [proc EXCEPT ![p].at = "supervise", ![p].slot = 0, ![p].attempt = 0]
             ELSE Leaves(p)

(* _queue_next, what it reads.                                             *)
Queue(p) ==
    LET s == NextMission
        held == p = Service /\ Attention
    IN /\ At(p, "queue")
       /\ IF held THEN IF proc[p].mode = None
                       THEN proc' = [proc EXCEPT ![p].at = "supervise", ![p].mode = "held"]
                       ELSE Leaves(p)
          ELSE IF s = 0 THEN Leaves(p)
          ELSE IF Tried(s) /\ ~Retryable(s) THEN Queued(p)
          ELSE proc' = [proc EXCEPT ![p].at = "submit", ![p].slot = s,
                                    ![p].attempt = IF Retryable(s) THEN Len(attempts[s]) + 1
                                                   ELSE 1]
       /\ UNCHANGED <<shiftVars, control, loaded, moves, faults>>

Submitted(s, i) ==
    IF i <= Len(attempts[s]) THEN attempts
    ELSE [attempts EXCEPT ![s] = Append(@, [state |-> "admitted", lease |-> "free"])]

(* The payload is built inside the window of the grant that was read, or   *)
(* refused, and submitted under the key of the slot and the attempt.       *)
Submit(p) ==
    /\ At(p, "submit")
    /\ \/ Leaves(p) /\ UNCHANGED attempts
       \/ Queued(p) /\ attempts' = Submitted(proc[p].slot, proc[p].attempt)
    /\ UNCHANGED <<grants, granted, control, loaded, moves, faults>>

(* supervisor.cycle: the control state is read once, at its start.         *)
Supervise ==
    /\ At(Service, "supervise")
    /\ IF control \in {"running", "draining"}
       THEN proc' = [proc EXCEPT ![Service].at = "recover", ![Service].left = PerCycle,
                       ![Service].created = control = "running"]
       ELSE IF proc[Service].mode = "held" THEN Leaves(Service)
       ELSE proc' = [proc EXCEPT ![Service].at = "queue", ![Service].mode = "after"]
    /\ UNCHANGED <<shiftVars, control, loaded, moves, faults>>

Advance == At(Service, "work") /\ Claim(Service, proc[Service].created)

EndCycle ==
    /\ At(Service, "work")
    /\ proc[Service].left = 0 \/ Offered(proc[Service].created) = {}
    /\ IF proc[Service].mode = "held" THEN Leaves(Service)
       ELSE proc' = [proc EXCEPT ![Service].at = "queue", ![Service].mode = "after",
                       ![Service].left = 0, ![Service].created = FALSE]
    /\ UNCHANGED <<shiftVars, control, loaded, moves, faults>>

-----------------------------------------------------------------------------
(* The shift commands and the supervisor's.                                *)

(* "shift revoke" of a shift the Owner named himself.                      *)
RevokeShift(p, r) ==
    /\ r \in OtherRefs /\ Live(r)
    /\ Commanded /\ Begins(p, "revoke", "revoke", r)
    /\ UNCHANGED <<shiftVars, control, loaded, faults>>

(* suspend, on the count of missions in flight its caller read.            *)
Suspend(p, r) ==
    /\ Live(r) /\ ~grants[r].suspended
    /\ InFlight = {}
    /\ Commanded /\ Begins(p, "suspend", "park", r)
    /\ UNCHANGED <<shiftVars, control, loaded, faults>>

Park(p) ==
    /\ At(p, "park")
    /\ grants' = [grants EXCEPT ![proc[p].ref].suspended = TRUE]
    /\ Leaves(p)
    /\ UNCHANGED <<granted, attempts, control, loaded, moves, faults>>

OwnerMoves ==
    /\ Commanded
    /\ \/ control = "running" /\ control' = "paused"
       \/ control \in ControlStates \ {"emergency_stopped"} /\ control' = "emergency_stopped"
       \/ control = "emergency_stopped" /\ control' = "stopped"
    /\ UNCHANGED <<shiftVars, loaded, proc, faults>>

(* A death, or a refusal on the way that does nothing else.                *)
Die(p) ==
    /\ ~At(p, "away")
    /\ faults < MaxFaults /\ faults' = faults + 1
    /\ attempts' = Orphaned(p)
    /\ Leaves(p)
    /\ UNCHANGED <<grants, granted, control, loaded, moves>>

-----------------------------------------------------------------------------
Lifecycle(p) ==
    \/ Start(p) \/ TakeReference(p) \/ GateUnmet(p) \/ CheckGrant(p)
    \/ InsertGrant(p) \/ KeyTaken(p)
    \/ Boot(p) \/ Turn(p) \/ Confirm(p) \/ Undo(p)
    \/ Stop(p) \/ Revoke(p) \/ Verify(p) \/ Unload(p)
    \/ Enter(p) \/ Resumes(p) \/ EndResume(p) \/ Snapshot(p) \/ Settle(p)

Commands(p) ==
    \/ Run(p) \/ Reload(p) \/ Park(p)
    \/ \E r \in Refs : Apply(p, r) \/ RevokeShift(p, r) \/ Suspend(p, r)

Working(p) == Recover(p) \/ Cross(p) \/ Returns(p) \/ Queue(p) \/ Submit(p)

ResumeShift(r) == Commanded /\ Resume(r) /\ UNCHANGED <<control, loaded, proc, faults>>

Next ==
    \/ \E p \in Owners : Lifecycle(p) \/ Commands(p)
    \/ \E p \in Procs : Working(p) \/ Die(p)
    \/ Cycle \/ Supervise \/ Advance \/ EndCycle
    \/ (\E r \in Refs : ResumeShift(r)) \/ OwnerMoves

Spec == Init /\ [][Next]_vars
=============================================================================
