------------------------------- MODULE Shift -------------------------------
(***************************************************************************)
(* The shift authority (shift.py): the Owner's grants, and the portfolio   *)
(* they are granted for, read from the mission table.                      *)
(*                                                                         *)
(* A portfolio is a row of slots worked strictly one after the other.  A   *)
(* slot holds its attempts, one mission each, under keys derived from the  *)
(* slot and the number of the attempt.                                     *)
(***************************************************************************)
EXTENDS Integers, Sequences, FiniteSetsExt

CONSTANTS OtherRefs,      \* request_ref of shifts the Owner names himself
          MaxShifts,      \* bound: request_ref the Factory derives
          Slots,          \* length of the portfolio
          MaxAttempts,    \* MAX_SLOT_ATTEMPTS
          Ceiling,        \* mission_ceiling
          None

VARIABLES grants,         \* shift_grants
          granted,        \* their request_ref by granted_at
          attempts        \* the missions of each slot

shiftVars == <<grants, granted, attempts>>

ASSUME ShiftAssumption ==
    /\ MaxShifts \in Nat /\ Slots \in Nat \ {0} /\ MaxAttempts \in Nat \ {0}
    /\ Ceiling \in Nat
    /\ OtherRefs \intersect Int = {}
    /\ None \notin OtherRefs /\ None \notin Int

FactoryRefs == 1..MaxShifts
Refs == FactoryRefs \union OtherRefs

Grants == [known : BOOLEAN, revoked : BOOLEAN, suspended : BOOLEAN]
NoGrant == [known |-> FALSE, revoked |-> FALSE, suspended |-> FALSE]

(* "unserved" is a mission refused because the execution layer failed to   *)
(* serve it, before anything may have run; "failed" is every other end     *)
(* without success, which is final: failed, cancelled, escalated, refused. *)
SettledStates == {"completed", "failed", "unserved"}
UNSUCCESSFUL == SettledStates \ {"completed"}
MissionStates == {"admitted", "past"} \union SettledStates
Leases == {"free", "held", "orphaned"}
Missions == [state : MissionStates, lease : Leases]

InitShift ==
    /\ grants = [r \in Refs |-> NoGrant]
    /\ granted = <<>>
    /\ attempts = [s \in 1..Slots |-> <<>>]

-----------------------------------------------------------------------------
(* Grants.                                                                 *)

Live(r) == grants[r].known /\ ~grants[r].revoked

LiveGrantUnsuspended ==
    LET live == {i \in DOMAIN granted : Live(granted[i]) /\ ~grants[granted[i]].suspended}
    IN IF live = {} THEN None ELSE granted[Max(live)]

(* grant(): the newest that is not revoked, suspended or not.              *)
LiveGrant ==
    LET live == {i \in DOMAIN granted : ~grants[granted[i]].revoked}
    IN IF live = {} THEN None ELSE granted[Max(live)]

(* _next_shift_reference, when nothing is live.                            *)
NextReference == Max({0} \union {r \in FactoryRefs : grants[r].known}) + 1

(* apply, the INSERT: request_ref is the primary key.                      *)
Granted(r) == [grants EXCEPT ![r] = [NoGrant EXCEPT !.known = TRUE]]
Revoked(r) == [grants EXCEPT ![r].revoked = TRUE]

(* resume: a suspended grant goes on.                                      *)
Resume(r) ==
    /\ Live(r) /\ grants[r].suspended
    /\ grants' = [grants EXCEPT ![r].suspended = FALSE]
    /\ UNCHANGED <<granted, attempts>>

-----------------------------------------------------------------------------
(* Slots: the latest attempt is the slot's state.                          *)

Tried(s) == attempts[s] # <<>>
Reading(s) == attempts[s][Len(attempts[s])]
Settled(s) == Tried(s) /\ Reading(s).state \in SettledStates
RetryableEver(s) == Tried(s) /\ Reading(s).state = "unserved"
Retryable(s) ==
    Tried(s) /\ Reading(s).state = "unserved" /\ Len(attempts[s]) < MaxAttempts

PendingUntried == {s \in 1..Slots : ~Tried(s) \/ Retryable(s)}

(* next_mission, 0 when every slot has settled.                            *)
Pending == {s \in 1..Slots : ~Settled(s) \/ Retryable(s)}
NextMission == IF Pending = {} THEN 0 ELSE Min(Pending)

InFlight == {s \in 1..Slots : Tried(s) /\ ~Settled(s)}

(* drain_reasons, of a grant inside its window and its budget.             *)
DrainReasons ==
    \/ Pending = {}
    \/ Cardinality({s \in 1..Slots : Tried(s)}) >= Ceiling

(* state(): of the one live grant, the gate being met.                     *)
ShiftState(control) ==
    LET r == LiveGrant
    IN IF r = None THEN "off"
       ELSE IF grants[r].suspended
            THEN IF InFlight # {} THEN "draining" ELSE "suspended"
       ELSE IF DrainReasons
            THEN IF InFlight # {} THEN "draining" ELSE "off"
       ELSE IF control # "running" THEN "preparing" ELSE "active"
=============================================================================
