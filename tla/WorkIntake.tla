----------------------------- MODULE WorkIntake -----------------------------
(***************************************************************************)
(* The work intake plane (work_source.py, work_intake.py): packets of an   *)
(* inbox are folded into a ledger of items, the lowest item is claimed,    *)
(* admitted as one mission and reconciled with what became of it.          *)
(*                                                                         *)
(* An invocation ("caller") holds in memory what it read: the packets, the *)
(* item it took, the mission state it is about to record.  Every step is   *)
(* one transaction, one look at the inbox or one work_once.  The leases of *)
(* claims and of cycles last 30 seconds, nobody renews them and one        *)
(* work_once may take longer, so they run out at any moment.               *)
(*                                                                         *)
(* Module Management adds the second kind of cycle over the same items.    *)
(***************************************************************************)
EXTENDS Naturals, Sequences, FiniteSetsExt

CONSTANTS Items,        \* work_item_id, numbered by the packet's sequence
          Opening,      \* packets an inbox may start with
          Inbox,        \* plane -> items of the inbox it is pointed at
          Callers, None,
          NameOf,       \* caller -> worker_id
          MaxCycles,    \* bound: cycles ever claimed, in each of the two tables
          MaxEdits      \* bound: edits of a packet

VARIABLES packets,      \* what the inbox says of an item
          released,     \* history: items the inbox ever left to the Factory
          items,        \* work_items
          missions,     \* missions, one for each item at most
          cycles,       \* work_intake_cycles and management_cycles
          worker,       \* what each invocation holds in memory
          edits

intakeVars == <<packets, released, items, missions, cycles, worker, edits>>

Planes == {"intake", "management"}
Packets == [ownerOnly : BOOLEAN, blocked : BOOLEAN]

ASSUME IntakeAssumption ==
    /\ Items \subseteq Nat \ {0} /\ IsFiniteSet(Items)
    /\ Opening \subseteq Packets
    /\ Inbox \in [Planes -> SUBSET Items]
    /\ None \notin Items
    /\ MaxCycles \in [Planes -> Nat] /\ MaxEdits \in Nat

ItemStates == {"absent", "queued", "claimed", "admitted", "in_progress", "done",
               "blocked", "owner_required"}
SETTLED == {"done", "owner_required"}

(* "running" is any state in flight but admitted, "ended" any of escalated, *)
(* failed, refused and cancelled.                                          *)
MissionStates == {"absent", "admitted", "running", "completed", "ended"}

NoItem == [state |-> "absent", kind |-> None, ownerOnly |-> FALSE, bound |-> FALSE,
           claimant |-> None, live |-> FALSE]

Away == [plane |-> "intake", at |-> "away", cycle |-> 0, batch |-> {}, todo |-> {},
         item |-> None, mark |-> None]

InitIntake ==
    /\ packets \in [Items -> Opening]
    /\ released = {i \in Items : ~packets[i].ownerOnly}
    /\ items = [i \in Items |-> NoItem]
    /\ missions = [i \in Items |-> [state |-> "absent", narrowed |-> FALSE]]
    /\ cycles = [p \in Planes |-> <<>>]
    /\ worker = [c \in Callers |-> Away]
    /\ edits = 0

-----------------------------------------------------------------------------
(* The world outside.                                                      *)

(* Somebody edits the packet of an item; its identity stays.               *)
Edit(i, p) ==
    /\ edits < MaxEdits /\ p # packets[i]
    /\ edits' = edits + 1
    /\ packets' = [packets EXCEPT ![i] = p]
    /\ released' = IF p.ownerOnly THEN released ELSE released \union {i}
    /\ UNCHANGED <<items, missions, cycles, worker>>

(* What a work_once leaves of a mission.                                   *)
Advanced(state) ==
    CASE state = "admitted" -> {"admitted", "running", "completed", "ended"}
      [] state = "running" -> {"running", "completed", "ended"}
      [] OTHER -> {state}

(* A supervisor advances a mission, or an operator cancels it.             *)
Elsewhere(i) ==
    /\ missions[i].state \in {"admitted", "running"}
    /\ \E s \in Advanced(missions[i].state) :
         missions' = [missions EXCEPT ![i].state = s]
    /\ UNCHANGED <<packets, released, items, cycles, worker, edits>>

ClaimExpires(i) ==
    /\ items[i].live
    /\ items' = [items EXCEPT ![i].live = FALSE]
    /\ UNCHANGED <<packets, released, missions, cycles, worker, edits>>

-----------------------------------------------------------------------------
(* Cycle rows.                                                             *)

IsOpenCycle(p, k) == cycles[p][k] = "open"

(* _claim_cycle: refused while a lease lasts, which it does for as long as *)
(* the step is not taken; what was left open is settled in the same        *)
(* transaction.                                                            *)
OpenedCycle(p, recovery) ==
    [cycles EXCEPT ![p] =
        Append([k \in DOMAIN @ |-> IF IsOpenCycle(p, k) THEN recovery ELSE @[k]],
               "open")]

(* Mutant: the lease token is forgotten.                                   *)
ClosedCycleAnyway(p, k, outcome) == [cycles EXCEPT ![p][k] = outcome]

(* _close_cycle, _finish: where the row is open and still one's own.       *)
ClosedCycle(p, k, outcome) ==
    IF IsOpenCycle(p, k) THEN [cycles EXCEPT ![p][k] = outcome] ELSE cycles

At(c, label) == worker[c].at = label

Goes(c, label) == worker' = [worker EXCEPT ![c].at = label]

Close(c, outcome) ==
    /\ cycles' = ClosedCycle(worker[c].plane, worker[c].cycle, outcome)
    /\ worker' = [worker EXCEPT ![c] = Away]
    /\ UNCHANGED <<packets, released, items, missions, edits>>

(* The process is gone, and its row stays open until somebody settles it.  *)
Die(c) ==
    /\ ~At(c, "away")
    /\ worker' = [worker EXCEPT ![c] = Away]
    /\ UNCHANGED <<packets, released, items, missions, cycles, edits>>

-----------------------------------------------------------------------------
(* Items.                                                                  *)

(* Mutant: a claim is not given up with the state.                         *)
PutState(i, state) == [items EXCEPT ![i].state = state]

(* A claim means something while the item is claimed only.                 *)
Put(i, state) ==
    IF items[i].state = state THEN items
    ELSE [items EXCEPT ![i].state = state, ![i].claimant = None, ![i].live = FALSE]

(* _upsert, refused: the identity of an item is frozen, the plane that     *)
(* observed it first (source_kind) included, and an item that entered the  *)
(* Controller cannot become the Owner's.                                   *)
Acceptable(plane, i, p) ==
    /\ items[i].kind \in {None, plane}
    /\ p.ownerOnly => items[i].state \notin {"admitted", "in_progress", "done"}

(* _upsert: the state the packet gives an item.                            *)
Folded(row, p) ==
    IF row.state = "absent" THEN IF p.blocked THEN "blocked" ELSE "queued"
    ELSE IF p.ownerOnly THEN "owner_required"
    ELSE IF row.state = "owner_required" THEN "queued"
    ELSE IF p.blocked /\ row.state \in {"queued", "blocked"} THEN "blocked"
    ELSE IF ~p.blocked /\ row.state = "blocked" /\ ~row.bound THEN "queued"
    ELSE row.state

(* Mutant: the flag of the packet is not written.                          *)
UpsertedState(plane, i, p) ==
    [Put(i, Folded(items[i], p)) EXCEPT ![i].kind = plane]

Upserted(plane, i, p) ==
    [Put(i, Folded(items[i], p)) EXCEPT ![i].ownerOnly = p.ownerOnly, ![i].kind = plane]

(* eligible, claim: queued, or claimed by someone whose claim ran out.     *)
Takeable(i) == \/ items[i].state = "queued"
               \/ items[i].state = "claimed" /\ ~items[i].live

Eligible == {i \in Items : Takeable(i)}

(* claim: a worker asking again for its own live claim is given it.        *)
Granted(c, i) ==
    \/ Takeable(i)
    \/ items[i].state = "claimed" /\ items[i].claimant = NameOf[c]

Claimed(c, i) ==
    [items EXCEPT ![i].state = "claimed", ![i].claimant = NameOf[c], ![i].live = TRUE]

(* admit, its last transaction: nothing is asked of the item again.        *)
Admitted(i) == [Put(i, "admitted") EXCEPT ![i].bound = TRUE]

(* reconcile: what a mission makes of its item.                            *)
Outcome(state) ==
    CASE state = "completed" -> "done"
      [] state = "ended" -> "blocked"
      [] state = "running" -> "in_progress"
      [] OTHER -> None

(* reconcile: an item that is settled, or has no mission, is left alone.   *)
Verdict(i) == IF items[i].state \in SETTLED \/ ~items[i].bound THEN None
              ELSE Outcome(missions[i].state)

-----------------------------------------------------------------------------
(* The steps of a cycle.                                                   *)

Begin(c, p) ==
    /\ At(c, "away")
    /\ Len(cycles[p]) < MaxCycles[p]
    /\ cycles' = OpenedCycle(p, IF p = "intake" THEN "idle" ELSE "refused")
    /\ worker' = [worker EXCEPT ![c] =
                    [Away EXCEPT !.plane = p, !.cycle = Len(cycles[p]) + 1,
                                 !.at = IF p = "intake" THEN "source" ELSE "bind"]]
    /\ UNCHANGED <<packets, released, items, missions, edits>>

(* An exception, a refusal of the code's own or any other.                 *)
Abandon(c) == ~At(c, "away") /\ Close(c, "refused")

Folding(c) == IF worker[c].plane = "intake" THEN "list" ELSE "judge"

(* WorkSource.packets: the inbox is read at once and folded row by row; an *)
(* intake cycle may be given none.                                         *)
ReadSource(c) ==
    /\ At(c, "source")
    /\ \E inbox \in {Inbox[worker[c].plane], {}} :
       /\ worker[c].plane = "management" => inbox = Inbox["management"]
       /\ worker' = [worker EXCEPT
             ![c].batch = {[item |-> i, packet |-> packets[i]] : i \in inbox},
             ![c].at = IF inbox = {} THEN Folding(c) ELSE "upsert"]
    /\ UNCHANGED <<packets, released, items, missions, cycles, edits>>

Upsert(c) ==
    /\ At(c, "upsert")
    /\ \E row \in worker[c].batch :
         /\ \A other \in worker[c].batch : row.item <= other.item
         /\ Acceptable(worker[c].plane, row.item, row.packet)
         /\ items' = Upserted(worker[c].plane, row.item, row.packet)
         /\ worker' = [worker EXCEPT
              ![c].batch = @ \ {row},
              ![c].at = IF worker[c].batch = {row} THEN Folding(c) ELSE "upsert"]
    /\ UNCHANGED <<packets, released, missions, cycles, edits>>

(* Every item in the Controller's hands is reconciled first.               *)
List(c) ==
    /\ At(c, "list")
    /\ worker' = [worker EXCEPT ![c].at = "reconcile",
            ![c].todo = {i \in Items :
                           items[i].state \in {"admitted", "in_progress", "claimed"}}]
    /\ UNCHANGED <<packets, released, items, missions, cycles, edits>>

Reconciling(c) == /\ worker[c].at \in {"reconcile", "settle"}
                  /\ worker[c].todo # {}

(* reconcile reads the item and the mission ...                            *)
ReadMission(c) ==
    LET i == Min(worker[c].todo)
    IN /\ Reconciling(c) /\ worker[c].mark = None
       /\ worker' = IF Verdict(i) = None THEN [worker EXCEPT ![c].todo = @ \ {i}]
                    ELSE [worker EXCEPT ![c].mark = Verdict(i)]
       /\ UNCHANGED <<packets, released, items, missions, cycles, edits>>

(* ... and marks the item later, whatever became of it since.              *)
Mark(c) ==
    LET i == Min(worker[c].todo)
    IN /\ Reconciling(c) /\ worker[c].mark # None
       /\ items' = Put(i, worker[c].mark)
       /\ worker' = [worker EXCEPT ![c].mark = None, ![c].todo = @ \ {i}]
       /\ UNCHANGED <<packets, released, missions, cycles, edits>>

(* The lowest item is picked, and may be lost by the time it is claimed.   *)
Pick(c) ==
    /\ At(c, "reconcile") /\ worker[c].todo = {}
    /\ Eligible # {}
    /\ worker' = [worker EXCEPT ![c].item = Min(Eligible), ![c].at = "claim"]
    /\ UNCHANGED <<packets, released, items, missions, cycles, edits>>

Claim(c) ==
    LET i == worker[c].item
    IN /\ At(c, "claim")
       /\ Granted(c, i)
       /\ items' = IF Takeable(i) THEN Claimed(c, i) ELSE items
       /\ Goes(c, IF worker[c].plane = "intake" /\ items[i].ownerOnly
                  THEN "owner" ELSE "admit")
       /\ UNCHANGED <<packets, released, missions, cycles, edits>>

(* Nothing to take, or the claim lost, or the item left to the Owner (which *)
(* admit records as a refusal and cycle as an idle turn).                  *)
EndIdle(c) ==
    /\ \/ At(c, "reconcile") /\ worker[c].todo = {} /\ Eligible = {}
       \/ At(c, "claim") /\ ~Granted(c, worker[c].item)
       \/ At(c, "idle")
    /\ Close(c, "idle")

MarkOwner(c) ==
    /\ At(c, "owner")
    /\ items' = Put(worker[c].item, "owner_required")
    /\ Goes(c, "idle")
    /\ UNCHANGED <<packets, released, missions, cycles, edits>>

Held(c) == IF worker[c].plane = "intake" THEN "work" ELSE "narrow"

(* admit reads the item again; every other state of it is a refusal.       *)
Admit(c) ==
    LET row == items[worker[c].item]
        bound == \/ row.state = "done"
                 \/ row.bound /\ row.state \in {"admitted", "in_progress", "blocked"}
    IN /\ At(c, "admit")
       /\ \/ row.ownerOnly /\ Goes(c, "owner")
          \/ ~row.ownerOnly /\ bound /\ Goes(c, Held(c))
          \/ ~row.ownerOnly /\ ~bound /\ row.state \in {"claimed", "blocked"}
             /\ Goes(c, "submit")
       /\ UNCHANGED <<packets, released, items, missions, cycles, edits>>

(* controller.submit under the item's key: the same payload finds the same *)
(* mission, another one is a ConflictError.                                *)
Submit(c) ==
    LET i == worker[c].item
    IN /\ At(c, "submit")
       /\ ~missions[i].narrowed
       /\ missions' = IF missions[i].state = "absent"
                      THEN [missions EXCEPT ![i].state = "admitted"] ELSE missions
       /\ Goes(c, "bind item")
       /\ UNCHANGED <<packets, released, items, cycles, edits>>

BindItem(c) ==
    /\ At(c, "bind item")
    /\ items' = Admitted(worker[c].item)
    /\ Goes(c, Held(c))
    /\ UNCHANGED <<packets, released, missions, cycles, edits>>

(* work_once, which returns nothing for a mission somebody else holds; the *)
(* management cycle reconciles what was returned to it only.               *)
Work(c) ==
    LET i == worker[c].item
    IN /\ At(c, "work")
       /\ \/ \E s \in Advanced(missions[i].state) :
               /\ missions' = [missions EXCEPT ![i].state = s]
               /\ worker' = [worker EXCEPT ![c].at = "settle", ![c].todo = {i},
                                           ![c].item = None]
          \/ /\ worker[c].plane = "management"
             /\ worker' = [worker EXCEPT ![c].at = "settle", ![c].item = None]
             /\ UNCHANGED missions
       /\ UNCHANGED <<packets, released, items, cycles, edits>>

EndCompleted(c) ==
    /\ At(c, "settle") /\ worker[c].todo = {}
    /\ Close(c, "completed")

IntakeStep(c) ==
    \/ Begin(c, "intake")
    \/ Abandon(c) \/ Die(c)
    \/ ReadSource(c) \/ Upsert(c)
    \/ List(c) \/ ReadMission(c) \/ Mark(c) \/ Pick(c)
    \/ Claim(c) \/ EndIdle(c) \/ MarkOwner(c)
    \/ Admit(c) \/ Submit(c) \/ BindItem(c) \/ Work(c) \/ EndCompleted(c)

World ==
    \/ \E i \in Items, p \in Packets : Edit(i, p)
    \/ \E i \in Items : Elsewhere(i) \/ ClaimExpires(i)
=============================================================================
