----------------------------- MODULE Management -----------------------------
(***************************************************************************)
(* The management cycle (management.py) over the items of the work intake  *)
(* plane.  Its inbox is a registered one: a cycle runs on packets whose    *)
(* digest is the digest registered first.  A manager judges a snapshot,    *)
(* and a cycle goes on only where nothing moved meanwhile; the mission is  *)
(* rewritten to the profile selected, after it was submitted.              *)
(*                                                                         *)
(* What the manager says, which profiles are eligible and which reviewer   *)
(* is named are left open: none of them widens what a cycle may do here.   *)
(***************************************************************************)
EXTENDS WorkIntake

VARIABLES manifest,     \* source_manifests: the packets as registered
          unmoved       \* callers whose snapshot still has the current version

vars == <<packets, released, items, missions, cycles, worker, edits, manifest, unmoved>>

Init == InitIntake /\ manifest = None /\ unmoved = {}

(* state_version moves with the items and the missions; a row written      *)
(* again with the same values moves it too (see Abandon).                  *)
VersionMoves(others) ==
    unmoved' = IF UNCHANGED <<items, missions>> THEN others ELSE {}

(* packet_digest: the digest stands for the packets.                       *)
Digest == [i \in Inbox["management"] |-> packets[i]]

(* register_source_manifest: immutable after registration.                 *)
Register ==
    /\ manifest = None
    /\ manifest' = Digest
    /\ unmoved' = {}
    /\ UNCHANGED intakeVars

(* bind_source.  The packets are read again, after it.                     *)
BindSource(c) ==
    /\ At(c, "bind")
    /\ manifest = Digest
    /\ Goes(c, "source")
    /\ UNCHANGED <<packets, released, items, missions, cycles, edits, manifest, unmoved>>

Snapshot(c) ==
    /\ At(c, "judge")
    /\ Goes(c, "judging")
    /\ unmoved' = unmoved \union {c}
    /\ UNCHANGED <<packets, released, items, missions, cycles, edits, manifest>>

(* The judgment is used only where nothing moved since the snapshot.       *)
Judged(c) ==
    /\ At(c, "judging")
    /\ c \in unmoved
    /\ Goes(c, "choose")
    /\ unmoved' = unmoved \ {c}
    /\ UNCHANGED <<packets, released, items, missions, cycles, edits, manifest>>

(* The lowest item, unless it is the Owner's or no profile is eligible.    *)
Choose(c) ==
    /\ At(c, "choose")
    /\ Eligible # {}
    /\ ~items[Min(Eligible)].ownerOnly
    /\ worker' = [worker EXCEPT ![c].item = Min(Eligible), ![c].at = "claim"]
    /\ UNCHANGED <<packets, released, items, missions, cycles, edits, manifest, unmoved>>

(* The manager is unavailable or unusable, or there is nothing to choose.  *)
Wait(c) ==
    /\ worker[c].at \in {"judging", "choose"}
    /\ Close(c, "idle")
    /\ unmoved' = unmoved \ {c}
    /\ UNCHANGED manifest

(* _narrow_mission: a transaction of its own after the submission.         *)
Narrow(c) ==
    /\ At(c, "narrow")
    /\ missions' = [missions EXCEPT ![worker[c].item].narrowed = TRUE]
    /\ Goes(c, "work")
    /\ unmoved' = {}
    /\ UNCHANGED <<packets, released, items, cycles, edits, manifest>>

(* _open_cycle: a reader settles a cycle whose lease ran out.              *)
ReadStatus ==
    /\ \E k \in DOMAIN cycles["management"] :
         /\ IsOpenCycle("management", k)
         /\ cycles' = ClosedCycle("management", k, "refused")
    /\ UNCHANGED <<packets, released, items, missions, worker, edits, manifest, unmoved>>

ManagementStep(c) ==
    \/ Begin(c, "management") /\ unmoved' = {} /\ UNCHANGED manifest
    \/ BindSource(c) \/ Snapshot(c) \/ Judged(c) \/ Choose(c) \/ Wait(c) \/ Narrow(c)

Next ==
    \/ \E c \in Callers : ManagementStep(c)
    \/ \E c \in Callers : IntakeStep(c) /\ VersionMoves(unmoved \ {c}) /\ UNCHANGED manifest
    \/ World /\ VersionMoves(unmoved) /\ UNCHANGED manifest
    \/ Register \/ ReadStatus

Spec == Init /\ [][Next]_vars
=============================================================================
