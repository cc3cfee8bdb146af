------------------------ MODULE ManagementProperties ------------------------
(***************************************************************************)
(* What the two intake cycles promise over the one table of items.         *)
(***************************************************************************)
EXTENDS Management

IntakeTypeOK ==
    /\ packets \in [Items -> Packets]
    /\ released \subseteq Items
    /\ items \in [Items -> [state : ItemStates, kind : Planes \union {None},
                            ownerOnly : BOOLEAN, bound : BOOLEAN,
                            claimant : {NameOf[c] : c \in Callers} \union {None},
                            live : BOOLEAN]]
    /\ missions \in [Items -> [state : MissionStates, narrowed : BOOLEAN]]
    /\ \A i \in Items : items[i].live => items[i].state = "claimed"
    /\ manifest \in [Inbox["management"] -> Packets] \union {None}
    /\ unmoved \subseteq Callers
    /\ \A c \in Callers :
         /\ worker[c].todo \subseteq Items
         /\ worker[c].item \in Items \union {None}
         /\ worker[c].mark \in ItemStates \union {None}
         /\ worker[c].cycle \in 0..Len(cycles[worker[c].plane])

(* Either cycle table is a cycle ledger: one open cycle at most, each row  *)
(* settled once, whoever comes back late to close it.                      *)
IntakeLedger == INSTANCE CycleLedger
    WITH rows <- cycles["intake"],
         Outcomes <- {"completed", "idle", "refused"}, Recoveries <- {"idle"}
ManagementLedger == INSTANCE CycleLedger
    WITH rows <- cycles["management"],
         Outcomes <- {"completed", "idle", "refused"}, Recoveries <- {"refused"}
CyclesSettledOnce == IntakeLedger!LedgerSpec /\ ManagementLedger!LedgerSpec

(* An item the inbox never left to the Factory becomes no mission, however *)
(* its packet was edited, and by whichever cycle.                          *)
OwnerItemsHeld ==
    \A i \in Items : missions[i].state # "absent" => i \in released
=============================================================================
