-------------------------- MODULE ManagementProofs --------------------------
(***************************************************************************)
(* For any items, inboxes, callers and bounds: the tables keep their       *)
(* types, an item the inbox never left to the Factory becomes no mission,  *)
(* and both cycle tables implement CycleLedger.                            *)
(*                                                                         *)
(* An admission reads the owner flag of an item and submits it in a later  *)
(* transaction, when the packet may have been edited and folded again.     *)
(* What was read is a fact about the past, so the invariant speaks of      *)
(* "released", which only grows: whoever folds a packet without the flag,  *)
(* and whoever is past the check, names an item that was once released.    *)
(***************************************************************************)
EXTENDS ManagementProperties, SequenceTheorems, WellFoundedInduction, TLAPS

Names == {NameOf[c] : c \in Callers} \union {None}

Row == [state : ItemStates, kind : Planes \union {None}, ownerOnly : BOOLEAN,
        bound : BOOLEAN, claimant : Names, live : BOOLEAN]

Folds == [item : Items, packet : Packets]

Outcomes == {"open", "completed", "idle", "refused"}

Places == {"away", "source", "bind", "upsert", "list", "judge", "judging", "choose",
           "reconcile", "claim", "owner", "idle", "admit", "submit", "bind item",
           "work", "narrow", "settle"}

Holding == {"claim", "owner", "idle", "admit", "submit", "bind item", "work", "narrow"}

Invocations == [plane : Planes, at : Places, cycle : Nat, batch : SUBSET Folds,
                todo : SUBSET Items, item : Items \union {None},
                mark : ItemStates \union {None}]

(* What an invocation w rests on: the table t, the items released ever (r) *)
(* and the cycle rows y.                                                   *)
Sound(w, t, r, y) ==
    /\ w \in Invocations
    /\ w.cycle <= Len(y[w.plane])
    /\ w.at # "away" => w.cycle > 0
    /\ \A row \in w.batch : ~row.packet.ownerOnly => row.item \in r
    /\ w.mark # None => /\ w.at \in {"reconcile", "settle"}
                        /\ w.mark # "absent" /\ w.todo # {}
                        /\ t[Min(w.todo)].state # "absent"
    /\ w.at \in Holding => w.item \in Items /\ t[w.item].state # "absent"
    /\ w.at = "submit" => w.item \in r

PacketInv ==
    /\ packets \in [Items -> Packets] /\ released \subseteq Items
    /\ \A i \in Items : ~packets[i].ownerOnly => i \in released

(* What the columns of an item say of each other.                          *)
Consistent(i, row) ==
    /\ row.live => row.state = "claimed"
    /\ row.bound => row.state # "absent"
    /\ row.state # "absent" /\ ~row.ownerOnly => i \in released

ItemInv == items \in [Items -> Row] /\ \A i \in Items : Consistent(i, items[i])

MissionRow == [state : MissionStates, narrowed : BOOLEAN]

MissionInv == missions \in [Items -> MissionRow] /\ OwnerItemsHeld

CyclesInv == cycles \in [Planes -> Seq(Outcomes)]

WorkInv ==
    /\ worker = [c \in Callers |-> worker[c]]
    /\ \A c \in Callers : Sound(worker[c], items, released, cycles)

RestInv == /\ manifest \in [Inbox["management"] -> Packets] \union {None}
           /\ unmoved \subseteq Callers

IInv == PacketInv /\ ItemInv /\ MissionInv /\ CyclesInv /\ WorkInv /\ RestInv

-----------------------------------------------------------------------------
(* How the tables grow.                                                    *)

Later ==
    /\ \A i \in Items : items[i].state # "absent" => items'[i].state # "absent"
    /\ released \subseteq released'
    /\ \A p \in Planes : Len(cycles[p]) <= Len(cycles'[p])

LEMMA MinIsOne ==
    ASSUME NEW S \in SUBSET Nat, S # {}
    PROVE  Min(S) \in S /\ \A y \in S : Min(S) <= y
  <1>1. \E x \in S : \A y \in S : ~ (<<y, x>> \in OpToRel(<, Nat))
    BY NatLessThanWellFounded, WFMin
  <1>2. PICK x \in S : \A y \in S : ~ (y < x)
    BY <1>1 DEF OpToRel
  <1>3. \A y \in S : x <= y
    BY <1>2
  <1> QED BY <1>3 DEF Min

LEMMA FirstIsOne ==
    ASSUME NEW S \in SUBSET Items, S # {}
    PROVE  Min(S) \in S /\ Min(S) \in Items
  <1>1. S \in SUBSET Nat
    BY IntakeAssumption
  <1> QED BY <1>1, MinIsOne

LEMMA CycleLengths ==
    ASSUME CyclesInv, NEW p \in Planes
    PROVE  /\ cycles[p] \in Seq(Outcomes) /\ Len(cycles[p]) \in Nat
           /\ DOMAIN cycles[p] = 1..Len(cycles[p])
           /\ \A k \in 1..Len(cycles[p]) : cycles[p][k] \in Outcomes
  <1>1. cycles[p] \in Seq(Outcomes)
    BY DEF CyclesInv
  <1> QED BY <1>1, LenProperties, ElementOfSeq

LEMMA SoundStays ==
    ASSUME CyclesInv, CyclesInv', Later, NEW w, Sound(w, items, released, cycles)
    PROVE  Sound(w, items', released', cycles')
  <1>1. w \in Invocations /\ w.plane \in Planes /\ w.cycle \in Nat
    BY DEF Sound, Invocations
  <1>2. w.cycle <= Len(cycles'[w.plane])
    <2>1. Len(cycles[w.plane]) \in Nat /\ w.cycle <= Len(cycles[w.plane])
      BY <1>1, CycleLengths DEF Sound
    <2>2. Len(cycles'[w.plane]) \in Nat
      BY <1>1, LenProperties DEF CyclesInv
    <2>3. Len(cycles[w.plane]) <= Len(cycles'[w.plane])
      BY <1>1 DEF Later
    <2> QED BY <1>1, <2>1, <2>2, <2>3
  <1>3. \A row \in w.batch : ~row.packet.ownerOnly => row.item \in released'
    BY DEF Sound, Later
  <1>4. w.mark # None => items'[Min(w.todo)].state # "absent"
    <2>1. w.todo \in SUBSET Items
      BY <1>1 DEF Invocations
    <2> QED BY <2>1, FirstIsOne DEF Sound, Later
  <1>5. w.at \in Holding => items'[w.item].state # "absent"
    BY DEF Sound, Later
  <1>6. w.at = "submit" => w.item \in released'
    BY DEF Sound, Later
  <1> QED BY <1>2, <1>3, <1>4, <1>5, <1>6 DEF Sound

LEMMA Others ==
    ASSUME CyclesInv, CyclesInv', WorkInv, Later,
           worker' = [c \in Callers |-> worker'[c]],
           \A c \in Callers : worker'[c] = worker[c]
                                \/ Sound(worker'[c], items', released', cycles')
    PROVE  WorkInv'
  BY SoundStays DEF WorkInv

LEMMA OneMoves ==
    ASSUME CyclesInv, CyclesInv', WorkInv, Later, NEW c \in Callers, NEW w,
           Sound(w, items', released', cycles'), worker' = [worker EXCEPT ![c] = w]
    PROVE  WorkInv'
  <1>1. /\ worker' = [d \in Callers |-> worker'[d]]
        /\ \A d \in Callers : worker'[d] = IF d = c THEN w ELSE worker[d]
    BY DEF WorkInv
  <1> QED BY <1>1, Others

LEMMA TablesStay ==
    ASSUME IInv
    PROVE  /\ UNCHANGED <<packets, released>> => PacketInv'
           /\ UNCHANGED <<items, released>> => ItemInv'
           /\ UNCHANGED <<missions, released>> => MissionInv'
           /\ UNCHANGED cycles => CyclesInv'
           /\ UNCHANGED <<manifest, unmoved>> => RestInv'
           /\ UNCHANGED <<items, released, cycles>> => Later
           /\ UNCHANGED <<items, released, cycles, worker>> => WorkInv'
  <1>1. UNCHANGED cycles => \A p \in Planes : Len(cycles[p]) <= Len(cycles'[p])
    <2>1. \A p \in Planes : Len(cycles[p]) \in Nat
      BY CycleLengths DEF IInv
    <2> QED BY <2>1
  <1>2. UNCHANGED <<items, released, cycles>> => Later
    BY <1>1 DEF Later
  <1>3. UNCHANGED <<packets, released>> => PacketInv'
    BY DEF IInv, PacketInv
  <1>4. UNCHANGED <<items, released>> => ItemInv'
    BY DEF IInv, ItemInv, Consistent
  <1>5. UNCHANGED <<missions, released>> => MissionInv'
    BY DEF IInv, MissionInv, OwnerItemsHeld
  <1>6. UNCHANGED cycles => CyclesInv'
    BY DEF IInv, CyclesInv
  <1>7. UNCHANGED <<manifest, unmoved>> => RestInv'
    BY DEF IInv, RestInv
  <1>8. UNCHANGED <<items, released, cycles, worker>> => WorkInv'
    BY DEF IInv, WorkInv
  <1> QED BY <1>2, <1>3, <1>4, <1>5, <1>6, <1>7, <1>8

(* The rest of the rows, whoever takes the step.                           *)
LEMMA VersionKept ==
    ASSUME IInv, NEW S \in SUBSET Callers, VersionMoves(S), UNCHANGED manifest
    PROVE  RestInv'
  BY DEF IInv, RestInv, VersionMoves

(* An item is put into another state, and never back into none.            *)
LEMMA PutKeeps ==
    ASSUME IInv, NEW i \in Items, NEW state \in ItemStates \ {"absent"},
           items[i].state # "absent", items' = Put(i, state), UNCHANGED <<released, cycles>>
    PROVE  ItemInv' /\ Later
  <1>1. items[i] \in Row /\ items \in [Items -> Row] /\ Consistent(i, items[i])
    BY DEF IInv, ItemInv
  <1> DEFINE row == [items[i] EXCEPT !.state = state, !.claimant = None, !.live = FALSE]
  <1>2. items' = items \/ items' = [items EXCEPT ![i] = row]
    BY <1>1 DEF Put
  <1>3. row \in Row /\ Consistent(i, row) /\ row.state # "absent"
    BY <1>1 DEF Row, Names, Consistent
  <1>4. ItemInv'
    BY <1>1, <1>2, <1>3 DEF IInv, ItemInv, Consistent
  <1>5. \A j \in Items : items[j].state # "absent" => items'[j].state # "absent"
    BY <1>1, <1>2, <1>3
  <1>6. Later
    BY <1>5, TablesStay, CycleLengths DEF Later, IInv
  <1> QED BY <1>4, <1>6

-----------------------------------------------------------------------------
(* The two cycle tables.                                                   *)

Recovery(p) == IF p = "intake" THEN "idle" ELSE "refused"
Closings == Outcomes \ {"open"}

Begun(p) ==
    cycles'[p] = Append([k \in DOMAIN cycles[p] |->
                           IF IsOpenCycle(p, k) THEN Recovery(p) ELSE cycles[p][k]], "open")

SettledOne(p) ==
    \E k \in DOMAIN cycles[p], o \in Closings :
        IsOpenCycle(p, k) /\ cycles'[p] = [cycles[p] EXCEPT ![k] = o]

Ledgers == \A p \in Planes : cycles'[p] = cycles[p] \/ Begun(p) \/ SettledOne(p)

LEMMA ClosedRow ==
    ASSUME CyclesInv, NEW p \in Planes, NEW k \in 1..Len(cycles[p]), NEW o \in Closings,
           cycles' = ClosedCycle(p, k, o)
    PROVE  CyclesInv' /\ Ledgers /\ \A q \in Planes : Len(cycles'[q]) = Len(cycles[q])
  <1>1. /\ cycles \in [Planes -> Seq(Outcomes)] /\ cycles[p] \in Seq(Outcomes)
        /\ DOMAIN cycles[p] = 1..Len(cycles[p])
    BY CycleLengths DEF CyclesInv
  <1>2. CASE ~IsOpenCycle(p, k)
    BY <1>2 DEF ClosedCycle, Ledgers, CyclesInv
  <1>3. CASE IsOpenCycle(p, k)
    <2> DEFINE b == [cycles[p] EXCEPT ![k] = o]
    <2>1. b \in Seq(Outcomes) /\ Len(b) = Len(cycles[p])
      BY <1>1, ExceptSeq DEF Closings
    <2>2. cycles' = [cycles EXCEPT ![p] = b]
      BY <1>1, <1>3 DEF ClosedCycle
    <2>3. SettledOne(p)
      BY <1>1, <1>3, <2>2 DEF SettledOne
    <2> HIDE DEF b
    <2>4. \A q \in Planes : cycles'[q] = IF q = p THEN b ELSE cycles[q]
      BY <1>1, <2>2
    <2>5. CyclesInv'
      BY <1>1, <2>1, <2>2 DEF CyclesInv
    <2> QED BY <2>1, <2>3, <2>4, <2>5 DEF Ledgers
  <1> QED BY <1>2, <1>3

LEMMA OpenedRow ==
    ASSUME CyclesInv, NEW p \in Planes, cycles' = OpenedCycle(p, Recovery(p))
    PROVE  /\ CyclesInv' /\ Ledgers
           /\ \A q \in Planes : Len(cycles'[q]) = IF q = p THEN Len(cycles[q]) + 1
                                                 ELSE Len(cycles[q])
  <1>1. /\ cycles \in [Planes -> Seq(Outcomes)] /\ Len(cycles[p]) \in Nat
        /\ DOMAIN cycles[p] = 1..Len(cycles[p])
        /\ \A k \in 1..Len(cycles[p]) : cycles[p][k] \in Outcomes
    BY CycleLengths DEF CyclesInv
  <1> DEFINE n == Len(cycles[p])
             s == [k \in 1..n |-> IF IsOpenCycle(p, k) THEN Recovery(p) ELSE cycles[p][k]]
             b == Append(s, "open")
  <1>2. s \in Seq(Outcomes) /\ Len(s) = n
    <2>1. \A k \in 1..n : s[k] \in Outcomes
      BY <1>1 DEF Recovery, Outcomes
    <2>2. s \in [1..n -> Outcomes]
      BY <2>1
    <2> QED BY <1>1, <2>2, SeqDef, LenProperties
  <1>3. b \in Seq(Outcomes) /\ Len(b) = n + 1
    <2>1. "open" \in Outcomes
      BY DEF Outcomes
    <2> QED BY <1>2, <2>1, AppendProperties
  <1>4. cycles' = [cycles EXCEPT ![p] = b]
    BY <1>1 DEF OpenedCycle, IsOpenCycle
  <1>5. Begun(p)
    BY <1>1, <1>4 DEF Begun
  <1> HIDE DEF b
  <1>6. \A q \in Planes : cycles'[q] = IF q = p THEN b ELSE cycles[q]
    BY <1>1, <1>4
  <1>7. CyclesInv'
    BY <1>1, <1>3, <1>4 DEF CyclesInv
  <1> QED BY <1>3, <1>5, <1>6, <1>7 DEF Ledgers

LEMMA LedgersStay == UNCHANGED cycles => Ledgers
  BY DEF Ledgers

-----------------------------------------------------------------------------
(* Steps in which an invocation only walks on.                             *)

LEMMA AwayIsSound ==
    ASSUME CyclesInv
    PROVE  Away \in Invocations /\ Sound(Away, items, released, cycles)
                                /\ Sound(Away, items', released', cycles)
  <1>1. Away \in Invocations
    BY DEF Away, Invocations, Planes, Places
  <1>2. Len(cycles["intake"]) \in Nat
    BY CycleLengths DEF Planes
  <1> QED BY <1>1, <1>2 DEF Sound, Away, Holding

LEMMA Mine ==
    ASSUME IInv, NEW c \in Callers
    PROVE  /\ worker[c] \in Invocations /\ Sound(worker[c], items, released, cycles)
           /\ \A w : [worker EXCEPT ![c] = w] = [d \in Callers |-> IF d = c THEN w ELSE worker[d]]
  BY DEF IInv, WorkInv, Sound

LEMMA Walks ==
    ASSUME IInv, UNCHANGED <<packets, released, items, missions, cycles>>, RestInv',
           NEW c \in Callers, NEW w, Sound(w, items, released, cycles),
           worker' = [worker EXCEPT ![c] = w]
    PROVE  IInv' /\ Ledgers
  <1>1. PacketInv' /\ ItemInv' /\ MissionInv' /\ CyclesInv' /\ Later
    BY TablesStay
  <1>2. Sound(w, items', released', cycles')
    OBVIOUS
  <1>3. WorkInv'
    BY <1>1, <1>2, OneMoves DEF IInv
  <1> QED BY <1>1, <1>3, LedgersStay DEF IInv

(* To a place where no item is held, with what was held before.            *)
LEMMA Plain ==
    ASSUME IInv, NEW c \in Callers, worker[c].at \notin {"away", "reconcile", "settle"},
           NEW at \in Places \ Holding
    PROVE  Sound([worker[c] EXCEPT !.at = at], items, released, cycles)
  <1>1. worker[c] \in Invocations /\ Sound(worker[c], items, released, cycles)
    BY Mine
  <1> DEFINE w == [worker[c] EXCEPT !.at = at]
  <1>2. /\ w \in Invocations /\ w.at = at /\ w.cycle = worker[c].cycle
        /\ w.plane = worker[c].plane /\ w.batch = worker[c].batch
        /\ w.mark = worker[c].mark /\ w.todo = worker[c].todo
    BY <1>1 DEF Invocations
  <1>3. at \notin Holding /\ at # "submit"
    BY DEF Holding
  <1> HIDE DEF w
  <1>4. Sound(w, items, released, cycles)
    BY <1>1, <1>2, <1>3 DEF Sound
  <1> QED BY <1>4 DEF w

LEMMA ReadSourceStep ==
    ASSUME IInv, NEW c \in Callers, ReadSource(c), RestInv'
    PROVE  IInv' /\ Ledgers
  <1>1. worker[c] \in Invocations /\ Sound(worker[c], items, released, cycles)
    BY Mine
  <1>2. PICK inbox \in {Inbox[worker[c].plane], {}} :
          worker' = [worker EXCEPT
             ![c].batch = {[item |-> i, packet |-> packets[i]] : i \in inbox},
             ![c].at = IF inbox = {} THEN Folding(c) ELSE "upsert"]
    BY DEF ReadSource
  <1> DEFINE batch == {[item |-> i, packet |-> packets[i]] : i \in inbox}
             at == IF inbox = {} THEN Folding(c) ELSE "upsert"
             w == [worker[c] EXCEPT !.batch = batch, !.at = at]
  <1>3. inbox \in SUBSET Items
    BY <1>1, IntakeAssumption DEF Invocations
  <1>4. batch \in SUBSET Folds
    BY <1>3 DEF IInv, PacketInv, Folds
  <1>5. \A row \in batch : ~row.packet.ownerOnly => row.item \in released
    BY <1>3 DEF IInv, PacketInv
  <1>6. at \in Places \ Holding /\ at # "away"
    BY DEF Folding, Places, Holding
  <1>7. worker' = [worker EXCEPT ![c] = w]
    BY <1>2, Mine
  <1> HIDE DEF batch, at
  <1>8. /\ w \in Invocations /\ w.at = at /\ w.cycle = worker[c].cycle
        /\ w.plane = worker[c].plane /\ w.batch = batch
        /\ w.mark = worker[c].mark /\ w.todo = worker[c].todo
    BY <1>1, <1>4, <1>6 DEF Invocations
  <1>9. worker[c].at = "source"
    BY DEF ReadSource, At
  <1> HIDE DEF w
  <1>10. Sound(w, items, released, cycles)
    BY <1>1, <1>5, <1>6, <1>8, <1>9 DEF Sound, Holding
  <1> QED BY <1>7, <1>10, Walks DEF ReadSource

LEMMA ListStep ==
    ASSUME IInv, NEW c \in Callers, List(c), RestInv'
    PROVE  IInv' /\ Ledgers
  <1>1. worker[c] \in Invocations /\ Sound(worker[c], items, released, cycles)
    BY Mine
  <1> DEFINE todo == {i \in Items : items[i].state \in {"admitted", "in_progress", "claimed"}}
             w == [worker[c] EXCEPT !.at = "reconcile", !.todo = todo]
  <1>2. worker' = [worker EXCEPT ![c] = w] /\ worker[c].at = "list"
    BY Mine DEF List, At
  <1>3. /\ w \in Invocations /\ w.at = "reconcile" /\ w.cycle = worker[c].cycle
        /\ w.plane = worker[c].plane /\ w.batch = worker[c].batch
        /\ w.mark = worker[c].mark /\ w.todo = todo
    BY <1>1 DEF Invocations, Places
  <1>4. w.mark = None
    BY <1>1, <1>2, <1>3 DEF Sound
  <1> HIDE DEF w
  <1>5. Sound(w, items, released, cycles)
    BY <1>1, <1>2, <1>3, <1>4 DEF Sound, Holding
  <1> QED BY <1>2, <1>5, Walks DEF List

(* From one place where an item is held to another.                        *)
LEMMA Onward ==
    ASSUME IInv, NEW c \in Callers, worker[c].at \in Holding,
           NEW at \in Places \ {"submit"}
    PROVE  Sound([worker[c] EXCEPT !.at = at], items, released, cycles)
  <1>1. worker[c] \in Invocations /\ Sound(worker[c], items, released, cycles)
    BY Mine
  <1> DEFINE w == [worker[c] EXCEPT !.at = at]
  <1>2. /\ w \in Invocations /\ w.at = at /\ w.cycle = worker[c].cycle
        /\ w.plane = worker[c].plane /\ w.batch = worker[c].batch
        /\ w.mark = worker[c].mark /\ w.todo = worker[c].todo /\ w.item = worker[c].item
    BY <1>1 DEF Invocations
  <1>3. worker[c].at \notin {"away", "reconcile", "settle"}
    BY DEF Holding
  <1> HIDE DEF w
  <1>4. Sound(w, items, released, cycles)
    BY <1>1, <1>2, <1>3 DEF Sound
  <1> QED BY <1>4 DEF w

LEMMA ReadMissionStep ==
    ASSUME IInv, NEW c \in Callers, ReadMission(c), RestInv'
    PROVE  IInv' /\ Ledgers
  <1>1. worker[c] \in Invocations /\ Sound(worker[c], items, released, cycles)
    BY Mine
  <1>2. PICK i : i = Min(worker[c].todo)
    OBVIOUS
  <1>3. worker[c].todo \in SUBSET Items /\ i \in worker[c].todo /\ i \in Items
    <2>1. worker[c].todo \in SUBSET Items /\ worker[c].todo # {}
      BY <1>1 DEF Invocations, ReadMission, Reconciling
    <2> QED BY <1>2, <2>1, FirstIsOne
  <1>4. worker[c].mark = None /\ worker[c].at \in {"reconcile", "settle"}
    BY DEF ReadMission, Reconciling
  <1>5. \/ worker' = [worker EXCEPT ![c].todo = @ \ {i}]
        \/ Verdict(i) # None /\ worker' = [worker EXCEPT ![c].mark = Verdict(i)]
    BY <1>2 DEF ReadMission
  <1>6. CASE worker' = [worker EXCEPT ![c].todo = @ \ {i}]
    <2> DEFINE w == [worker[c] EXCEPT !.todo = worker[c].todo \ {i}]
    <2>1. worker' = [worker EXCEPT ![c] = w]
      BY <1>6, Mine
    <2>2. /\ w \in Invocations /\ w.at = worker[c].at /\ w.cycle = worker[c].cycle
          /\ w.plane = worker[c].plane /\ w.batch = worker[c].batch /\ w.mark = None
      BY <1>1, <1>3, <1>4 DEF Invocations
    <2> HIDE DEF w
    <2>3. Sound(w, items, released, cycles)
      BY <1>1, <1>4, <2>2 DEF Sound, Holding
    <2> QED BY <2>1, <2>3, Walks DEF ReadMission
  <1>7. CASE Verdict(i) # None /\ worker' = [worker EXCEPT ![c].mark = Verdict(i)]
    <2> DEFINE w == [worker[c] EXCEPT !.mark = Verdict(i)]
    <2>1. worker' = [worker EXCEPT ![c] = w]
      BY <1>7, Mine
    <2>2. items[i].state # "absent"
      BY <1>3, <1>7 DEF Verdict, IInv, ItemInv, Consistent
    <2>3. Verdict(i) \in ItemStates \ {"absent"}
      BY <1>7 DEF Verdict, Outcome, ItemStates
    <2>4. /\ w \in Invocations /\ w.at = worker[c].at /\ w.cycle = worker[c].cycle
          /\ w.plane = worker[c].plane /\ w.batch = worker[c].batch
          /\ w.mark = Verdict(i) /\ w.todo = worker[c].todo
      BY <1>1, <2>3 DEF Invocations
    <2> HIDE DEF w
    <2>5. Sound(w, items, released, cycles)
      BY <1>1, <1>2, <1>3, <1>4, <2>2, <2>3, <2>4 DEF Sound, Holding
    <2> QED BY <2>1, <2>5, Walks DEF ReadMission
  <1> QED BY <1>5, <1>6, <1>7

(* The lowest item that may be taken.                                      *)
LEMMA TakeStep ==
    ASSUME IInv, NEW c \in Callers, Pick(c) \/ Choose(c), RestInv'
    PROVE  IInv' /\ Ledgers
  <1>1. worker[c] \in Invocations /\ Sound(worker[c], items, released, cycles)
    BY Mine
  <1>2. PICK i : i = Min(Eligible)
    OBVIOUS
  <1>3. i \in Items /\ items[i].state # "absent"
    <2>1. Eligible \in SUBSET Items /\ Eligible # {}
      BY DEF Eligible, Pick, Choose
    <2>2. i \in Eligible
      BY <1>2, <2>1, FirstIsOne
    <2> QED BY <2>2 DEF Eligible, Takeable
  <1> DEFINE w == [worker[c] EXCEPT !.item = i, !.at = "claim"]
  <1>4. worker' = [worker EXCEPT ![c] = w]
    BY <1>2, Mine DEF Pick, Choose
  <1>5. /\ w \in Invocations /\ w.at = "claim" /\ w.cycle = worker[c].cycle
        /\ w.plane = worker[c].plane /\ w.batch = worker[c].batch
        /\ w.mark = worker[c].mark /\ w.todo = worker[c].todo /\ w.item = i
    BY <1>1, <1>3 DEF Invocations, Places
  <1>6. worker[c].mark = None /\ worker[c].at # "away"
    BY <1>1 DEF Sound, Pick, Choose, At
  <1> HIDE DEF w
  <1>7. Sound(w, items, released, cycles)
    BY <1>1, <1>3, <1>5, <1>6 DEF Sound
  <1> QED BY <1>4, <1>7, Walks DEF Pick, Choose

LEMMA AdmitStep ==
    ASSUME IInv, NEW c \in Callers, Admit(c), RestInv'
    PROVE  IInv' /\ Ledgers
  <1>1. worker[c] \in Invocations /\ Sound(worker[c], items, released, cycles)
    BY Mine
  <1>2. worker[c].at = "admit" /\ worker[c].at \in Holding
    BY DEF Admit, At, Holding
  <1>3. PICK at \in {"owner", "work", "narrow", "submit"} :
          /\ worker' = [worker EXCEPT ![c] = [worker[c] EXCEPT !.at = at]]
          /\ at = "submit" => ~items[worker[c].item].ownerOnly
    BY Mine DEF Admit, Goes, Held
  <1>4. CASE at # "submit"
    <2>1. at \in Places \ {"submit"}
      BY <1>3, <1>4 DEF Places
    <2> QED BY <1>2, <1>3, <2>1, Onward, Walks DEF Admit
  <1>5. CASE at = "submit"
    <2>1. worker[c].item \in Items /\ items[worker[c].item].state # "absent"
      BY <1>1, <1>2 DEF Sound
    <2>2. worker[c].item \in released
      BY <1>3, <1>5, <2>1 DEF IInv, ItemInv, Consistent
    <2> DEFINE w == [worker[c] EXCEPT !.at = "submit"]
    <2>3. /\ w \in Invocations /\ w.at = "submit" /\ w.cycle = worker[c].cycle
          /\ w.plane = worker[c].plane /\ w.batch = worker[c].batch
          /\ w.mark = worker[c].mark /\ w.todo = worker[c].todo /\ w.item = worker[c].item
      BY <1>1 DEF Invocations, Places
    <2>4. worker' = [worker EXCEPT ![c] = w]
      BY <1>3, <1>5
    <2> HIDE DEF w
    <2>5. Sound(w, items, released, cycles)
      BY <1>1, <1>2, <2>1, <2>2, <2>3 DEF Sound
    <2> QED BY <2>4, <2>5, Walks DEF Admit
  <1> QED BY <1>4, <1>5

LEMMA ManagerWalks ==
    ASSUME IInv, NEW c \in Callers, BindSource(c) \/ Snapshot(c) \/ Judged(c)
    PROVE  IInv' /\ Ledgers
  <1>1. RestInv'
    BY DEF IInv, RestInv, BindSource, Snapshot, Judged
  <1>2. /\ UNCHANGED <<packets, released, items, missions, cycles>>
        /\ worker[c].at \notin {"away", "reconcile", "settle"}
    BY DEF BindSource, Snapshot, Judged, At
  <1>3. PICK at \in Places \ Holding :
          worker' = [worker EXCEPT ![c] = [worker[c] EXCEPT !.at = at]]
    <2>1. {"source", "judging", "choose"} \subseteq Places \ Holding
      BY DEF Places, Holding
    <2> QED BY <2>1, Mine DEF BindSource, Snapshot, Judged, Goes
  <1> QED BY <1>1, <1>2, <1>3, Plain, Walks

LEMMA DieStep ==
    ASSUME IInv, NEW c \in Callers, Die(c), RestInv'
    PROVE  IInv' /\ Ledgers
  <1>1. Sound(Away, items, released, cycles)
    BY AwayIsSound DEF IInv
  <1> QED BY <1>1, Walks DEF Die

-----------------------------------------------------------------------------
(* Steps that write a cycle row.                                           *)

LEMMA CloseStep ==
    ASSUME IInv, NEW c \in Callers, NEW o \in Closings, worker[c].at # "away",
           Close(c, o), RestInv'
    PROVE  IInv' /\ Ledgers
  <1>1. worker[c] \in Invocations /\ Sound(worker[c], items, released, cycles)
    BY Mine
  <1> DEFINE p == worker[c].plane
             k == worker[c].cycle
  <1>2. p \in Planes /\ k \in 1..Len(cycles[p])
    <2>1. p \in Planes /\ k \in Nat
      BY <1>1 DEF Invocations
    <2>2. Len(cycles[p]) \in Nat
      BY <2>1, CycleLengths DEF IInv
    <2> QED BY <1>1, <2>1, <2>2 DEF Sound
  <1>3. cycles' = ClosedCycle(p, k, o)
    BY DEF Close
  <1> HIDE DEF p, k
  <1>4. CyclesInv' /\ Ledgers /\ \A q \in Planes : Len(cycles'[q]) = Len(cycles[q])
    BY <1>2, <1>3, ClosedRow DEF IInv
  <1>5. UNCHANGED <<packets, released, items, missions>>
    BY DEF Close
  <1>6. Later
    <2>1. \A q \in Planes : Len(cycles[q]) \in Nat
      BY CycleLengths DEF IInv
    <2> QED BY <1>4, <1>5, <2>1 DEF Later
  <1>7. Sound(Away, items', released', cycles')
    <2>1. Sound(Away, items, released, cycles)
      BY AwayIsSound DEF IInv
    <2> QED BY <1>4, <1>6, <2>1, SoundStays DEF IInv
  <1>8. worker' = [worker EXCEPT ![c] = Away]
    BY DEF Close
  <1>9. WorkInv'
    BY <1>4, <1>6, <1>7, <1>8, OneMoves DEF IInv
  <1> QED BY <1>4, <1>5, <1>9, TablesStay DEF IInv

LEMMA CloseSteps ==
    ASSUME IInv, NEW c \in Callers,
           Abandon(c) \/ EndIdle(c) \/ EndCompleted(c) \/ Wait(c), RestInv'
    PROVE  IInv' /\ Ledgers
  <1>1. PICK o \in Closings : Close(c, o)
    BY DEF Abandon, EndIdle, EndCompleted, Wait, Closings, Outcomes
  <1>2. worker[c].at # "away"
    BY DEF Abandon, EndIdle, EndCompleted, Wait, At
  <1> QED BY <1>1, <1>2, CloseStep

LEMMA BeginStep ==
    ASSUME IInv, NEW c \in Callers, NEW p \in Planes, Begin(c, p), RestInv'
    PROVE  IInv' /\ Ledgers
  <1>1. cycles' = OpenedCycle(p, Recovery(p)) /\ UNCHANGED <<packets, released, items, missions>>
    BY DEF Begin, Recovery
  <1>2. /\ CyclesInv' /\ Ledgers
        /\ \A q \in Planes : Len(cycles'[q]) = IF q = p THEN Len(cycles[q]) + 1
                                              ELSE Len(cycles[q])
    BY <1>1, OpenedRow DEF IInv
  <1>3. \A q \in Planes : Len(cycles[q]) \in Nat
    BY CycleLengths DEF IInv
  <1>4. Later
    BY <1>1, <1>2, <1>3 DEF Later
  <1> DEFINE w == [Away EXCEPT !.plane = p, !.cycle = Len(cycles[p]) + 1,
                               !.at = IF p = "intake" THEN "source" ELSE "bind"]
  <1>5. worker' = [worker EXCEPT ![c] = w]
    BY DEF Begin
  <1>6. /\ w \in Invocations /\ w.at \in {"source", "bind"} /\ w.plane = p
        /\ w.cycle = Len(cycles[p]) + 1 /\ w.batch = {} /\ w.mark = None
    <2>1. Len(cycles[p]) + 1 \in Nat /\ {"source", "bind"} \subseteq Places
      BY <1>3 DEF Places
    <2>2. Away \in Invocations /\ Away.batch = {} /\ Away.mark = None
      BY AwayIsSound DEF Away, IInv
    <2> QED BY <2>1, <2>2 DEF Away, Invocations
  <1>7. Len(cycles[p]) + 1 > 0 /\ w.cycle <= Len(cycles'[p])
    BY <1>2, <1>3, <1>6
  <1> HIDE DEF w
  <1>8. Sound(w, items', released', cycles')
    BY <1>6, <1>7 DEF Sound, Holding
  <1>9. WorkInv'
    BY <1>2, <1>4, <1>5, <1>8, OneMoves DEF IInv
  <1> QED BY <1>1, <1>2, <1>9, TablesStay DEF IInv

LEMMA ReadStatusStep ==
    ASSUME IInv, ReadStatus
    PROVE  IInv' /\ Ledgers
  <1>1. "management" \in Planes /\ "refused" \in Closings
    BY DEF Planes, Closings, Outcomes
  <1>2. PICK k \in 1..Len(cycles["management"]) : cycles' = ClosedCycle("management", k, "refused")
    <2>1. DOMAIN cycles["management"] = 1..Len(cycles["management"])
      BY <1>1, CycleLengths DEF IInv
    <2> QED BY <2>1 DEF ReadStatus
  <1>3. CyclesInv' /\ Ledgers /\ \A q \in Planes : Len(cycles'[q]) = Len(cycles[q])
    BY <1>1, <1>2, ClosedRow DEF IInv
  <1>4. UNCHANGED <<packets, released, items, missions, worker, manifest, unmoved>>
    BY DEF ReadStatus
  <1>5. Later
    <2>1. \A q \in Planes : Len(cycles[q]) \in Nat
      BY CycleLengths DEF IInv
    <2> QED BY <1>3, <1>4, <2>1 DEF Later
  <1>6. worker' = [c \in Callers |-> worker'[c]] /\ \A c \in Callers : worker'[c] = worker[c]
    BY <1>4 DEF IInv, WorkInv
  <1>7. WorkInv'
    BY <1>3, <1>5, <1>6, Others DEF IInv
  <1> QED BY <1>3, <1>4, <1>7, TablesStay DEF IInv

-----------------------------------------------------------------------------
(* Steps that write items and missions.                                    *)

LEMMA Writes ==
    ASSUME IInv, PacketInv', ItemInv', MissionInv', RestInv', Later, UNCHANGED cycles,
           NEW c \in Callers, NEW w, Sound(w, items, released, cycles),
           worker' = [worker EXCEPT ![c] = w]
    PROVE  IInv' /\ Ledgers
  <1>1. CyclesInv'
    BY TablesStay
  <1>2. Sound(w, items', released', cycles')
    BY <1>1, SoundStays DEF IInv
  <1>3. WorkInv'
    BY <1>1, <1>2, OneMoves DEF IInv
  <1> QED BY <1>1, <1>3, LedgersStay DEF IInv

(* One row of the table of items is written.                               *)
LEMMA RowWritten ==
    ASSUME IInv, NEW i \in Items, NEW row \in Row, Consistent(i, row),
           items[i].state # "absent" => row.state # "absent",
           items' = [items EXCEPT ![i] = row], UNCHANGED <<released, cycles>>
    PROVE  ItemInv' /\ Later
  <1>1. items \in [Items -> Row]
    BY DEF IInv, ItemInv
  <1>2. /\ items' \in [Items -> Row]
        /\ \A j \in Items : items'[j] = IF j = i THEN row ELSE items[j]
    BY <1>1
  <1>3. ItemInv'
    BY <1>2 DEF IInv, ItemInv, Consistent
  <1>4. \A p \in Planes : Len(cycles[p]) \in Nat
    BY CycleLengths DEF IInv
  <1>5. Later
    BY <1>2, <1>4 DEF Later
  <1> QED BY <1>3, <1>5

(* A packet is folded: the flag it carried when it was read is written,    *)
(* and an item without it is one the inbox has left to the Factory.        *)
LEMMA UpsertStep ==
    ASSUME IInv, NEW c \in Callers, Upsert(c), RestInv'
    PROVE  IInv' /\ Ledgers
  <1>1. worker[c] \in Invocations /\ Sound(worker[c], items, released, cycles)
    BY Mine
  <1>2. PICK fold \in worker[c].batch :
          /\ items' = Upserted(worker[c].plane, fold.item, fold.packet)
          /\ worker' = [worker EXCEPT
               ![c].batch = @ \ {fold},
               ![c].at = IF worker[c].batch = {fold} THEN Folding(c) ELSE "upsert"]
    BY DEF Upsert
  <1> DEFINE i == fold.item
             p == fold.packet
             plane == worker[c].plane
             state == Folded(items[i], p)
             was == items[i]
             put == [was EXCEPT !.state = state, !.claimant = None, !.live = FALSE]
             kept == [was EXCEPT !.ownerOnly = p.ownerOnly, !.kind = plane]
             row == [put EXCEPT !.ownerOnly = p.ownerOnly, !.kind = plane]
  <1>3. /\ i \in Items /\ p \in Packets /\ plane \in Planes
        /\ ~p.ownerOnly => i \in released
    BY <1>1 DEF Sound, Invocations, Folds
  <1>4. was \in Row /\ items \in [Items -> Row] /\ Consistent(i, was)
    BY <1>3 DEF IInv, ItemInv
  <1>5. state \in ItemStates \ {"absent"}
    BY <1>4 DEF Folded, ItemStates, Row
  <1> HIDE DEF state
  <1>6. \/ was.state = state /\ items' = [items EXCEPT ![i] = kept]
        \/ items' = [items EXCEPT ![i] = row]
    <2>1. \/ Put(i, state) = items /\ was.state = state
          \/ Put(i, state) = [items EXCEPT ![i] = put]
      BY <1>3, <1>4 DEF Put
    <2>2. items' = [Put(i, state) EXCEPT ![i].ownerOnly = p.ownerOnly, ![i].kind = plane]
      BY <1>2 DEF Upserted, state
    <2> QED BY <1>3, <1>4, <2>1, <2>2
  <1>7. /\ row \in Row /\ row.state = state /\ row.live = FALSE
        /\ row.ownerOnly = p.ownerOnly
    BY <1>3, <1>4, <1>5 DEF Row, Names, Packets
  <1>8. /\ kept \in Row /\ kept.state = was.state /\ kept.live = was.live
        /\ kept.ownerOnly = p.ownerOnly
    BY <1>3, <1>4 DEF Row, Packets
  <1>9. Consistent(i, row) /\ row.state # "absent"
    BY <1>3, <1>5, <1>7 DEF Consistent
  <1>10. was.state = state => Consistent(i, kept) /\ kept.state # "absent"
    BY <1>3, <1>4, <1>5, <1>8 DEF Consistent
  <1>11. UNCHANGED <<packets, released, missions, cycles>>
    BY DEF Upsert
  <1>12. ItemInv' /\ Later
    BY <1>3, <1>6, <1>7, <1>8, <1>9, <1>10, <1>11, RowWritten
  <1> DEFINE at == IF worker[c].batch = {fold} THEN Folding(c) ELSE "upsert"
             w == [worker[c] EXCEPT !.batch = worker[c].batch \ {fold}, !.at = at]
  <1>13. at \in Places /\ at \notin Holding /\ at # "submit" /\ at # "away"
    BY DEF Folding, Places, Holding
  <1>14. worker' = [worker EXCEPT ![c] = w] /\ worker[c].at = "upsert"
    BY <1>2, Mine DEF Upsert, At
  <1> HIDE DEF at
  <1>15. /\ w \in Invocations /\ w.at = at /\ w.cycle = worker[c].cycle
         /\ w.plane = worker[c].plane /\ w.batch \subseteq worker[c].batch
         /\ w.mark = worker[c].mark /\ w.todo = worker[c].todo
    BY <1>1, <1>13 DEF Invocations
  <1> HIDE DEF w
  <1>16. Sound(w, items, released, cycles)
    BY <1>1, <1>13, <1>14, <1>15 DEF Sound
  <1>17. PacketInv' /\ MissionInv'
    BY <1>11, TablesStay
  <1> QED BY <1>11, <1>12, <1>14, <1>16, <1>17, Writes

LEMMA MarkStep ==
    ASSUME IInv, NEW c \in Callers, Mark(c), RestInv'
    PROVE  IInv' /\ Ledgers
  <1>1. worker[c] \in Invocations /\ Sound(worker[c], items, released, cycles)
    BY Mine
  <1>2. PICK i : i = Min(worker[c].todo)
    OBVIOUS
  <1>3. /\ worker[c].todo \in SUBSET Items /\ worker[c].mark # None /\ i \in Items
        /\ worker[c].mark \in ItemStates \ {"absent"} /\ items[i].state # "absent"
        /\ worker[c].at \in {"reconcile", "settle"}
    <2>1. /\ worker[c].todo \in SUBSET Items /\ worker[c].todo # {}
          /\ worker[c].mark # None /\ worker[c].mark \in ItemStates \union {None}
      BY <1>1 DEF Invocations, Mark, Reconciling
    <2> QED BY <1>1, <1>2, <2>1, FirstIsOne DEF Sound
  <1>4. items' = Put(i, worker[c].mark) /\ UNCHANGED <<packets, released, missions, cycles>>
    BY <1>2 DEF Mark
  <1>5. ItemInv' /\ Later
    BY <1>3, <1>4, PutKeeps
  <1> DEFINE w == [worker[c] EXCEPT !.mark = None, !.todo = worker[c].todo \ {i}]
  <1>6. worker' = [worker EXCEPT ![c] = w]
    BY <1>2, Mine DEF Mark
  <1>7. /\ w \in Invocations /\ w.at = worker[c].at /\ w.cycle = worker[c].cycle
        /\ w.plane = worker[c].plane /\ w.batch = worker[c].batch /\ w.mark = None
    BY <1>1, <1>3 DEF Invocations
  <1> HIDE DEF w
  <1>8. Sound(w, items, released, cycles)
    BY <1>1, <1>3, <1>7 DEF Sound, Holding
  <1> QED BY <1>4, <1>5, <1>6, <1>8, TablesStay, Writes

(* An item is written by who holds it.                                     *)
LEMMA HolderStep ==
    ASSUME IInv, NEW c \in Callers, Claim(c) \/ MarkOwner(c) \/ BindItem(c), RestInv'
    PROVE  IInv' /\ Ledgers
  <1>1. worker[c] \in Invocations /\ Sound(worker[c], items, released, cycles)
    BY Mine
  <1>2. worker[c].at \in Holding
    BY DEF Claim, MarkOwner, BindItem, At, Holding
  <1>3. PICK i \in Items : i = worker[c].item /\ items[i].state # "absent"
    BY <1>1, <1>2 DEF Sound
  <1>4. items[i] \in Row /\ items \in [Items -> Row] /\ Consistent(i, items[i])
    BY DEF IInv, ItemInv
  <1>5. UNCHANGED <<packets, released, missions, cycles>>
    BY DEF Claim, MarkOwner, BindItem
  <1>6. ItemInv' /\ Later
    <2>1. CASE Claim(c)
      <3> DEFINE row == [items[i] EXCEPT !.state = "claimed", !.claimant = NameOf[c],
                                         !.live = TRUE]
      <3>1. row \in Row /\ row.state = "claimed" /\ Consistent(i, row)
        BY <1>3, <1>4 DEF Row, Names, ItemStates, Consistent
      <3>2. UNCHANGED items \/ items' = [items EXCEPT ![i] = row]
        BY <1>3, <1>4, <2>1 DEF Claim, Claimed
      <3>3. CASE UNCHANGED items
        BY <1>5, <3>3, TablesStay
      <3> QED BY <1>5, <3>1, <3>2, <3>3, RowWritten
    <2>2. CASE MarkOwner(c)
      <3>1. items' = Put(i, "owner_required") /\ "owner_required" \in ItemStates \ {"absent"}
        BY <1>3, <2>2 DEF MarkOwner, ItemStates
      <3> QED BY <1>3, <1>5, <3>1, PutKeeps
    <2>3. CASE BindItem(c)
      <3> DEFINE put == [items[i] EXCEPT !.state = "admitted", !.claimant = None, !.live = FALSE]
                 kept == [items[i] EXCEPT !.bound = TRUE]
                 row == [put EXCEPT !.bound = TRUE]
      <3>1. \/ Put(i, "admitted") = items
            \/ Put(i, "admitted") = [items EXCEPT ![i] = put]
        BY <1>4 DEF Put
      <3>2. items' = [items EXCEPT ![i] = kept] \/ items' = [items EXCEPT ![i] = row]
        BY <1>3, <1>4, <2>3, <3>1 DEF BindItem, Admitted
      <3>3. row \in Row /\ kept \in Row /\ row.state # "absent" /\ kept.state # "absent"
        BY <1>3, <1>4 DEF Row, Names, ItemStates
      <3>4. Consistent(i, row) /\ Consistent(i, kept)
        BY <1>3, <1>4 DEF Consistent, Row
      <3> QED BY <1>5, <3>2, <3>3, <3>4, RowWritten
    <2> QED BY <2>1, <2>2, <2>3
  <1>7. PICK at \in Places \ {"submit"} :
          worker' = [worker EXCEPT ![c] = [worker[c] EXCEPT !.at = at]]
    <2>1. {"owner", "admit", "idle", "work", "narrow"} \subseteq Places \ {"submit"}
      BY DEF Places
    <2> QED BY <2>1, Mine DEF Claim, MarkOwner, BindItem, Goes, Held
  <1>8. Sound([worker[c] EXCEPT !.at = at], items, released, cycles)
    BY <1>2, Onward
  <1> QED BY <1>5, <1>6, <1>7, <1>8, TablesStay, Writes

(* A mission is written that is there, or of an item that was released.    *)
LEMMA MissionWritten ==
    ASSUME IInv, NEW i \in Items, NEW row \in MissionRow,
           row.state # "absent" => missions[i].state # "absent" \/ i \in released,
           missions' = [missions EXCEPT ![i] = row], UNCHANGED released
    PROVE  MissionInv'
  <1>1. missions \in [Items -> MissionRow]
    BY DEF IInv, MissionInv
  <1> QED BY <1>1 DEF IInv, MissionInv, OwnerItemsHeld

LEMMA SubmitStep ==
    ASSUME IInv, NEW c \in Callers, Submit(c), RestInv'
    PROVE  IInv' /\ Ledgers
  <1>1. worker[c] \in Invocations /\ Sound(worker[c], items, released, cycles)
    BY Mine
  <1>2. worker[c].at = "submit" /\ worker[c].at \in Holding
    BY DEF Submit, At, Holding
  <1>3. PICK i \in Items : i = worker[c].item /\ i \in released
    BY <1>1, <1>2 DEF Sound
  <1>4. UNCHANGED <<packets, released, items, cycles>>
    BY DEF Submit
  <1>5. MissionInv'
    <2> DEFINE row == [missions[i] EXCEPT !.state = "admitted"]
    <2>1. row \in MissionRow /\ missions \in [Items -> MissionRow]
      BY DEF IInv, MissionInv, MissionRow, MissionStates
    <2>2. UNCHANGED missions \/ missions' = [missions EXCEPT ![i] = row]
      BY <1>3, <2>1 DEF Submit
    <2> HIDE DEF row
    <2> QED BY <1>3, <1>4, <2>1, <2>2, MissionWritten, TablesStay
  <1>6. worker' = [worker EXCEPT ![c] = [worker[c] EXCEPT !.at = "bind item"]]
    BY Mine DEF Submit, Goes
  <1>7. Sound([worker[c] EXCEPT !.at = "bind item"], items, released, cycles)
    <2>1. "bind item" \in Places \ {"submit"}
      BY DEF Places
    <2> QED BY <1>2, <2>1, Onward
  <1> QED BY <1>4, <1>5, <1>6, <1>7, TablesStay, Writes

LEMMA AdvancedStates ==
    ASSUME NEW state \in MissionStates, NEW s \in Advanced(state)
    PROVE  s \in MissionStates /\ (s # "absent" => state # "absent")
  BY DEF Advanced, MissionStates

LEMMA WorkStep ==
    ASSUME IInv, NEW c \in Callers, Work(c), RestInv'
    PROVE  IInv' /\ Ledgers
  <1>1. worker[c] \in Invocations /\ Sound(worker[c], items, released, cycles)
    BY Mine
  <1>2. worker[c].at = "work" /\ worker[c].at \in Holding
    BY DEF Work, At, Holding
  <1>3. PICK i \in Items : i = worker[c].item
    BY <1>1, <1>2 DEF Sound
  <1>4. UNCHANGED <<packets, released, items, cycles>>
    BY DEF Work
  <1>5. missions[i] \in MissionRow /\ missions \in [Items -> MissionRow]
    BY DEF IInv, MissionInv
  <1>6. MissionInv'
    <2>1. CASE UNCHANGED missions
      BY <1>4, <2>1, TablesStay
    <2>2. CASE \E s \in Advanced(missions[i].state) : missions' = [missions EXCEPT ![i].state = s]
      <3>1. PICK s \in Advanced(missions[i].state) : missions' = [missions EXCEPT ![i].state = s]
        BY <2>2
      <3> DEFINE row == [missions[i] EXCEPT !.state = s]
      <3>2. s \in MissionStates /\ (s # "absent" => missions[i].state # "absent")
        BY <1>5, AdvancedStates DEF MissionRow
      <3>3. row \in MissionRow /\ row.state = s /\ missions' = [missions EXCEPT ![i] = row]
        BY <1>5, <3>1, <3>2 DEF MissionRow
      <3> HIDE DEF row
      <3> QED BY <1>4, <3>2, <3>3, MissionWritten
    <2> QED BY <1>3, <2>1, <2>2 DEF Work
  <1> DEFINE u == [worker[c] EXCEPT !.at = "settle", !.todo = {i}, !.item = None]
             v == [worker[c] EXCEPT !.at = "settle", !.item = None]
  <1>7. worker' = [worker EXCEPT ![c] = u] \/ worker' = [worker EXCEPT ![c] = v]
    BY <1>3, Mine DEF Work
  <1>8. worker[c].mark = None /\ worker[c].cycle > 0
    BY <1>1, <1>2 DEF Sound
  <1>9. /\ u \in Invocations /\ u.at = "settle" /\ u.cycle = worker[c].cycle
        /\ u.plane = worker[c].plane /\ u.batch = worker[c].batch /\ u.mark = worker[c].mark
    BY <1>1 DEF Invocations, Places
  <1>10. /\ v \in Invocations /\ v.at = "settle" /\ v.cycle = worker[c].cycle
         /\ v.plane = worker[c].plane /\ v.batch = worker[c].batch /\ v.mark = worker[c].mark
    BY <1>1 DEF Invocations, Places
  <1> HIDE DEF u, v
  <1>11. Sound(u, items, released, cycles)
    BY <1>1, <1>8, <1>9 DEF Sound, Holding
  <1>12. Sound(v, items, released, cycles)
    BY <1>1, <1>8, <1>10 DEF Sound, Holding
  <1>13. PacketInv' /\ ItemInv' /\ Later
    BY <1>4, TablesStay
  <1> QED BY <1>4, <1>6, <1>7, <1>11, <1>12, <1>13, Writes

LEMMA NarrowStep ==
    ASSUME IInv, NEW c \in Callers, Narrow(c)
    PROVE  IInv' /\ Ledgers
  <1>1. worker[c] \in Invocations /\ Sound(worker[c], items, released, cycles)
    BY Mine
  <1>2. worker[c].at \in Holding
    BY DEF Narrow, At, Holding
  <1>3. PICK i \in Items : i = worker[c].item
    BY <1>1, <1>2 DEF Sound
  <1>4. UNCHANGED <<packets, released, items, cycles>> /\ RestInv'
    BY DEF Narrow, IInv, RestInv
  <1>5. MissionInv'
    <2> DEFINE row == [missions[i] EXCEPT !.narrowed = TRUE]
    <2>1. missions[i] \in MissionRow /\ missions \in [Items -> MissionRow]
      BY DEF IInv, MissionInv
    <2>2. row \in MissionRow /\ row.state = missions[i].state
          /\ missions' = [missions EXCEPT ![i] = row]
      BY <1>3, <2>1 DEF Narrow, MissionRow
    <2> HIDE DEF row
    <2> QED BY <1>4, <2>2, MissionWritten
  <1>6. worker' = [worker EXCEPT ![c] = [worker[c] EXCEPT !.at = "work"]]
    BY Mine DEF Narrow, Goes
  <1>7. Sound([worker[c] EXCEPT !.at = "work"], items, released, cycles)
    <2>1. "work" \in Places \ {"submit"}
      BY DEF Places
    <2> QED BY <1>2, <2>1, Onward
  <1> QED BY <1>4, <1>5, <1>6, <1>7, TablesStay, Writes

-----------------------------------------------------------------------------
(* Nobody's step: the inbox, other processes, time, a registration.        *)

LEMMA Elsewheres ==
    ASSUME IInv, PacketInv', ItemInv', MissionInv', RestInv', Later, UNCHANGED <<cycles, worker>>
    PROVE  IInv' /\ Ledgers
  <1>1. CyclesInv'
    BY TablesStay
  <1>2. worker' = [c \in Callers |-> worker'[c]] /\ \A c \in Callers : worker'[c] = worker[c]
    BY DEF IInv, WorkInv
  <1>3. WorkInv'
    BY <1>1, <1>2, Others DEF IInv
  <1> QED BY <1>1, <1>3, LedgersStay DEF IInv

LEMMA WorldStep ==
    ASSUME IInv, World, RestInv'
    PROVE  IInv' /\ Ledgers
  <1>1. ASSUME NEW i \in Items, NEW p \in Packets, Edit(i, p) PROVE IInv' /\ Ledgers
    <2>1. /\ packets' = [packets EXCEPT ![i] = p] /\ UNCHANGED <<items, missions, cycles, worker>>
          /\ released' = IF p.ownerOnly THEN released ELSE released \union {i}
      BY <1>1 DEF Edit
    <2>2. released \subseteq released' /\ released' \subseteq Items
      BY <2>1 DEF IInv, PacketInv
    <2>3. PacketInv'
      BY <2>1, <2>2 DEF IInv, PacketInv
    <2>4. ItemInv' /\ MissionInv'
      BY <2>1, <2>2 DEF IInv, ItemInv, MissionInv, Consistent, OwnerItemsHeld
    <2>5. \A q \in Planes : Len(cycles[q]) \in Nat
      BY CycleLengths DEF IInv
    <2>6. Later
      BY <2>1, <2>2, <2>5 DEF Later
    <2> QED BY <2>1, <2>3, <2>4, <2>6, Elsewheres
  <1>2. ASSUME NEW i \in Items, Elsewhere(i) PROVE IInv' /\ Ledgers
    <2>1. PICK s \in Advanced(missions[i].state) : missions' = [missions EXCEPT ![i].state = s]
      BY <1>2 DEF Elsewhere
    <2>2. missions[i] \in MissionRow /\ missions \in [Items -> MissionRow]
      BY DEF IInv, MissionInv
    <2> DEFINE row == [missions[i] EXCEPT !.state = s]
    <2>3. s \in MissionStates /\ (s # "absent" => missions[i].state # "absent")
      BY <2>2, AdvancedStates DEF MissionRow
    <2>4. row \in MissionRow /\ row.state = s /\ missions' = [missions EXCEPT ![i] = row]
      BY <2>1, <2>2, <2>3 DEF MissionRow
    <2> HIDE DEF row
    <2>5. UNCHANGED <<packets, released, items, cycles, worker>>
      BY <1>2 DEF Elsewhere
    <2>6. MissionInv'
      BY <2>3, <2>4, <2>5, MissionWritten
    <2> QED BY <2>5, <2>6, TablesStay, Elsewheres
  <1>3. ASSUME NEW i \in Items, ClaimExpires(i) PROVE IInv' /\ Ledgers
    <2> DEFINE row == [items[i] EXCEPT !.live = FALSE]
    <2>1. items[i] \in Row /\ items \in [Items -> Row] /\ Consistent(i, items[i])
      BY DEF IInv, ItemInv
    <2>2. items' = [items EXCEPT ![i] = row] /\ row \in Row /\ row.state = items[i].state
          /\ Consistent(i, row)
      BY <1>3, <2>1 DEF ClaimExpires, Row, Consistent
    <2> HIDE DEF row
    <2>3. UNCHANGED <<packets, released, missions, cycles, worker>>
      BY <1>3 DEF ClaimExpires
    <2>4. ItemInv' /\ Later
      BY <2>2, <2>3, RowWritten
    <2> QED BY <2>3, <2>4, TablesStay, Elsewheres
  <1> QED BY <1>1, <1>2, <1>3 DEF World

LEMMA RegisterStep ==
    ASSUME IInv, Register
    PROVE  IInv' /\ Ledgers
  <1>1. UNCHANGED <<packets, released, items, missions, cycles, worker>>
    BY DEF Register, intakeVars
  <1>2. Digest \in [Inbox["management"] -> Packets]
    <2>1. Inbox["management"] \subseteq Items
      BY IntakeAssumption DEF Planes
    <2> QED BY <2>1 DEF Digest, IInv, PacketInv
  <1>3. RestInv'
    BY <1>2 DEF Register, IInv, RestInv
  <1> QED BY <1>1, <1>3, TablesStay, Elsewheres

-----------------------------------------------------------------------------
(* The theorems.                                                           *)

LEMMA InitIInv == Init => IInv /\ cycles = [p \in Planes |-> <<>>]
  <1> SUFFICES ASSUME Init PROVE IInv /\ cycles = [p \in Planes |-> <<>>]
    OBVIOUS
  <1> USE DEF Init, InitIntake
  <1>1. PacketInv
    BY IntakeAssumption DEF PacketInv
  <1>2. ItemInv
    BY DEF ItemInv, NoItem, Row, Names, ItemStates, Consistent
  <1>3. MissionInv
    BY DEF MissionInv, MissionRow, MissionStates, OwnerItemsHeld
  <1>4. CyclesInv
    BY EmptySeq DEF CyclesInv
  <1>5. WorkInv
    <2>1. Sound(Away, items, released, cycles)
      BY <1>4, AwayIsSound
    <2>2. worker = [c \in Callers |-> Away]
      OBVIOUS
    <2> QED BY <2>1, <2>2 DEF WorkInv
  <1>6. RestInv
    BY DEF RestInv
  <1> QED BY <1>1, <1>2, <1>3, <1>4, <1>5, <1>6 DEF IInv

LEMMA Step ==
    ASSUME IInv, [Next]_vars
    PROVE  IInv' /\ Ledgers
  <1>1. ASSUME NEW c \in Callers, ManagementStep(c) PROVE IInv' /\ Ledgers
    <2>1. CASE Begin(c, "management") /\ unmoved' = {} /\ UNCHANGED manifest
      <3>1. "management" \in Planes /\ RestInv'
        BY <2>1 DEF Planes, IInv, RestInv
      <3> QED BY <2>1, <3>1, BeginStep
    <2>2. CASE BindSource(c) \/ Snapshot(c) \/ Judged(c)
      BY <2>2, ManagerWalks
    <2>3. CASE Choose(c)
      <3>1. RestInv'
        BY <2>3, TablesStay DEF Choose
      <3> QED BY <2>3, <3>1, TakeStep
    <2>4. CASE Wait(c)
      <3>1. RestInv'
        BY <2>4 DEF Wait, IInv, RestInv
      <3> QED BY <2>4, <3>1, CloseSteps
    <2>5. CASE Narrow(c)
      BY <2>5, NarrowStep
    <2> QED BY <1>1, <2>1, <2>2, <2>3, <2>4, <2>5 DEF ManagementStep
  <1>2. ASSUME NEW c \in Callers, IntakeStep(c), VersionMoves(unmoved \ {c}), UNCHANGED manifest
        PROVE  IInv' /\ Ledgers
    <2>1. RestInv'
      <3>1. unmoved \ {c} \in SUBSET Callers
        BY DEF IInv, RestInv
      <3> QED BY <1>2, <3>1, VersionKept
    <2>2. CASE Begin(c, "intake")
      BY <2>1, <2>2, BeginStep DEF Planes
    <2>3. CASE Abandon(c) \/ EndIdle(c) \/ EndCompleted(c)
      BY <2>1, <2>3, CloseSteps
    <2>4. CASE Die(c) \/ ReadSource(c) \/ Upsert(c) \/ List(c) \/ ReadMission(c) \/ Mark(c)
      BY <2>1, <2>4, DieStep, ReadSourceStep, UpsertStep, ListStep, ReadMissionStep, MarkStep
    <2>5. CASE Pick(c) \/ Claim(c) \/ MarkOwner(c) \/ Admit(c)
      BY <2>1, <2>5, TakeStep, HolderStep, AdmitStep
    <2>6. CASE Submit(c) \/ BindItem(c) \/ Work(c)
      BY <2>1, <2>6, SubmitStep, HolderStep, WorkStep
    <2> QED BY <1>2, <2>2, <2>3, <2>4, <2>5, <2>6 DEF IntakeStep
  <1>3. CASE World /\ VersionMoves(unmoved) /\ UNCHANGED manifest
    <2>1. RestInv'
      <3>1. unmoved \in SUBSET Callers
        BY DEF IInv, RestInv
      <3> QED BY <1>3, <3>1, VersionKept
    <2> QED BY <1>3, <2>1, WorldStep
  <1>4. CASE Register \/ ReadStatus
    BY <1>4, RegisterStep, ReadStatusStep
  <1>5. CASE UNCHANGED vars
    BY <1>5, TablesStay, LedgersStay DEF vars, IInv
  <1> QED BY <1>1, <1>2, <1>3, <1>4, <1>5 DEF Next

(* The strengthened invariant: items, invocations and released items agree *)
(* as the head of this module says.                                        *)
THEOREM ManagementInvariance == Spec => []IInv
  <1>1. Init => IInv
    BY InitIInv
  <1>2. IInv /\ [Next]_vars => IInv'
    BY Step
  <1> QED BY <1>1, <1>2, PTL DEF Spec

(* Packets, items, missions and invocations keep their types.              *)
THEOREM IntakeTyping == Spec => []IntakeTypeOK
  <1>1. ASSUME IInv PROVE IntakeTypeOK
    <2>1. ASSUME NEW c \in Callers
          PROVE  /\ worker[c].todo \subseteq Items
                 /\ worker[c].item \in Items \union {None}
                 /\ worker[c].mark \in ItemStates \union {None}
                 /\ worker[c].cycle \in 0..Len(cycles[worker[c].plane])
      <3>1. worker[c] \in Invocations /\ worker[c].cycle <= Len(cycles[worker[c].plane])
        BY <1>1, Mine DEF Sound
      <3>2. Len(cycles[worker[c].plane]) \in Nat
        BY <1>1, <3>1, CycleLengths DEF Invocations, IInv
      <3> QED BY <3>1, <3>2 DEF Invocations
    <2> QED BY <1>1, <2>1 DEF IInv, PacketInv, ItemInv, MissionInv, RestInv, Consistent, Row,
               Names, MissionRow, IntakeTypeOK
  <1> QED BY <1>1, ManagementInvariance, PTL

(* However a packet is edited while cycles of both kinds fold, admit and   *)
(* submit it, no mission comes of an item the inbox never left to the      *)
(* Factory.                                                                *)
THEOREM OwnerItemsStay == Spec => []OwnerItemsHeld
  <1>1. IInv => OwnerItemsHeld
    BY DEF IInv, MissionInv
  <1> QED BY <1>1, ManagementInvariance, PTL

(* work_intake_cycles and management_cycles implement CycleLedger: one     *)
(* cycle of either is open at most and each is settled once, by itself or  *)
(* by who finds its lease run out, however many are under way.             *)
THEOREM IntakeImplementsLedger == Spec => CyclesSettledOnce
  <1>1. Init => IntakeLedger!LedgerInit /\ ManagementLedger!LedgerInit
    BY InitIInv DEF IntakeLedger!LedgerInit, ManagementLedger!LedgerInit, Planes
  <1>2. ASSUME IInv, [Next]_vars
        PROVE  /\ [IntakeLedger!LedgerNext]_(cycles["intake"])
               /\ [ManagementLedger!LedgerNext]_(cycles["management"])
    <2>1. Ledgers /\ "intake" \in Planes /\ "management" \in Planes
      BY <1>2, Step DEF Planes
    <2>2. Begun("intake") => IntakeLedger!Begin
      BY DEF Begun, Recovery, IsOpenCycle, IntakeLedger!Begin, IntakeLedger!IsOpen,
             IntakeLedger!Open
    <2>3. Begun("management") => ManagementLedger!Begin
      BY DEF Begun, Recovery, IsOpenCycle, ManagementLedger!Begin, ManagementLedger!IsOpen,
             ManagementLedger!Open
    <2>4. SettledOne("intake") => IntakeLedger!Settle
      BY DEF SettledOne, Closings, Outcomes, IsOpenCycle, IntakeLedger!Settle,
             IntakeLedger!IsOpen, IntakeLedger!Open
    <2>5. SettledOne("management") => ManagementLedger!Settle
      BY DEF SettledOne, Closings, Outcomes, IsOpenCycle, ManagementLedger!Settle,
             ManagementLedger!IsOpen, ManagementLedger!Open
    <2> QED BY <2>1, <2>2, <2>3, <2>4, <2>5
            DEF Ledgers, IntakeLedger!LedgerNext, ManagementLedger!LedgerNext
  <1> QED
    BY <1>1, <1>2, ManagementInvariance, PTL
    DEF Spec, CyclesSettledOnce, IntakeLedger!LedgerSpec, ManagementLedger!LedgerSpec
=============================================================================
