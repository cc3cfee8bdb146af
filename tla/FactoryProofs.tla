--------------------------- MODULE FactoryProofs ---------------------------
(***************************************************************************)
(* For any owners, portfolios and bounds: the Factory holds one live       *)
(* grant, and the portfolio is strictly serial.                            *)
(*                                                                         *)
(* Neither is inductive.  A start that is about to insert its grant read   *)
(* long ago that nothing was live; what makes the answer still good is     *)
(* the numbering of the grants: the numbers in use have no gap, so the row *)
(* it may insert is the next one, and everything before that row was       *)
(* revoked, which nobody takes back (Entitled).  A handoff that is about   *)
(* to submit read the portfolio long ago; the answer is good as long as    *)
(* the attempt it names is new (Due).                                      *)
(***************************************************************************)
EXTENDS FactoryProperties, SequenceTheorems, WellFoundedInduction, TLAPS

Verbs == {"start", "apply", "stop", "run", "cycle", "revoke", "suspend", None}
Modes == {"busy", "quiet", "held", "after", None}

Held == [at : Points, verb : Verbs, ref : Refs \union {None}, created : BOOLEAN,
         mode : Modes, slot : 0..Slots, attempt : 0..MaxAttempts, left : Nat]

Portfolios == [1..Slots -> Seq(Missions)]

(* What a process w rests on, of the grants g.                             *)
Entitled(w, g) ==
    w.at \in {"check", "insert"} =>
        /\ w.ref \in Refs
        /\ w.ref \in FactoryRefs =>
             /\ \A s \in FactoryRefs : s < w.ref => g[s].known
             /\ w.at = "insert" /\ ~g[w.ref].known =>
                  \A s \in FactoryRefs : s < w.ref => g[s].revoked

(* A slot settled for good, and a slot whose attempts all went unserved.   *)
Final(a, t) ==
    /\ a[t] # <<>> /\ a[t][Len(a[t])].state \in SettledStates
    /\ a[t][Len(a[t])].state = "unserved" => Len(a[t]) >= MaxAttempts

Due(a, s, i) ==
    \/ i <= Len(a[s])
    \/ /\ i = Len(a[s]) + 1
       /\ \A j \in 1..Len(a[s]) : a[s][j].state = "unserved"
       /\ \A t \in 1..(s - 1) : Final(a, t)

(* What a process w rests on, of the portfolio a.                          *)
Assigned(w, a) ==
    /\ w.at \in {"working", "submit"} => w.slot \in 1..Slots /\ w.attempt \in 1..MaxAttempts
    /\ w.at = "working" => w.attempt <= Len(a[w.slot])
    /\ w.at = "submit" => Due(a, w.slot, w.attempt)

Sound(w, g, a) == w \in Held /\ Entitled(w, g) /\ Assigned(w, a)

ProcInv ==
    /\ proc = [p \in Procs |-> proc[p]]
    /\ \A p \in Procs : Sound(proc[p], grants, attempts)

(* The numbers in use have no gap, and of these the last alone may live.   *)
GrantInv ==
    /\ grants \in [Refs -> Grants]
    /\ granted \in Seq(Refs)
    /\ \A i \in DOMAIN granted : grants[granted[i]].known
    /\ \A r \in Refs : grants[r].known => \E i \in DOMAIN granted : granted[i] = r
    /\ \A r, s \in FactoryRefs : grants[r].known /\ s < r => grants[s].known /\ grants[s].revoked

Serial(a) ==
    \A s \in 1..Slots :
        a[s] # <<>> => /\ \A i \in 1..(Len(a[s]) - 1) : a[s][i].state = "unserved"
                       /\ \A t \in 1..(s - 1) : Final(a, t)

SlotInv ==
    /\ attempts \in Portfolios
    /\ \A s \in 1..Slots : Len(attempts[s]) <= MaxAttempts
    /\ Serial(attempts)

RestInv == /\ loaded \in BOOLEAN /\ control \in ControlStates
           /\ moves \in 0..MaxMoves /\ faults \in 0..MaxFaults

IInv == GrantInv /\ SlotInv /\ ProcInv /\ RestInv

-----------------------------------------------------------------------------
(* Greatest and least elements.                                            *)

LEMMA MinIsOne ==
    ASSUME NEW S \in SUBSET Nat, S # {}
    PROVE  Min(S) \in S /\ \A y \in S : Min(S) <= y
  <1>1. \E x \in S : \A y \in S : ~ (<<y, x>> \in OpToRel(<, Nat))
    BY NatLessThanWellFounded, WFMin
  <1>2. PICK x \in S : \A y \in S : ~ (y < x)
    BY <1>1 DEF OpToRel
  <1>3. \A y \in S : x <= y
    BY <1>2
  <1> QED BY <1>3 DEF Min

LEMMA MaxIsOne ==
    ASSUME NEW n \in Nat, NEW S \in SUBSET (0..n), S # {}
    PROVE  Max(S) \in S /\ \A y \in S : y <= Max(S)
  <1> DEFINE left == {n - t : t \in S}
  <1>1. left \in SUBSET Nat /\ left # {}
    <2>1. \A t \in S : t \in 0..n
      OBVIOUS
    <2>2. \A t \in S : n - t \in Nat
      BY <2>1
    <2> QED BY <2>2
  <1>2. \E m \in left : \A k \in left : ~ (<<k, m>> \in OpToRel(<, Nat))
    BY <1>1, NatLessThanWellFounded, WFMin
  <1>3. PICK m \in left : \A k \in left : ~ (k < m)
    BY <1>1, <1>2 DEF OpToRel
  <1>4. PICK t \in S : m = n - t
    OBVIOUS
  <1>5. ASSUME NEW u \in S PROVE t >= u
    <2>1. ~ (n - u < n - t)
      BY <1>3, <1>4
    <2> QED BY <2>1
  <1>6. \E x \in S : \A y \in S : x >= y
    BY <1>5
  <1>7. Max(S) \in S /\ \A y \in S : Max(S) >= y
    BY <1>6 DEF Max
  <1> QED BY <1>7

-----------------------------------------------------------------------------
(* Grants.                                                                 *)

LEMMA RefKinds ==
    /\ FactoryRefs \subseteq Refs /\ FactoryRefs \subseteq Nat \ {0}
    /\ OtherRefs \subseteq Refs /\ \A r \in OtherRefs : r \notin FactoryRefs
    /\ None \notin Refs
    /\ \A r \in Refs : r \in FactoryRefs \/ r \in OtherRefs
  BY ShiftAssumption DEF FactoryRefs, Refs

LEMMA LiveIsGranted ==
    ASSUME GrantInv
    PROVE  /\ LiveGrant \in Refs \union {None}
           /\ LiveGrant # None => grants[LiveGrant].known
           /\ LiveGrant = None => \A r \in Refs : grants[r].known => grants[r].revoked
  <1> DEFINE live == {i \in DOMAIN granted : ~grants[granted[i]].revoked}
  <1>1. /\ Len(granted) \in Nat /\ DOMAIN granted = 1..Len(granted)
        /\ \A i \in DOMAIN granted : granted[i] \in Refs /\ grants[granted[i]].known
    BY LenProperties, ElementOfSeq DEF GrantInv
  <1>2. LiveGrant = IF live = {} THEN None ELSE granted[Max(live)]
    BY DEF LiveGrant
  <1>3. CASE live = {}
    <2>1. LiveGrant = None
      BY <1>2, <1>3
    <2>2. \A i \in DOMAIN granted : grants[granted[i]].revoked
      BY <1>3
    <2>3. \A r \in Refs : grants[r].known => grants[r].revoked
      BY <2>2 DEF GrantInv
    <2> QED BY <2>1, <2>3
  <1>4. CASE live # {}
    <2>1. live \in SUBSET (0..Len(granted))
      BY <1>1
    <2>2. Max(live) \in live
      BY <1>1, <1>4, <2>1, MaxIsOne
    <2>3. LiveGrant = granted[Max(live)] /\ Max(live) \in DOMAIN granted
      BY <1>2, <1>4, <2>2
    <2>4. LiveGrant \in Refs /\ grants[LiveGrant].known
      BY <1>1, <2>3
    <2> QED BY <2>4, RefKinds
  <1> QED BY <1>3, <1>4

LEMMA NextIsFree ==
    ASSUME GrantInv
    PROVE  \A s \in FactoryRefs : s < NextReference => grants[s].known
  <1> DEFINE used == {0} \union {r \in FactoryRefs : grants[r].known}
  <1>1. used \in SUBSET (0..MaxShifts) /\ MaxShifts \in Nat /\ used # {}
    BY ShiftAssumption DEF FactoryRefs
  <1>2. Max(used) \in used
    BY <1>1, MaxIsOne
  <1>3. NextReference = Max(used) + 1
    BY DEF NextReference
  <1> SUFFICES ASSUME NEW s \in FactoryRefs, s < NextReference PROVE grants[s].known
    OBVIOUS
  <1>4. s \in Nat \ {0} /\ s <= Max(used)
    BY <1>1, <1>2, <1>3, RefKinds
  <1>5. Max(used) \in FactoryRefs /\ grants[Max(used)].known
    BY <1>2, <1>4
  <1>6. s = Max(used) \/ s < Max(used)
    BY <1>1, <1>2, <1>4
  <1> QED BY <1>5, <1>6 DEF GrantInv

-----------------------------------------------------------------------------
(* What others do keeps what a process rests on.                           *)

(* What is known stays known, and what is revoked stays revoked.           *)
Grows(g, h) ==
    \A r \in Refs : g[r].known => h[r].known /\ (g[r].revoked => h[r].revoked)

LEMMA EntitledStays ==
    ASSUME NEW w, NEW g, NEW h, Grows(g, h), Entitled(w, g)
    PROVE  Entitled(w, h)
  BY RefKinds DEF Entitled, Grows

(* Missions move on, a settled one stays as it is.                         *)
Kept(a, b) ==
    /\ b \in Portfolios
    /\ \A s \in 1..Slots :
         /\ Len(b[s]) = Len(a[s])
         /\ \A i \in 1..Len(a[s]) :
              a[s][i].state \in SettledStates => b[s][i].state = a[s][i].state

LEMMA SlotRows ==
    ASSUME NEW a \in Portfolios, NEW s \in 1..Slots
    PROVE  /\ a[s] \in Seq(Missions) /\ Len(a[s]) \in Nat /\ DOMAIN a[s] = 1..Len(a[s])
           /\ a[s] = <<>> <=> Len(a[s]) = 0
           /\ \A i \in 1..Len(a[s]) : a[s][i] \in Missions
  <1>1. a[s] \in Seq(Missions)
    BY DEF Portfolios
  <1> QED BY <1>1, LenProperties, ElementOfSeq, EmptySeq

LEMMA FinalStays ==
    ASSUME NEW a \in Portfolios, NEW b, Kept(a, b), NEW t \in 1..Slots, Final(a, t)
    PROVE  Final(b, t)
  <1>1. b \in Portfolios
    BY DEF Kept
  <1>2. Len(a[t]) \in Nat \ {0} /\ Len(b[t]) = Len(a[t]) /\ b[t] # <<>>
    BY <1>1, SlotRows DEF Final, Kept
  <1>3. b[t][Len(b[t])].state = a[t][Len(a[t])].state
    BY <1>2 DEF Final, Kept
  <1> QED BY <1>2, <1>3 DEF Final

LEMMA AssignedStays ==
    ASSUME NEW a \in Portfolios, NEW b, Kept(a, b), NEW w, Assigned(w, a)
    PROVE  Assigned(w, b)
  <1>1. CASE w.at = "working"
    BY <1>1 DEF Assigned, Kept
  <1>2. CASE w.at = "submit"
    <2>1. w.slot \in 1..Slots /\ Due(a, w.slot, w.attempt)
      BY <1>2 DEF Assigned
    <2>2. Len(b[w.slot]) = Len(a[w.slot]) /\ Slots \in Nat
      BY <2>1, ShiftAssumption DEF Kept
    <2>3. \A j \in 1..Len(a[w.slot]) :
            a[w.slot][j].state = "unserved" => b[w.slot][j].state = "unserved"
      BY <2>1 DEF Kept, SettledStates
    <2>4. \A t \in 1..(w.slot - 1) : t \in 1..Slots
      BY <2>1, <2>2
    <2>5. \A t \in 1..(w.slot - 1) : Final(a, t) => Final(b, t)
      BY <2>4, FinalStays
    <2>6. Due(b, w.slot, w.attempt)
      BY <2>1, <2>2, <2>3, <2>5 DEF Due
    <2> QED BY <1>2, <2>6 DEF Assigned
  <1> QED BY <1>1, <1>2 DEF Assigned

LEMMA SerialStays ==
    ASSUME NEW a \in Portfolios, NEW b, Kept(a, b), Serial(a)
    PROVE  Serial(b)
  <1> SUFFICES ASSUME NEW s \in 1..Slots, b[s] # <<>>
               PROVE  /\ \A i \in 1..(Len(b[s]) - 1) : b[s][i].state = "unserved"
                      /\ \A t \in 1..(s - 1) : Final(b, t)
    BY DEF Serial
  <1>1. b \in Portfolios /\ Len(b[s]) = Len(a[s]) /\ Slots \in Nat
    BY ShiftAssumption DEF Kept
  <1>2. Len(a[s]) \in Nat /\ a[s] # <<>>
    BY <1>1, SlotRows
  <1>3. \A i \in 1..(Len(a[s]) - 1) : i \in 1..Len(a[s]) /\ a[s][i].state = "unserved"
    BY <1>2 DEF Serial
  <1>4. \A i \in 1..(Len(b[s]) - 1) : b[s][i].state = "unserved"
    BY <1>1, <1>3 DEF Kept, SettledStates
  <1>5. \A t \in 1..(s - 1) : t \in 1..Slots /\ Final(a, t)
    BY <1>1, <1>2 DEF Serial
  <1> QED BY <1>4, <1>5, FinalStays

-----------------------------------------------------------------------------
(* How the grants change.                                                  *)

LEMMA GrantsStay ==
    ASSUME GrantInv, UNCHANGED <<grants, granted>>
    PROVE  GrantInv' /\ Grows(grants, grants')
  BY DEF GrantInv, Grows

(* One row is suspended, resumed or revoked.                               *)
LEMMA GrantRewritten ==
    ASSUME GrantInv, UNCHANGED granted, NEW r \in Refs, NEW row \in Grants,
           row.known = grants[r].known, grants[r].revoked => row.revoked,
           grants' = [grants EXCEPT ![r] = row]
    PROVE  GrantInv' /\ Grows(grants, grants')
  <1>1. /\ grants' \in [Refs -> Grants]
        /\ \A s \in Refs : /\ grants'[s].known = grants[s].known
                           /\ grants[s].revoked => grants'[s].revoked
    BY DEF GrantInv
  <1>2. \A i \in DOMAIN granted : granted[i] \in Refs
    BY ElementOfSeq DEF GrantInv
  <1> QED BY <1>1, <1>2, RefKinds DEF GrantInv, Grows

LEMMA GrantInserted ==
    ASSUME GrantInv, NEW r \in Refs, ~grants[r].known,
           r \in FactoryRefs =>
             \A s \in FactoryRefs : s < r => grants[s].known /\ grants[s].revoked,
           grants' = Granted(r), granted' = Append(granted, r)
    PROVE  GrantInv' /\ Grows(grants, grants')
  <1>1. /\ grants' \in [Refs -> Grants] /\ grants'[r].known
        /\ \A s \in Refs : s # r => grants'[s] = grants[s]
    BY DEF GrantInv, Granted, Grants, NoGrant
  <1>2. /\ granted' \in Seq(Refs) /\ Len(granted) \in Nat
        /\ DOMAIN granted = 1..Len(granted) /\ DOMAIN granted' = 1..(Len(granted) + 1)
        /\ \A i \in DOMAIN granted : granted'[i] = granted[i] /\ granted[i] \in Refs
        /\ granted'[Len(granted) + 1] = r
    BY AppendProperties, LenProperties, ElementOfSeq DEF GrantInv
  <1>3. ASSUME NEW i \in DOMAIN granted' PROVE grants'[granted'[i]].known
    <2>1. i \in DOMAIN granted \/ i = Len(granted) + 1
      BY <1>2
    <2>2. CASE i \in DOMAIN granted
      <3>1. granted'[i] = granted[i] /\ granted[i] \in Refs /\ grants[granted[i]].known
        BY <1>2, <2>2 DEF GrantInv
      <3> QED BY <1>1, <3>1
    <2> QED BY <1>1, <1>2, <2>1, <2>2
  <1>4. ASSUME NEW s \in Refs, grants'[s].known
        PROVE  \E i \in DOMAIN granted' : granted'[i] = s
    <2>1. CASE s = r
      BY <1>2, <2>1
    <2>2. CASE s # r
      <3>1. PICK i \in DOMAIN granted : granted[i] = s
        BY <1>1, <1>4, <2>2 DEF GrantInv
      <3> QED BY <1>2, <3>1
    <2> QED BY <2>1, <2>2
  <1>5. ASSUME NEW t \in FactoryRefs, NEW s \in FactoryRefs, grants'[t].known, s < t
        PROVE  grants'[s].known /\ grants'[s].revoked
    <2>1. s # t /\ s \in Refs /\ t \in Refs
      BY <1>5, RefKinds
    <2>2. CASE t = r
      BY <1>1, <1>5, <2>1, <2>2
    <2>3. CASE t # r
      <3>1. grants[s].known /\ grants[s].revoked
        BY <1>1, <1>5, <2>1, <2>3 DEF GrantInv
      <3> QED BY <1>1, <2>1, <3>1
    <2> QED BY <2>2, <2>3
  <1>6. Grows(grants, grants')
    BY <1>1 DEF Grows
  <1> QED BY <1>1, <1>2, <1>3, <1>4, <1>5, <1>6 DEF GrantInv

-----------------------------------------------------------------------------
(* How the portfolio changes.                                              *)

LEMMA SlotsKept ==
    ASSUME SlotInv, Kept(attempts, attempts')
    PROVE  SlotInv' /\ \A w \in Held : Assigned(w, attempts) => Assigned(w, attempts')
  <1>1. attempts' \in Portfolios /\ \A s \in 1..Slots : Len(attempts'[s]) <= MaxAttempts
    BY DEF SlotInv, Kept
  <1>2. Serial(attempts')
    BY SerialStays DEF SlotInv
  <1> QED BY <1>1, <1>2, AssignedStays DEF SlotInv

LEMMA SlotsStay ==
    ASSUME SlotInv, UNCHANGED attempts
    PROVE  SlotInv' /\ \A w \in Held : Assigned(w, attempts) => Assigned(w, attempts')
  BY DEF SlotInv

(* One mission that is not settled moves on, or any mission changes hands. *)
LEMMA Marked ==
    ASSUME SlotInv, NEW s \in 1..Slots, NEW i \in 1..Len(attempts[s]), NEW m \in Missions,
           attempts[s][i].state \in SettledStates => m.state = attempts[s][i].state,
           attempts' = [attempts EXCEPT ![s] = [attempts[s] EXCEPT ![i] = m]]
    PROVE  Kept(attempts, attempts')
  <1> DEFINE b == [attempts[s] EXCEPT ![i] = m]
  <1>1. /\ attempts[s] \in Seq(Missions) /\ Len(attempts[s]) \in Nat
        /\ DOMAIN attempts[s] = 1..Len(attempts[s])
    BY SlotRows DEF SlotInv
  <1>2. /\ b \in Seq(Missions) /\ Len(b) = Len(attempts[s])
        /\ \A j \in 1..Len(attempts[s]) : b[j] = IF j = i THEN m ELSE attempts[s][j]
    BY <1>1, ExceptSeq
  <1> HIDE DEF b
  <1>3. /\ attempts' \in Portfolios
        /\ \A t \in 1..Slots : attempts'[t] = IF t = s THEN b ELSE attempts[t]
    BY <1>2 DEF SlotInv, Portfolios, b
  <1> QED BY <1>2, <1>3 DEF Kept

LEMMA FreedKept ==
    ASSUME SlotInv, NEW stale, attempts' = Freed(stale)
    PROVE  Kept(attempts, attempts')
  <1>1. ASSUME NEW s \in 1..Slots
        PROVE  /\ attempts'[s] \in Seq(Missions) /\ Len(attempts'[s]) = Len(attempts[s])
               /\ \A i \in 1..Len(attempts[s]) : attempts'[s][i].state = attempts[s][i].state
    <2> DEFINE n == Len(attempts[s])
               b == [i \in 1..n |-> IF <<s, i>> \in stale
                                    THEN [attempts[s][i] EXCEPT !.lease = "free"]
                                    ELSE attempts[s][i]]
    <2>1. /\ n \in Nat /\ DOMAIN attempts[s] = 1..n
          /\ \A i \in 1..n : attempts[s][i] \in Missions
      BY SlotRows DEF SlotInv
    <2>2. attempts'[s] = b
      BY <2>1 DEF Freed
    <2>3. \A i \in 1..n : b[i] \in Missions /\ b[i].state = attempts[s][i].state
      BY <2>1 DEF Missions, Leases
    <2>4. b \in [1..n -> Missions]
      BY <2>3
    <2>5. b \in Seq(Missions) /\ Len(b) = n
      BY <2>1, <2>4, SeqDef, LenProperties
    <2> QED BY <2>2, <2>3, <2>5
  <1>2. attempts' \in Portfolios
    BY <1>1 DEF Freed, Portfolios
  <1> QED BY <1>1, <1>2 DEF Kept

(* An attempt is due in one slot only: a slot that waits for its next one  *)
(* is not final, so no later slot is due or was tried.                     *)
LEMMA NextIsNotFinal ==
    ASSUME NEW a \in Portfolios, NEW s \in 1..Slots, Len(a[s]) + 1 <= MaxAttempts,
           \A j \in 1..Len(a[s]) : a[s][j].state = "unserved"
    PROVE  ~Final(a, s)
  BY SlotRows, ShiftAssumption DEF Final

LEMMA Submits ==
    ASSUME SlotInv, NEW s \in 1..Slots, NEW i \in 1..MaxAttempts, Due(attempts, s, i),
           attempts' = Submitted(s, i)
    PROVE  SlotInv' /\ \A w \in Held : Assigned(w, attempts) => Assigned(w, attempts')
  <1>0. /\ attempts \in Portfolios /\ MaxAttempts \in Nat /\ Slots \in Nat
        /\ Len(attempts[s]) \in Nat
    BY SlotRows, ShiftAssumption DEF SlotInv
  <1>1. CASE i <= Len(attempts[s])
    BY <1>1, SlotsStay DEF Submitted
  <1>2. CASE ~(i <= Len(attempts[s]))
    <2> DEFINE b == Append(attempts[s], [state |-> "admitted", lease |-> "free"])
    <2>1. /\ i = Len(attempts[s]) + 1 /\ Len(attempts[s]) + 1 <= MaxAttempts
          /\ \A j \in 1..Len(attempts[s]) : attempts[s][j].state = "unserved"
          /\ \A t \in 1..(s - 1) : Final(attempts, t)
      BY <1>0, <1>2 DEF Due
    <2>2. ~Final(attempts, s)
      BY <1>0, <2>1, NextIsNotFinal
    <2>3. [state |-> "admitted", lease |-> "free"] \in Missions
      BY DEF Missions, MissionStates, Leases
    <2>4. /\ b \in Seq(Missions) /\ Len(b) = Len(attempts[s]) + 1
          /\ \A j \in 1..Len(attempts[s]) : b[j] = attempts[s][j]
      BY <1>0, <2>3, SlotRows, AppendProperties
    <2>5. attempts' = [attempts EXCEPT ![s] = b]
      BY <1>2 DEF Submitted
    <2> HIDE DEF b
    <2>6. /\ attempts' \in Portfolios
          /\ \A t \in 1..Slots : attempts'[t] = IF t = s THEN b ELSE attempts[t]
      BY <1>0, <2>4, <2>5 DEF Portfolios
    <2>7. \A t \in 1..Slots : Final(attempts, t) => Final(attempts', t)
      BY <2>2, <2>6 DEF Final
    <2>8. \A t \in 1..Slots : Len(attempts'[t]) <= MaxAttempts
      BY <2>1, <2>4, <2>6 DEF SlotInv
    <2>9. Serial(attempts')
      <3> SUFFICES ASSUME NEW u \in 1..Slots, attempts'[u] # <<>>
                   PROVE  /\ \A j \in 1..(Len(attempts'[u]) - 1) :
                               attempts'[u][j].state = "unserved"
                          /\ \A t \in 1..(u - 1) : Final(attempts', t)
        BY DEF Serial
      <3>1. \A t \in 1..(u - 1) : t \in 1..Slots
        BY <1>0
      <3>2. CASE u = s
        <4>1. Len(attempts'[u]) - 1 = Len(attempts[s])
          BY <1>0, <2>4, <2>6, <3>2
        <4> QED BY <2>1, <2>4, <2>6, <2>7, <3>1, <3>2, <4>1
      <3>3. CASE u # s
        BY <2>6, <2>7, <3>1, <3>3 DEF SlotInv, Serial
      <3> QED BY <3>2, <3>3
    <2>10. ASSUME NEW w \in Held, Assigned(w, attempts)
           PROVE  Assigned(w, attempts')
      <3>1. CASE w.at = "working"
        <4>1. w.slot \in 1..Slots /\ w.attempt \in 1..MaxAttempts
              /\ w.attempt <= Len(attempts[w.slot])
          BY <2>10, <3>1 DEF Assigned
        <4>2. w.attempt <= Len(attempts'[w.slot])
          BY <1>0, <2>4, <2>6, <4>1
        <4> QED BY <3>1, <4>1, <4>2 DEF Assigned
      <3>2. CASE w.at = "submit"
        <4>1. /\ w.slot \in 1..Slots /\ w.attempt \in 1..MaxAttempts
              /\ Due(attempts, w.slot, w.attempt)
          BY <2>10, <3>2 DEF Assigned
        <4>2. \A t \in 1..(w.slot - 1) : t \in 1..Slots
          BY <1>0, <4>1
        <4>3. Due(attempts', w.slot, w.attempt)
          <5>1. CASE w.slot = s
            BY <1>0, <2>4, <2>6, <4>1, <5>1 DEF Due
          <5>2. CASE w.slot # s
            BY <2>6, <2>7, <4>1, <4>2, <5>2 DEF Due
          <5> QED BY <5>1, <5>2
        <4> QED BY <3>2, <4>1, <4>3 DEF Assigned
      <3> QED BY <3>1, <3>2 DEF Assigned
    <2> QED BY <2>6, <2>8, <2>9, <2>10 DEF SlotInv
  <1> QED BY <1>1, <1>2

-----------------------------------------------------------------------------
(* How processes move.                                                     *)

LEMMA AwayIsSound ==
    ASSUME NEW g, NEW a
    PROVE  Away \in Held /\ Away.at = "away" /\ Sound(Away, g, a)
  <1>1. Away \in Held /\ Away.at = "away"
    BY ShiftAssumption DEF Away, Held, Points, Verbs, Modes
  <1> QED BY <1>1 DEF Sound, Entitled, Assigned

(* Who is nowhere near a grant, a mission or a submission rests on nothing. *)
LEMMA PlainIsSound ==
    ASSUME NEW w \in Held, w.at \notin {"check", "insert", "working", "submit"},
           NEW g, NEW a
    PROVE  Sound(w, g, a)
  BY DEF Sound, Entitled, Assigned

LEMMA Others ==
    ASSUME ProcInv, Grows(grants, grants'),
           \A w \in Held : Assigned(w, attempts) => Assigned(w, attempts'),
           proc' = [q \in Procs |-> proc'[q]],
           \A q \in Procs : proc'[q] = proc[q] \/ Sound(proc'[q], grants', attempts')
    PROVE  ProcInv'
  <1>1. ASSUME NEW q \in Procs PROVE Sound(proc'[q], grants', attempts')
    <2>1. CASE proc'[q] = proc[q]
      <3>1. proc[q] \in Held /\ Entitled(proc[q], grants) /\ Assigned(proc[q], attempts)
        BY DEF ProcInv, Sound
      <3>2. Entitled(proc[q], grants')
        BY <3>1, EntitledStays
      <3> QED BY <2>1, <3>1, <3>2 DEF Sound
    <2> QED BY <2>1
  <1> QED BY <1>1 DEF ProcInv

LEMMA OneMoves ==
    ASSUME ProcInv, Grows(grants, grants'),
           \A w \in Held : Assigned(w, attempts) => Assigned(w, attempts'),
           NEW p \in Procs, NEW w, Sound(w, grants', attempts'),
           proc' = [proc EXCEPT ![p] = w]
    PROVE  ProcInv'
  <1>1. /\ proc' = [q \in Procs |-> proc'[q]]
        /\ \A q \in Procs : proc'[q] = IF q = p THEN w ELSE proc[q]
    BY DEF ProcInv
  <1> QED BY <1>1, Others

(* A process moves, and that is all that touches grants or missions.       *)
LEMMA Walks ==
    ASSUME IInv, UNCHANGED shiftVars, RestInv', NEW p \in Procs,
           NEW w, Sound(w, grants, attempts), proc' = [proc EXCEPT ![p] = w]
    PROVE  IInv'
  <1>1. GrantInv' /\ Grows(grants, grants')
    BY GrantsStay DEF IInv, shiftVars
  <1>2. SlotInv' /\ \A v \in Held : Assigned(v, attempts) => Assigned(v, attempts')
    BY SlotsStay DEF IInv, shiftVars
  <1>3. Sound(w, grants', attempts')
    BY DEF shiftVars
  <1> QED BY <1>1, <1>2, <1>3, OneMoves DEF IInv

LEMMA RestStays == IInv /\ UNCHANGED <<loaded, control, moves, faults>> => RestInv'
  BY DEF IInv, RestInv

LEMMA Mine ==
    ASSUME IInv, NEW p \in Procs
    PROVE  /\ proc[p] \in Held /\ Sound(proc[p], grants, attempts)
           /\ \A w : [proc EXCEPT ![p] = w] = [q \in Procs |-> IF q = p THEN w ELSE proc[q]]
  BY DEF IInv, ProcInv, Sound

-----------------------------------------------------------------------------
(* Steps in which somebody only walks on.                                  *)

LEMMA DrainWalks ==
    ASSUME IInv, NEW p \in Procs,
           Enter(p) \/ EndResume(p) \/ Snapshot(p) \/ Settle(p)
    PROVE  IInv'
  <1>0. proc[p] \in Held /\ DrainSteps \in Nat /\ FactoryAssumption
    BY Mine, FactoryAssumption DEF FactoryAssumption
  <1>1. CASE Enter(p)
    <2> DEFINE w == [proc[p] EXCEPT !.at = "recover", !.left = DrainSteps]
    <2>1. w \in Held /\ w.at = "recover"
      BY <1>0 DEF Held, Points
    <2>2. proc' = [proc EXCEPT ![p] = w] /\ UNCHANGED shiftVars
      BY <1>1, Mine DEF Enter
    <2>3. RestInv'
      BY <1>1 DEF Enter, IInv, RestInv, ControlStates
    <2> QED BY <2>1, <2>2, <2>3, PlainIsSound, Walks
  <1>2. CASE EndResume(p)
    <2> DEFINE w == [proc[p] EXCEPT !.at = "snapshot", !.left = 0]
    <2>1. w \in Held /\ w.at = "snapshot"
      BY <1>0 DEF Held, Points
    <2>2. proc' = [proc EXCEPT ![p] = w] /\ UNCHANGED shiftVars
      BY <1>2, Mine DEF EndResume
    <2>3. RestInv'
      BY <1>2, RestStays DEF EndResume
    <2> QED BY <2>1, <2>2, <2>3, PlainIsSound, Walks
  <1>3. CASE Snapshot(p)
    <2> DEFINE w == [proc[p] EXCEPT !.at = "settle",
                       !.mode = IF Outstanding THEN "busy" ELSE "quiet"]
    <2>1. w \in Held /\ w.at = "settle"
      BY <1>0 DEF Held, Points, Modes
    <2>2. proc' = [proc EXCEPT ![p] = w] /\ UNCHANGED shiftVars
      BY <1>3, Mine DEF Snapshot
    <2>3. RestInv'
      BY <1>3, RestStays DEF Snapshot
    <2> QED BY <2>1, <2>2, <2>3, PlainIsSound, Walks
  <1>4. CASE Settle(p)
    <2> DEFINE w == [proc[p] EXCEPT !.mode = None,
                       !.at = IF proc[p].verb = "stop" THEN "verify" ELSE "reference"]
    <2>1. w \in Held /\ w.at \in {"verify", "reference"}
      BY <1>0 DEF Held, Points, Modes
    <2>2. UNCHANGED shiftVars /\ (proc' = [proc EXCEPT ![p] = w]
                                    \/ proc' = [proc EXCEPT ![p] = Away])
      BY <1>4, Mine DEF Settle, Leaves
    <2>3. RestInv'
      BY <1>4 DEF Settle, IInv, RestInv, ControlStates
    <2> QED BY <2>1, <2>2, <2>3, AwayIsSound, PlainIsSound, Walks
  <1> QED BY <1>1, <1>2, <1>3, <1>4

(* A command begins, at a place where nothing is rested on.                *)
LEMMA BeginWalks ==
    ASSUME IInv, NEW p \in Procs, NEW verb \in Verbs, NEW ref \in Refs \union {None},
           NEW point \in Points \ {"insert", "working", "submit"},
           point = "check" => ref \in OtherRefs,
           Begins(p, verb, point, ref), RestInv', UNCHANGED shiftVars
    PROVE  IInv'
  <1> DEFINE w == [Away EXCEPT !.at = point, !.verb = verb, !.ref = ref]
  <1>1. /\ w \in Held /\ w.at = point /\ w.ref = ref
    BY AwayIsSound DEF Away, Held
  <1>2. proc' = [proc EXCEPT ![p] = w]
    BY DEF Begins
  <1>3. Sound(w, grants, attempts)
    BY <1>1, RefKinds DEF Sound, Entitled, Assigned
  <1> QED BY <1>2, <1>3, Walks

LEMMA CommandWalks ==
    ASSUME IInv, NEW p \in Procs,
           \/ Start(p) \/ Stop(p) \/ Run(p)
           \/ \E r \in Refs : Apply(p, r) \/ RevokeShift(p, r) \/ Suspend(p, r)
    PROVE  IInv'
  <1>0. LiveGrant \in Refs \union {None} /\ MaxMoves \in Nat
    BY LiveIsGranted, FactoryAssumption DEF IInv
  <1>1. UNCHANGED shiftVars /\ RestInv'
    <2>1. UNCHANGED <<shiftVars, loaded, control, faults>> /\ Commanded
      BY DEF Start, Stop, Run, Apply, RevokeShift, Suspend
    <2> QED BY <1>0, <2>1 DEF Commanded, IInv, RestInv
  <1>2. CASE Start(p)
    BY <1>1, <1>2, BeginWalks DEF Start, Verbs, Points
  <1>3. CASE Stop(p)
    BY <1>0, <1>1, <1>3, BeginWalks DEF Stop, Verbs, Points
  <1>4. CASE Run(p)
    BY <1>0, <1>1, <1>4, BeginWalks DEF Run, Verbs, Points
  <1>5. CASE \E r \in Refs : Apply(p, r) \/ RevokeShift(p, r) \/ Suspend(p, r)
    <2>1. PICK r \in Refs : Apply(p, r) \/ RevokeShift(p, r) \/ Suspend(p, r)
      BY <1>5
    <2>2. CASE Apply(p, r)
      BY <1>1, <2>2, BeginWalks DEF Apply, Verbs, Points
    <2>3. CASE RevokeShift(p, r)
      BY <1>1, <2>3, BeginWalks DEF RevokeShift, Verbs, Points
    <2>4. CASE Suspend(p, r)
      BY <1>1, <2>4, BeginWalks DEF Suspend, Verbs, Points
    <2> QED BY <2>1, <2>2, <2>3, <2>4
  <1> QED BY <1>2, <1>3, <1>4, <1>5

LEMMA CycleBegins ==
    ASSUME IInv, Cycle
    PROVE  IInv'
  <1>1. LiveGrant \in Refs \union {None} /\ Service \in Procs
    BY LiveIsGranted DEF IInv, Procs
  <1>2. RestInv'
    BY RestStays DEF Cycle
  <1> QED BY <1>1, <1>2, BeginWalks DEF Cycle, Verbs, Points

(* What a start or an apply reads, and what it is entitled to thereby.     *)
LEMMA GrantReads ==
    ASSUME IInv, NEW p \in Procs,
           TakeReference(p) \/ GateUnmet(p) \/ CheckGrant(p) \/ KeyTaken(p)
    PROVE  IInv'
  <1>0. /\ proc[p] \in Held /\ Entitled(proc[p], grants) /\ GrantInv
        /\ UNCHANGED shiftVars /\ RestInv'
    BY Mine, RestStays DEF TakeReference, GateUnmet, CheckGrant, KeyTaken, IInv, Sound
  <1>1. CASE proc' = [proc EXCEPT ![p] = Away]
    BY <1>0, <1>1, AwayIsSound, Walks
  <1>2. CASE TakeReference(p) /\ proc' # [proc EXCEPT ![p] = Away]
    <2> DEFINE ref == IF LiveGrant = None THEN NextReference ELSE LiveGrant
               w == [proc[p] EXCEPT !.at = "check", !.ref = ref]
    <2>1. ref \in FactoryRefs /\ proc' = [proc EXCEPT ![p] = w]
      BY <1>2, Mine DEF TakeReference, Leaves
    <2>2. \A s \in FactoryRefs : s < ref => grants[s].known
      <3>1. CASE LiveGrant = None
        BY <1>0, <3>1, NextIsFree
      <3>2. CASE LiveGrant # None
        BY <1>0, <2>1, <3>2, LiveIsGranted DEF GrantInv
      <3> QED BY <3>1, <3>2
    <2>3. w \in Held /\ w.at = "check" /\ w.ref = ref
      BY <1>0, <2>1, RefKinds DEF Held, Points
    <2>4. Sound(w, grants, attempts)
      BY <2>1, <2>2, <2>3, RefKinds DEF Sound, Entitled, Assigned
    <2> QED BY <1>0, <2>1, <2>4, Walks
  <1>3. CASE CheckGrant(p) /\ proc' # [proc EXCEPT ![p] = Away]
    <2>1. PICK point \in {"boot", "insert"} :
            /\ proc' = [proc EXCEPT ![p].at = point]
            /\ point = "insert" => LiveGrant = None
      BY <1>3 DEF CheckGrant, Goes, Leaves
    <2> DEFINE w == [proc[p] EXCEPT !.at = point]
    <2>2. proc' = [proc EXCEPT ![p] = w] /\ proc[p].at = "check"
      BY <1>3, <2>1, Mine DEF CheckGrant, At
    <2>3. w \in Held /\ w.at = point /\ w.ref = proc[p].ref
      BY <1>0, <2>1 DEF Held, Points
    <2>4. Entitled(w, grants)
      <3>1. CASE point = "boot"
        BY <2>3, <3>1 DEF Entitled
      <3>2. CASE point = "insert"
        <4>1. \A r \in Refs : grants[r].known => grants[r].revoked
          BY <1>0, <2>1, <3>2, LiveIsGranted
        <4> QED BY <1>0, <2>2, <2>3, <4>1, RefKinds DEF Entitled
      <3> QED BY <2>1, <3>1, <3>2
    <2>5. Sound(w, grants, attempts)
      BY <2>1, <2>3, <2>4 DEF Sound, Assigned
    <2> QED BY <1>0, <2>2, <2>5, Walks
  <1> QED BY <1>1, <1>2, <1>3 DEF GateUnmet, KeyTaken, Leaves

(* The loader, the control state, the cycle's turns.                       *)
LEMMA ServiceWalks ==
    ASSUME IInv, NEW p \in Procs,
           \/ Boot(p) \/ Turn(p) \/ Confirm(p) \/ Verify(p) \/ Reload(p)
           \/ p = Service /\ (Supervise \/ EndCycle)
    PROVE  IInv'
  <1>0. proc[p] \in Held /\ PerCycle \in Nat
    BY Mine, FactoryAssumption
  <1>1. UNCHANGED shiftVars /\ RestInv'
    BY DEF Boot, Turn, Confirm, Verify, Reload, Supervise, EndCycle, IInv, RestInv, ControlStates
  <1> DEFINE Quiet(w) == w \in Held /\ w.at \notin {"check", "insert", "working", "submit"}
  <1>2. \E w : Quiet(w) /\ proc' = [proc EXCEPT ![p] = w]
    <2>1. CASE Boot(p) \/ Turn(p) \/ Reload(p)
      <3>1. PICK point \in {"undo", "confirm", "turn", "queue"} :
              proc' = [proc EXCEPT ![p].at = point]
        BY <2>1 DEF Boot, Turn, Reload, Goes
      <3>2. Quiet([proc[p] EXCEPT !.at = point])
        BY <1>0, <3>1 DEF Held, Points
      <3> QED BY <3>1, <3>2
    <2>2. CASE Confirm(p) \/ Verify(p)
      <3>1. \/ proc' = [proc EXCEPT ![p] = Away]
            \/ proc' = [proc EXCEPT ![p].at = "undo"]
            \/ proc' = [proc EXCEPT ![p] = [Away EXCEPT !.at = "unload"]]
        BY <2>2 DEF Confirm, Verify, Leaves, Goes
      <3>2. Quiet(Away) /\ Quiet([proc[p] EXCEPT !.at = "undo"])
            /\ Quiet([Away EXCEPT !.at = "unload"])
        BY <1>0, AwayIsSound DEF Held, Points
      <3> QED BY <3>1, <3>2
    <2>3. CASE p = Service /\ Supervise
      <3> DEFINE v == [proc[p] EXCEPT !.at = "recover", !.left = PerCycle,
                         !.created = control = "running"]
                 u == [proc[p] EXCEPT !.at = "queue", !.mode = "after"]
      <3>1. \/ proc' = [proc EXCEPT ![p] = Away] \/ proc' = [proc EXCEPT ![p] = v]
            \/ proc' = [proc EXCEPT ![p] = u]
        BY <2>3, Mine DEF Supervise, Leaves
      <3>2. Quiet(Away) /\ Quiet(v) /\ Quiet(u)
        BY <1>0, AwayIsSound DEF Held, Points, Modes
      <3> QED BY <3>1, <3>2
    <2>4. CASE p = Service /\ EndCycle
      <3> DEFINE u == [proc[p] EXCEPT !.at = "queue", !.mode = "after", !.left = 0,
                         !.created = FALSE]
      <3>1. proc' = [proc EXCEPT ![p] = Away] \/ proc' = [proc EXCEPT ![p] = u]
        BY <2>4, Mine DEF EndCycle, Leaves
      <3>2. Quiet(Away) /\ Quiet(u)
        BY <1>0, AwayIsSound DEF Held, Points, Modes
      <3> QED BY <3>1, <3>2
    <2> QED BY <2>1, <2>2, <2>3, <2>4
  <1>3. PICK w : Quiet(w) /\ proc' = [proc EXCEPT ![p] = w]
    BY <1>2
  <1> QED BY <1>1, <1>3, PlainIsSound, Walks

(* The handoff reads the portfolio: what it is about to submit is due.     *)
LEMMA QueueReads ==
    ASSUME IInv, NEW p \in Procs, Queue(p)
    PROVE  IInv'
  <1>0. /\ proc[p] \in Held /\ attempts \in Portfolios /\ Serial(attempts)
        /\ UNCHANGED shiftVars /\ RestInv' /\ Slots \in Nat /\ MaxAttempts \in Nat \ {0}
    BY Mine, RestStays, ShiftAssumption DEF Queue, IInv, SlotInv
  <1>1. ASSUME NEW w \in Held, w.at \notin {"check", "insert", "working", "submit"},
               proc' = [proc EXCEPT ![p] = w]
        PROVE  IInv'
    BY <1>0, <1>1, PlainIsSound, Walks
  <1>2. CASE proc' = [proc EXCEPT ![p] = Away]
    BY <1>1, <1>2, AwayIsSound
  <1>3. CASE \/ proc' = [proc EXCEPT ![p].at = "supervise", ![p].slot = 0, ![p].attempt = 0]
             \/ proc' = [proc EXCEPT ![p].at = "supervise", ![p].mode = "held"]
    <2> DEFINE u == [proc[p] EXCEPT !.at = "supervise", !.slot = 0, !.attempt = 0]
               v == [proc[p] EXCEPT !.at = "supervise", !.mode = "held"]
    <2>1. proc' = [proc EXCEPT ![p] = u] \/ proc' = [proc EXCEPT ![p] = v]
      BY <1>3, Mine
    <2>2. 0 \in 0..Slots /\ 0 \in 0..MaxAttempts
      BY <1>0
    <2>3. u \in Held /\ u.at = "supervise"
      BY <1>0, <2>2 DEF Held, Points
    <2>4. v \in Held /\ v.at = "supervise"
      BY <1>0 DEF Held, Points, Modes
    <2> QED BY <1>1, <2>1, <2>3, <2>4
  <1>4. ASSUME NextMission # 0, ~(Tried(NextMission) /\ ~Retryable(NextMission)),
               proc' = [proc EXCEPT ![p].at = "submit", ![p].slot = NextMission,
                          ![p].attempt = IF Retryable(NextMission)
                                         THEN Len(attempts[NextMission]) + 1 ELSE 1]
        PROVE  IInv'
    <2>1. PICK s : s = NextMission
      OBVIOUS
    <2>2. PICK i : i = IF Retryable(s) THEN Len(attempts[s]) + 1 ELSE 1
      OBVIOUS
    <2>3. s \in Pending /\ s \in 1..Slots /\ \A t \in 1..(s - 1) : t \notin Pending
      <3>1. Pending # {} /\ s = Min(Pending)
        BY <1>4, <2>1 DEF NextMission
      <3>2. Pending \in SUBSET Nat /\ Pending \subseteq 1..Slots
        BY <1>0 DEF Pending
      <3>3. s \in Pending /\ \A t \in Pending : s <= t
        BY <3>1, <3>2, MinIsOne
      <3> QED BY <3>2, <3>3
    <2>4. \A t \in 1..(s - 1) : t \in 1..Slots /\ Len(attempts[t]) \in Nat
      BY <1>0, <2>3, SlotRows
    <2>5. \A t \in 1..(s - 1) : Final(attempts, t)
      BY <1>0, <2>3, <2>4 DEF Pending, Settled, Retryable, Tried, Reading, Final
    <2>6. /\ i \in 1..MaxAttempts /\ i = Len(attempts[s]) + 1
          /\ \A j \in 1..Len(attempts[s]) : attempts[s][j].state = "unserved"
      <3>1. Len(attempts[s]) \in Nat /\ (attempts[s] = <<>> <=> Len(attempts[s]) = 0)
        BY <1>0, <2>3, SlotRows
      <3>2. CASE Retryable(s)
        <4>1. /\ i = Len(attempts[s]) + 1 /\ attempts[s] # <<>>
              /\ Len(attempts[s]) < MaxAttempts
              /\ attempts[s][Len(attempts[s])].state = "unserved"
          BY <2>2, <3>2 DEF Retryable, Tried, Reading
        <4>2. \A j \in 1..(Len(attempts[s]) - 1) : attempts[s][j].state = "unserved"
          BY <1>0, <2>3, <4>1 DEF Serial
        <4> QED BY <1>0, <3>1, <4>1, <4>2
      <3>3. CASE ~Retryable(s)
        <4>1. i = 1 /\ attempts[s] = <<>>
          BY <1>4, <2>1, <2>2, <3>3 DEF Tried
        <4> QED BY <1>0, <3>1, <4>1
      <3> QED BY <3>2, <3>3
    <2> DEFINE w == [proc[p] EXCEPT !.at = "submit", !.slot = s, !.attempt = i]
    <2>7. proc' = [proc EXCEPT ![p] = w]
      BY <1>4, <2>1, <2>2, Mine
    <2>8. /\ w \in Held /\ w.at = "submit" /\ w.slot = s /\ w.attempt = i
      <3>1. s \in 0..Slots /\ i \in 0..MaxAttempts
        BY <1>0, <2>3, <2>6
      <3> QED BY <1>0, <3>1 DEF Held, Points
    <2>9. Sound(w, grants, attempts)
      BY <2>3, <2>5, <2>6, <2>8 DEF Sound, Entitled, Assigned, Due
    <2> QED BY <1>0, <2>7, <2>9, Walks
  <1> QED BY <1>2, <1>3, <1>4 DEF Queue, Queued, Leaves

-----------------------------------------------------------------------------
(* Steps that write a grant.                                               *)

LEMMA GrantWrites ==
    ASSUME IInv, NEW p \in Procs,
           InsertGrant(p) \/ Undo(p) \/ Revoke(p) \/ Park(p)
    PROVE  IInv'
  <1>0. /\ proc[p] \in Held /\ Entitled(proc[p], grants) /\ GrantInv
        /\ UNCHANGED attempts /\ RestInv'
    BY Mine, RestStays DEF InsertGrant, Undo, Revoke, Park, IInv, Sound
  <1>1. SlotInv' /\ \A w \in Held : Assigned(w, attempts) => Assigned(w, attempts')
    BY <1>0, SlotsStay DEF IInv
  <1>2. GrantInv' /\ Grows(grants, grants')
    <2>1. CASE InsertGrant(p)
      <3>1. proc[p].at = "insert"
        BY <2>1 DEF InsertGrant, At
      <3>2. /\ proc[p].ref \in Refs /\ ~grants[proc[p].ref].known
            /\ grants' = Granted(proc[p].ref) /\ granted' = Append(granted, proc[p].ref)
        BY <1>0, <2>1, <3>1 DEF InsertGrant, Entitled
      <3>3. proc[p].ref \in FactoryRefs =>
              \A s \in FactoryRefs : s < proc[p].ref => grants[s].known /\ grants[s].revoked
        BY <1>0, <3>1, <3>2 DEF Entitled
      <3> QED BY <1>0, <3>2, <3>3, GrantInserted
    <2>2. ASSUME Undo(p) \/ Revoke(p) \/ Park(p), proc[p].ref \notin Refs
          PROVE  GrantInv' /\ Grows(grants, grants')
      <3>1. UNCHANGED <<grants, granted>>
        BY <1>0, <2>2 DEF Undo, Revoke, Park, Revoked, GrantInv
      <3> QED BY <1>0, <3>1, GrantsStay
    <2>3. ASSUME Undo(p) \/ Revoke(p) \/ Park(p), proc[p].ref \in Refs
          PROVE  GrantInv' /\ Grows(grants, grants')
      <3> DEFINE r == proc[p].ref
      <3>1. UNCHANGED granted /\ grants[r] \in Grants
        BY <1>0, <2>3 DEF Undo, Revoke, Park, GrantInv
      <3>2. \/ grants' = grants
            \/ grants' = [grants EXCEPT ![r] = [grants[r] EXCEPT !.revoked = TRUE]]
            \/ grants' = [grants EXCEPT ![r] = [grants[r] EXCEPT !.suspended = TRUE]]
        BY <1>0, <2>3 DEF Undo, Revoke, Park, Revoked, GrantInv
      <3>3. /\ [grants[r] EXCEPT !.revoked = TRUE] \in Grants
            /\ [grants[r] EXCEPT !.revoked = TRUE].known = grants[r].known
            /\ [grants[r] EXCEPT !.revoked = TRUE].revoked
            /\ [grants[r] EXCEPT !.suspended = TRUE] \in Grants
            /\ [grants[r] EXCEPT !.suspended = TRUE].known = grants[r].known
            /\ [grants[r] EXCEPT !.suspended = TRUE].revoked = grants[r].revoked
        BY <3>1 DEF Grants
      <3> QED BY <1>0, <2>3, <3>1, <3>2, <3>3, GrantsStay, GrantRewritten
    <2> QED BY <2>1, <2>2, <2>3
  <1>3. \E w \in Held : /\ w.at \notin {"check", "insert", "working", "submit"}
                        /\ proc' = [proc EXCEPT ![p] = w]
    <2> DEFINE u == [proc[p] EXCEPT !.at = "boot", !.created = TRUE]
               v == [Away EXCEPT !.at = "unload"]
               x == [proc[p] EXCEPT !.at = "drain", !.ref = None]
    <2>1. \/ proc' = [proc EXCEPT ![p] = Away] \/ proc' = [proc EXCEPT ![p] = u]
          \/ proc' = [proc EXCEPT ![p] = v] \/ proc' = [proc EXCEPT ![p] = x]
      BY Mine DEF InsertGrant, Undo, Revoke, Park, Leaves
    <2>2. /\ u \in Held /\ u.at = "boot" /\ v \in Held /\ v.at = "unload"
          /\ x \in Held /\ x.at = "drain" /\ Away \in Held /\ Away.at = "away"
      BY <1>0, AwayIsSound DEF Held, Points
    <2> QED BY <2>1, <2>2
  <1>4. PICK w \in Held : /\ w.at \notin {"check", "insert", "working", "submit"}
                          /\ proc' = [proc EXCEPT ![p] = w]
    BY <1>3
  <1>5. Sound(w, grants', attempts')
    BY <1>4, PlainIsSound
  <1> QED BY <1>0, <1>1, <1>2, <1>4, <1>5, OneMoves DEF IInv

(* Nobody moves: the Owner resumes a shift, or sets the control state.     *)
LEMMA OwnerWrites ==
    ASSUME IInv, (\E r \in Refs : ResumeShift(r)) \/ OwnerMoves
    PROVE  IInv'
  <1>1. GrantInv' /\ Grows(grants, grants') /\ UNCHANGED <<attempts, proc>>
    <2>1. CASE \E r \in Refs : ResumeShift(r)
      <3>1. PICK r \in Refs : ResumeShift(r)
        BY <2>1
      <3> DEFINE row == [grants[r] EXCEPT !.suspended = FALSE]
      <3>2. /\ row \in Grants /\ row.known = grants[r].known
            /\ row.revoked = grants[r].revoked
        <4>1. grants[r] \in Grants
          BY DEF IInv, GrantInv
        <4> QED BY <4>1 DEF Grants
      <3>3. grants' = [grants EXCEPT ![r] = row] /\ UNCHANGED <<granted, attempts, proc>>
        BY <3>1 DEF ResumeShift, Resume, IInv, GrantInv
      <3> QED BY <3>2, <3>3, GrantRewritten DEF IInv
    <2>2. CASE OwnerMoves
      BY <2>2, GrantsStay DEF OwnerMoves, shiftVars, IInv
    <2> QED BY <2>1, <2>2
  <1>2. SlotInv' /\ \A w \in Held : Assigned(w, attempts) => Assigned(w, attempts')
    BY <1>1, SlotsStay DEF IInv
  <1>3. proc' = [q \in Procs |-> proc'[q]] /\ \A q \in Procs : proc'[q] = proc[q]
    BY <1>1 DEF IInv, ProcInv
  <1>4. ProcInv'
    BY <1>1, <1>2, <1>3, Others DEF IInv
  <1>5. RestInv'
    BY FactoryAssumption DEF ResumeShift, OwnerMoves, Commanded, IInv, RestInv, ControlStates
  <1> QED BY <1>1, <1>2, <1>4, <1>5 DEF IInv

-----------------------------------------------------------------------------
(* Steps that write a mission.                                             *)

LEMMA MissionMoves ==
    ASSUME IInv, UNCHANGED <<grants, granted>>, RestInv', SlotInv',
           \A v \in Held : Assigned(v, attempts) => Assigned(v, attempts'),
           NEW p \in Procs, NEW w, Sound(w, grants, attempts'),
           proc' = [proc EXCEPT ![p] = w]
    PROVE  IInv'
  <1>1. GrantInv' /\ Grows(grants, grants')
    BY GrantsStay DEF IInv
  <1> QED BY <1>1, OneMoves DEF IInv

(* A write to one mission, as the rows see it.                             *)
LEMMA Written ==
    ASSUME SlotInv, NEW s \in 1..Slots, NEW i \in 1..Len(attempts[s])
    PROVE  /\ attempts[s][i] \in Missions
           /\ \A m : [attempts EXCEPT ![s][i] = m]
                       = [attempts EXCEPT ![s] = [attempts[s] EXCEPT ![i] = m]]
           /\ \A l \in Leases : [attempts[s][i] EXCEPT !.lease = l] \in Missions
           /\ \A l : /\ [attempts[s][i] EXCEPT !.lease = l].state = attempts[s][i].state
                     /\ [attempts EXCEPT ![s][i].lease = l]
                          = [attempts EXCEPT ![s] =
                              [attempts[s] EXCEPT ![i] = [attempts[s][i] EXCEPT !.lease = l]]]
           /\ \A t \in MissionStates : [attempts[s][i] EXCEPT !.state = t] \in Missions
           /\ \A t : [attempts EXCEPT ![s][i].state = t]
                       = [attempts EXCEPT ![s] =
                           [attempts[s] EXCEPT ![i] = [attempts[s][i] EXCEPT !.state = t]]]
  <1>1. attempts[s][i] \in Missions
    BY SlotRows DEF SlotInv
  <1> QED BY <1>1 DEF Missions

LEMMA LeaseTaken ==
    ASSUME IInv, NEW s \in 1..Slots, NEW i \in 1..Len(attempts[s]), NEW l \in Leases,
           attempts' = [attempts EXCEPT ![s][i].lease = l]
    PROVE  Kept(attempts, attempts')
  <1> DEFINE m == [attempts[s][i] EXCEPT !.lease = l]
  <1>1. /\ m \in Missions /\ m.state = attempts[s][i].state
        /\ attempts' = [attempts EXCEPT ![s] = [attempts[s] EXCEPT ![i] = m]]
    BY Written DEF IInv
  <1> QED BY <1>1, Marked DEF IInv

LEMMA WorkingOn ==
    ASSUME IInv, NEW p \in Procs, At(p, "working")
    PROVE  proc[p].slot \in 1..Slots /\ proc[p].attempt \in 1..Len(attempts[proc[p].slot])
  <1>1. Assigned(proc[p], attempts)
    BY Mine DEF Sound
  <1>2. /\ proc[p].slot \in 1..Slots /\ proc[p].attempt \in 1..MaxAttempts
        /\ proc[p].attempt <= Len(attempts[proc[p].slot])
    BY <1>1 DEF Assigned, At
  <1>3. Len(attempts[proc[p].slot]) \in Nat
    BY <1>2, SlotRows DEF IInv, SlotInv
  <1> QED BY <1>2, <1>3, ShiftAssumption

LEMMA OrphanedKept ==
    ASSUME IInv, NEW p \in Procs, attempts' = Orphaned(p)
    PROVE  SlotInv' /\ \A v \in Held : Assigned(v, attempts) => Assigned(v, attempts')
  <1>1. CASE At(p, "working")
    <2> DEFINE s == proc[p].slot
               i == proc[p].attempt
    <2>1. s \in 1..Slots /\ i \in 1..Len(attempts[s])
      BY <1>1, WorkingOn
    <2>2. attempts' = [attempts EXCEPT ![s][i].lease = "orphaned"]
      BY <1>1 DEF Orphaned
    <2>3. "orphaned" \in Leases
      BY DEF Leases
    <2> HIDE DEF s, i
    <2>4. Kept(attempts, attempts')
      BY <2>1, <2>2, <2>3, LeaseTaken
    <2> QED BY <2>4, SlotsKept DEF IInv
  <1>2. CASE ~At(p, "working")
    BY <1>2, SlotsStay DEF Orphaned, IInv
  <1> QED BY <1>1, <1>2

LEMMA RecoverStep ==
    ASSUME IInv, NEW p \in Procs, Recover(p)
    PROVE  IInv'
  <1>1. PICK stale \in SUBSET Orphans : attempts' = Freed(stale)
    BY DEF Recover
  <1>2. SlotInv' /\ \A v \in Held : Assigned(v, attempts) => Assigned(v, attempts')
    BY <1>1, FreedKept, SlotsKept DEF IInv
  <1>3. PICK point \in {"work", "resume"} : proc' = [proc EXCEPT ![p].at = point]
    BY DEF Recover, Goes
  <1> DEFINE w == [proc[p] EXCEPT !.at = point]
  <1>4. proc' = [proc EXCEPT ![p] = w] /\ w \in Held /\ w.at = point
    BY <1>3, Mine DEF Held, Points
  <1>5. Sound(w, grants, attempts')
    BY <1>3, <1>4, PlainIsSound
  <1>6. UNCHANGED <<grants, granted>> /\ RestInv'
    BY RestStays DEF Recover
  <1> QED BY <1>2, <1>4, <1>5, <1>6, MissionMoves

LEMMA ClaimStep ==
    ASSUME IInv, NEW p \in Procs, NEW fresh \in BOOLEAN, Claim(p, fresh)
    PROVE  IInv'
  <1>0. proc[p] \in Held /\ UNCHANGED <<grants, granted>> /\ RestInv'
    BY Mine, RestStays DEF Claim
  <1>1. PICK x \in Offered(fresh) :
          /\ attempts' = [attempts EXCEPT ![x[1]][x[2]].lease = "held"]
          /\ proc' = [proc EXCEPT ![p].at = "working", ![p].left = @ - 1,
                                  ![p].slot = x[1], ![p].attempt = x[2]]
    BY DEF Claim
  <1>2. x \in (1..Slots) \X (1..MaxAttempts) /\ x[2] <= Len(attempts[x[1]])
    BY <1>1 DEF Offered
  <1>3. PICK s \in 1..Slots, i \in 1..MaxAttempts : s = x[1] /\ i = x[2]
    BY <1>2
  <1>4. Len(attempts[s]) \in Nat /\ i \in 1..Len(attempts[s])
    <2>1. Len(attempts[s]) \in Nat
      BY SlotRows DEF IInv, SlotInv
    <2> QED BY <1>2, <1>3, <2>1, ShiftAssumption
  <1>5. attempts' = [attempts EXCEPT ![s][i].lease = "held"] /\ "held" \in Leases
    BY <1>1, <1>3 DEF Leases
  <1>6. Kept(attempts, attempts')
    BY <1>4, <1>5, LeaseTaken
  <1>7. SlotInv' /\ \A v \in Held : Assigned(v, attempts) => Assigned(v, attempts')
    BY <1>6, SlotsKept DEF IInv
  <1> DEFINE w == [proc[p] EXCEPT !.at = "working", !.left = proc[p].left - 1,
                     !.slot = s, !.attempt = i]
  <1>8. proc' = [proc EXCEPT ![p] = w]
    BY <1>1, <1>3, Mine
  <1>9. w \in Held /\ w.at = "working" /\ w.slot = s /\ w.attempt = i
    <2>1. s \in 0..Slots /\ i \in 0..MaxAttempts
      BY ShiftAssumption
    <2>2. proc[p].left \in Nat /\ proc[p].left > 0
      BY <1>0 DEF Held, Claim
    <2>3. proc[p].left - 1 \in Nat
      BY <2>2
    <2> QED BY <1>0, <2>1, <2>3 DEF Held, Points
  <1>10. Len(attempts'[s]) = Len(attempts[s])
    BY <1>6 DEF Kept
  <1>11. Sound(w, grants, attempts')
    BY <1>4, <1>9, <1>10 DEF Sound, Entitled, Assigned
  <1> QED BY <1>0, <1>7, <1>8, <1>11, MissionMoves

LEMMA CrossStep ==
    ASSUME IInv, NEW p \in Procs, Cross(p)
    PROVE  IInv'
  <1>0. PICK s \in 1..Slots : s = proc[p].slot /\ proc[p].attempt \in 1..Len(attempts[s])
    BY WorkingOn DEF Cross
  <1>1. PICK i \in 1..Len(attempts[s]) : s = proc[p].slot /\ i = proc[p].attempt
    BY <1>0
  <1> DEFINE m == [attempts[s][i] EXCEPT !.state = "past"]
  <1>2. /\ attempts[s][i].state = "admitted"
        /\ attempts' = [attempts EXCEPT ![s][i].state = "past"]
    BY <1>1 DEF Cross, Work
  <1>3. m \in Missions /\ attempts' = [attempts EXCEPT ![s] = [attempts[s] EXCEPT ![i] = m]]
    <2>1. "past" \in MissionStates
      BY DEF MissionStates
    <2> QED BY <1>2, <2>1, Written DEF IInv
  <1>4. attempts[s][i].state \notin SettledStates
    BY <1>2 DEF SettledStates
  <1> HIDE DEF m
  <1>5. Kept(attempts, attempts')
    BY <1>3, <1>4, Marked DEF IInv
  <1>6. SlotInv' /\ \A v \in Held : Assigned(v, attempts) => Assigned(v, attempts')
    BY <1>5, SlotsKept DEF IInv
  <1>7. Sound(proc[p], grants, attempts') /\ proc' = [proc EXCEPT ![p] = proc[p]]
    BY <1>6, Mine DEF Cross, Sound, IInv, ProcInv
  <1>8. UNCHANGED <<grants, granted>> /\ RestInv'
    BY RestStays DEF Cross
  <1> QED BY <1>6, <1>7, <1>8, MissionMoves

LEMMA ReturnStep ==
    ASSUME IInv, NEW p \in Procs, Returns(p)
    PROVE  IInv'
  <1>0. PICK s \in 1..Slots : s = proc[p].slot /\ proc[p].attempt \in 1..Len(attempts[s])
    BY WorkingOn DEF Returns
  <1>1. PICK i \in 1..Len(attempts[s]) : s = proc[p].slot /\ i = proc[p].attempt
    BY <1>0
  <1>2. PICK t \in MissionStates : Leave(p, t)
    BY DEF Returns, MissionStates, SettledStates
  <1> DEFINE m == [state |-> t, lease |-> "free"]
  <1>3. m \in Missions /\ attempts' = [attempts EXCEPT ![s] = [attempts[s] EXCEPT ![i] = m]]
    <2>1. m \in Missions
      BY DEF Missions, Leases
    <2>2. attempts' = [attempts EXCEPT ![s][i] = m]
      BY <1>1, <1>2 DEF Leave
    <2> QED BY <2>1, <2>2, Written DEF IInv
  <1>4. attempts[s][i].state \notin SettledStates
    BY <1>1 DEF Returns, Work, SettledStates
  <1> HIDE DEF m
  <1>5. Kept(attempts, attempts')
    BY <1>3, <1>4, Marked DEF IInv
  <1>6. SlotInv' /\ \A v \in Held : Assigned(v, attempts) => Assigned(v, attempts')
    BY <1>5, SlotsKept DEF IInv
  <1>7. PICK point \in {"work", "resume"} :
          proc' = [proc EXCEPT ![p].at = point, ![p].slot = 0, ![p].attempt = 0]
    BY DEF Returns
  <1> DEFINE w == [proc[p] EXCEPT !.at = point, !.slot = 0, !.attempt = 0]
  <1>8. proc' = [proc EXCEPT ![p] = w]
    BY <1>7, Mine
  <1>9. w \in Held /\ w.at = point
    <2>1. 0 \in 0..Slots /\ 0 \in 0..MaxAttempts
      BY ShiftAssumption
    <2> QED BY <1>7, <2>1, Mine DEF Held, Points
  <1>10. Sound(w, grants, attempts')
    BY <1>7, <1>9, PlainIsSound
  <1>11. UNCHANGED <<grants, granted>> /\ RestInv'
    BY RestStays DEF Returns
  <1> QED BY <1>6, <1>8, <1>10, <1>11, MissionMoves

LEMMA SubmitStep ==
    ASSUME IInv, NEW p \in Procs, Submit(p)
    PROVE  IInv'
  <1>0. proc[p] \in Held /\ UNCHANGED <<grants, granted>> /\ RestInv'
    BY Mine, RestStays DEF Submit
  <1>1. PICK s \in 1..Slots, i \in 1..MaxAttempts :
          s = proc[p].slot /\ i = proc[p].attempt /\ Due(attempts, s, i)
    <2>1. Assigned(proc[p], attempts) /\ proc[p].at = "submit"
      BY Mine DEF Sound, Submit, At
    <2> QED BY <2>1 DEF Assigned
  <1>2. SlotInv' /\ \A v \in Held : Assigned(v, attempts) => Assigned(v, attempts')
    <2>1. UNCHANGED attempts \/ attempts' = Submitted(s, i)
      BY <1>1 DEF Submit
    <2> QED BY <1>1, <2>1, Submits, SlotsStay DEF IInv
  <1> DEFINE u == [proc[p] EXCEPT !.at = "supervise", !.slot = 0, !.attempt = 0]
  <1>3. proc' = [proc EXCEPT ![p] = Away] \/ proc' = [proc EXCEPT ![p] = u]
    BY Mine DEF Submit, Queued, Leaves
  <1>4. u \in Held /\ u.at = "supervise"
    <2>1. 0 \in 0..Slots /\ 0 \in 0..MaxAttempts
      BY ShiftAssumption
    <2> QED BY <1>0, <2>1 DEF Held, Points
  <1>5. Sound(u, grants, attempts') /\ Sound(Away, grants, attempts')
    BY <1>4, PlainIsSound, AwayIsSound
  <1> QED BY <1>0, <1>2, <1>3, <1>5, MissionMoves

LEMMA DieStep ==
    ASSUME IInv, NEW p \in Procs, Die(p)
    PROVE  IInv'
  <1>1. SlotInv' /\ \A v \in Held : Assigned(v, attempts) => Assigned(v, attempts')
    BY OrphanedKept DEF Die
  <1>2. Sound(Away, grants, attempts') /\ proc' = [proc EXCEPT ![p] = Away]
    BY AwayIsSound DEF Die, Leaves
  <1>3. UNCHANGED <<grants, granted>> /\ RestInv'
    BY FactoryAssumption DEF Die, IInv, RestInv
  <1> QED BY <1>1, <1>2, <1>3, MissionMoves

(* The loader ends the service, and whoever asked it leaves.               *)
LEMMA UnloadStep ==
    ASSUME IInv, NEW p \in Procs, Unload(p)
    PROVE  IInv'
  <1>0. Service \in Procs
    BY DEF Procs
  <1>1. SlotInv' /\ \A v \in Held : Assigned(v, attempts) => Assigned(v, attempts')
    <2>1. attempts' = Orphaned(Service) \/ UNCHANGED attempts
      BY DEF Unload
    <2> QED BY <1>0, <2>1, OrphanedKept, SlotsStay DEF IInv
  <1>2. GrantInv' /\ Grows(grants, grants') /\ RestInv'
    BY GrantsStay DEF Unload, IInv, RestInv
  <1>3. /\ proc' = [q \in Procs |-> proc'[q]]
        /\ \A q \in Procs : proc'[q] = proc[q] \/ proc'[q] = Away
    BY <1>0 DEF Unload, IInv, ProcInv
  <1>4. \A q \in Procs : proc'[q] = proc[q] \/ Sound(proc'[q], grants', attempts')
    BY <1>3, AwayIsSound
  <1>5. ProcInv'
    BY <1>1, <1>2, <1>3, <1>4, Others DEF IInv
  <1> QED BY <1>1, <1>2, <1>5 DEF IInv

-----------------------------------------------------------------------------
(* The theorems.                                                           *)

LEMMA InitIInv == Init => IInv
  <1> SUFFICES ASSUME Init PROVE IInv
    OBVIOUS
  <1>1. GrantInv
    <2>1. granted \in Seq(Refs) /\ DOMAIN granted = {}
      BY EmptySeq DEF Init, InitShift
    <2>2. grants \in [Refs -> Grants] /\ \A r \in Refs : ~grants[r].known
      BY DEF Init, InitShift, NoGrant, Grants
    <2> QED BY <2>1, <2>2, RefKinds DEF GrantInv
  <1>2. SlotInv
    <2>1. attempts \in Portfolios /\ \A s \in 1..Slots : attempts[s] = <<>>
      BY EmptySeq DEF Init, InitShift, Portfolios
    <2>2. \A s \in 1..Slots : Len(attempts[s]) = 0
      BY <2>1, EmptySeq
    <2> QED BY <2>1, <2>2, ShiftAssumption DEF SlotInv, Serial
  <1>3. ProcInv
    <2>1. \A p \in Procs : proc[p] = Away
      BY DEF Init
    <2>2. proc = [p \in Procs |-> proc[p]]
      BY DEF Init
    <2> QED BY <2>1, <2>2, AwayIsSound DEF ProcInv
  <1>4. RestInv
    <2>1. MaxMoves \in Nat /\ MaxFaults \in Nat
      BY FactoryAssumption
    <2>2. 0 \in 0..MaxMoves /\ 0 \in 0..MaxFaults
      BY <2>1
    <2> QED BY <2>2 DEF Init, RestInv, ControlStates
  <1> QED BY <1>1, <1>2, <1>3, <1>4 DEF IInv

LEMMA NextIInv == IInv /\ [Next]_vars => IInv'
  <1> SUFFICES ASSUME IInv, [Next]_vars PROVE IInv'
    OBVIOUS
  <1>0. Service \in Procs /\ Owners \subseteq Procs
    BY DEF Procs
  <1>1. ASSUME NEW p \in Owners, Lifecycle(p) PROVE IInv'
    <2>1. CASE Start(p) \/ Stop(p)
      BY <1>0, <2>1, CommandWalks
    <2>2. CASE TakeReference(p) \/ GateUnmet(p) \/ CheckGrant(p) \/ KeyTaken(p)
      BY <1>0, <2>2, GrantReads
    <2>3. CASE InsertGrant(p) \/ Undo(p) \/ Revoke(p)
      BY <1>0, <2>3, GrantWrites
    <2>4. CASE Boot(p) \/ Turn(p) \/ Confirm(p) \/ Verify(p)
      BY <1>0, <2>4, ServiceWalks
    <2>5. CASE Unload(p)
      BY <1>0, <2>5, UnloadStep
    <2>6. CASE Enter(p) \/ EndResume(p) \/ Snapshot(p) \/ Settle(p)
      BY <1>0, <2>6, DrainWalks
    <2>7. CASE Resumes(p)
      BY <1>0, <2>7, ClaimStep DEF Resumes
    <2> QED BY <1>1, <2>1, <2>2, <2>3, <2>4, <2>5, <2>6, <2>7 DEF Lifecycle
  <1>2. ASSUME NEW p \in Owners, Commands(p) PROVE IInv'
    <2>1. CASE Run(p) \/ \E r \in Refs : Apply(p, r) \/ RevokeShift(p, r) \/ Suspend(p, r)
      BY <1>0, <2>1, CommandWalks
    <2>2. CASE Reload(p)
      BY <1>0, <2>2, ServiceWalks
    <2>3. CASE Park(p)
      BY <1>0, <2>3, GrantWrites
    <2> QED BY <1>2, <2>1, <2>2, <2>3 DEF Commands
  <1>3. ASSUME NEW p \in Procs, Working(p) PROVE IInv'
    BY <1>3, RecoverStep, CrossStep, ReturnStep, QueueReads, SubmitStep DEF Working
  <1>4. ASSUME NEW p \in Procs, Die(p) PROVE IInv'
    BY <1>4, DieStep
  <1>5. CASE Cycle
    BY <1>5, CycleBegins
  <1>6. CASE Supervise \/ EndCycle
    BY <1>0, <1>6, ServiceWalks
  <1>7. CASE Advance
    <2>1. proc[Service].created \in BOOLEAN
      BY <1>0, Mine DEF Held
    <2> QED BY <1>0, <1>7, <2>1, ClaimStep DEF Advance
  <1>8. CASE (\E r \in Refs : ResumeShift(r)) \/ OwnerMoves
    BY <1>8, OwnerWrites
  <1>9. CASE UNCHANGED vars
    <2>1. UNCHANGED shiftVars /\ RestInv' /\ proc' = [proc EXCEPT ![Service] = proc[Service]]
      BY <1>9 DEF vars, shiftVars, IInv, RestInv, ProcInv
    <2> QED BY <1>0, <2>1, Mine, Walks
  <1> QED BY <1>1, <1>2, <1>3, <1>4, <1>5, <1>6, <1>7, <1>8, <1>9 DEF Next

(* The strengthened invariant: the numbers of the grants have no gap and   *)
(* only the last may live, what a start is about to insert is the next of  *)
(* them, and what a handoff is about to submit is due or already there.    *)
THEOREM FactoryInvariance == Spec => []IInv
  BY InitIInv, NextIInv, PTL DEF Spec

(* Grants, portfolio, control state and processes keep their types.        *)
THEOREM FactoryTyping == Spec => []FactoryTypeOK
  <1>1. IInv => FactoryTypeOK
    BY DEF IInv, GrantInv, SlotInv, ProcInv, RestInv, FactoryTypeOK, Portfolios, Sound, Held
  <1> QED BY <1>1, FactoryInvariance, PTL

(* However many start and stop at once, and wherever they die, the Factory *)
(* holds one live grant.                                                   *)
THEOREM OneShiftAtATime == Spec => []OneFactoryShift
  <1>1. IInv => OneFactoryShift
    BY RefKinds DEF IInv, GrantInv, OneFactoryShift, Live
  <1> QED BY <1>1, FactoryInvariance, PTL

(* However many hand off at once, a slot has one attempt that is not       *)
(* settled, and is taken up only behind slots settled for good.            *)
THEOREM PortfolioIsSerial == Spec => []StrictlySerial
  <1>1. ASSUME IInv PROVE StrictlySerial
    <2>1. attempts \in Portfolios /\ Slots \in Nat /\ MaxAttempts \in Nat
      BY <1>1, ShiftAssumption DEF IInv, SlotInv
    <2>2. ASSUME NEW t \in 1..Slots, Final(attempts, t) PROVE Settled(t) /\ ~Retryable(t)
      <3>1. Len(attempts[t]) \in Nat
        BY <2>1, SlotRows
      <3> QED BY <2>1, <2>2, <3>1 DEF Final, Settled, Retryable, Tried, Reading
    <2>3. \A s \in 1..Slots : \A t \in 1..(s - 1) : t \in 1..Slots
      BY <2>1
    <2> QED BY <1>1, <2>2, <2>3 DEF IInv, SlotInv, Serial, StrictlySerial, Tried
  <1> QED BY <1>1, FactoryInvariance, PTL
=============================================================================
