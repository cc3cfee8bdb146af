--------------------------- MODULE RevisionProofs ---------------------------
(***************************************************************************)
(* For any commands and bounds: a revision is built from a candidate the   *)
(* Owner did send back, and no version is worked twice but behind a        *)
(* mission that ended unproven.                                            *)
(*                                                                         *)
(* A command carries its version from one step to the next while packages, *)
(* missions and reviews go on.  What it found out stays true because the   *)
(* tables only grow (Later): a version keeps its predecessor, a completed  *)
(* or unproven mission stays so, a review once healthy stays healthy.  The *)
(* last needs that the one process which may still settle a deployment is   *)
(* alone with it (Alone), and that a record is replaced only where what it  *)
(* names has failed for good or is uncertain for good (HostInv).           *)
(***************************************************************************)
EXTENDS RevisionProperties, SequenceTheorems, FiniteSetTheorems, TLAPS

Mission == [version : 1..MaxVersion, attempt : {1, 2}, shift : Nat, state : States]

Pcs == {"idle", "submit", "revise", "probe", "health", "decide", "attempt", "conflict",
        "again", "seal", "deploy", "publish", "record", "late", "missed", "unclear",
        "open", "continue"}

Jobs == [pc : Pcs, v : Nat, attempt : {0, 1, 2}, shift : Nat, rc : Nat, row : Nat]

Revising == {"submit", "probe", "health", "decide", "attempt", "conflict", "again"}
Deployed == {"publish", "record", "late", "missed", "unclear"}
Reviewing == {"seal", "deploy"} \union Deployed
Rowed == {"probe", "health"} \union Deployed

Has(m, v, a) == \E i \in 1..Len(m) : m[i].version = v /\ m[i].attempt = a

(* ReviewState of the candidate c, read from the deployments l and records d. *)
Shown(l, d, c) == IF d[c].of = 0 THEN "none" ELSE l[c][d[c].of]

(* What a command w rests on, of the missions m, the package k, the        *)
(* reviews l, their records d and the returns t.                           *)
Rests(w, m, k, l, d, t) ==
    /\ w \in Jobs
    /\ w.pc \in Revising =>
         /\ w.v \in 1..Len(k) /\ w.attempt \in {1, 2}
         /\ w.v > 1 => w.rc = k[w.v] /\ d[w.rc].of # 0
         /\ w.v = 1 => w.pc = "submit" /\ w.attempt = 1
    /\ w.pc \in {"attempt", "submit", "conflict", "again"} /\ w.v > 1 =>
         w.v \in t /\ Shown(l, d, w.rc) = "healthy"
    /\ w.pc = "submit" /\ w.attempt = 2 => Has(m, w.v, 2)
    /\ w.pc = "again" =>
         /\ w.attempt = 2
         /\ \E i \in 1..Len(m) : /\ m[i].version = w.v /\ m[i].attempt = 1
                                 /\ m[i].state = "unproven"
    /\ w.pc \in Reviewing => w.rc \in 1..Len(m) /\ m[w.rc].state = "completed"
    /\ w.pc \in Rowed => w.row \in Attempts
    /\ w.pc = "missed" => l[w.rc][w.row] = "failed"
    /\ w.pc = "unclear" => l[w.rc][w.row] = "uncertain"

PackageInv ==
    /\ package \in Seq(Nat) /\ Len(package) <= MaxVersion
    /\ \A v \in 2..Len(package) :
         /\ package[v] \in 1..Len(missions) /\ package[v] \in sealed
         /\ missions[package[v]].version < v

MissionInv ==
    /\ missions \in Seq(Mission)
    /\ \A i \in 1..Len(missions) :
         /\ missions[i].version <= Len(package)
         /\ missions[i].attempt = 2 =>
              /\ missions[i].version > 1
              /\ \E j \in 1..(i - 1) : /\ missions[j].version = missions[i].version
                                       /\ missions[j].attempt = 1
                                       /\ missions[j].state = "unproven"
    /\ OnlyUnprovenSucceeded
    /\ RevisedWasReturned

Records == [says : {"none", "serving", "deploying", "failed", "uncertain"},
            of : {0} \union Attempts]

RowStates == {"none", "deploying", "verifying", "healthy", "failed", "uncertain"}

ReviewInv ==
    /\ ledger \in [Candidates -> [Attempts -> RowStates]]
    /\ record \in [Candidates -> Records]
    /\ \A c \in Candidates : /\ record[c].says = "none" <=> record[c].of = 0
                             /\ record[c].says \in {"failed", "uncertain"} =>
                                  ReviewState(c) = record[c].says

HostInv ==
    /\ ReviewInv
    /\ \A c \in sealed : c \in 1..Len(missions) /\ missions[c].state = "completed"
    /\ shift \in Nat

(* Who publishes a review is the one that began its deployment.            *)
Alone ==
    \A p \in Procs : At(p, "publish") =>
        /\ ledger[proc[p].rc][proc[p].row] = "deploying"
        /\ \A q \in Procs : At(q, "publish") /\ proc[q].rc = proc[p].rc
                               /\ proc[q].row = proc[p].row => q = p

ProcInv ==
    /\ proc = [p \in Procs |-> proc[p]]
    /\ \A p \in Procs : Rests(proc[p], missions, package, ledger, record, returned)
    /\ Alone

IInv == PackageInv /\ MissionInv /\ HostInv /\ ProcInv

-----------------------------------------------------------------------------
(* Every mission has its place among the candidates: two of one version    *)
(* are its two attempts, and the first version has one.                    *)

Place(i) == IF missions[i].version = 1 THEN 1
            ELSE 2 * missions[i].version - 3 + missions[i].attempt

LEMMA PlacesDiffer ==
    ASSUME NEW v \in Nat \ {0}, NEW w \in Nat \ {0}, NEW a \in {1, 2}, NEW b \in {1, 2},
           v = w => a = 1 /\ b = 2, b = 2 => w > 1
    PROVE  (IF v = 1 THEN 1 ELSE 2 * v - 3 + a) # (IF w = 1 THEN 1 ELSE 2 * w - 3 + b)
  OBVIOUS

LEMMA Rows ==
    ASSUME MissionInv
    PROVE  /\ Len(missions) \in Nat /\ DOMAIN missions = 1..Len(missions)
           /\ \A i \in 1..Len(missions) : missions[i] \in Mission
  BY LenProperties, ElementOfSeq DEF MissionInv

LEMMA Placed ==
    ASSUME MissionInv
    PROVE  /\ \A i \in 1..Len(missions) : Place(i) \in Candidates
           /\ \A i, j \in 1..Len(missions) : i < j => Place(i) # Place(j)
  <1>1. MaxVersion \in Nat \ {0}
    BY RevisionAssumption
  <1>2. ASSUME NEW i \in 1..Len(missions)
        PROVE  /\ missions[i].version \in 1..MaxVersion /\ missions[i].attempt \in {1, 2}
               /\ missions[i].attempt = 2 => missions[i].version > 1
    BY Rows DEF Mission, MissionInv
  <1>3. ASSUME NEW i \in 1..Len(missions) PROVE Place(i) \in Candidates
    BY <1>1, <1>2 DEF Place, Candidates
  <1>4. ASSUME NEW i \in 1..Len(missions), NEW j \in 1..Len(missions), i < j
        PROVE  Place(i) # Place(j)
    <2>1. missions[i].version = missions[j].version =>
            missions[i].attempt = 1 /\ missions[j].attempt = 2
      BY <1>4, Rows DEF MissionInv, OnlyUnprovenSucceeded
    <2>2. /\ missions[i].version \in Nat \ {0} /\ missions[j].version \in Nat \ {0}
          /\ missions[i].attempt \in {1, 2} /\ missions[j].attempt \in {1, 2}
          /\ missions[j].attempt = 2 => missions[j].version > 1
      BY <1>1, <1>2
    <2> QED BY <2>1, <2>2, PlacesDiffer DEF Place
  <1> QED BY <1>3, <1>4

LEMMA MissionsAreCandidates ==
    ASSUME MissionInv
    PROVE  1..Len(missions) \subseteq Candidates
  <1> DEFINE n == Len(missions)
             f == [i \in 1..n |-> Place(i)]
  <1>1. n \in Nat /\ MaxVersion \in Nat \ {0}
    BY Rows, RevisionAssumption
  <1>2. f \in [1..n -> Candidates]
    BY Placed
  <1>3. \A i, j \in 1..n : f[i] = f[j] => i = j
    <2> TAKE i, j \in 1..n
    <2>1. f[i] = Place(i) /\ f[j] = Place(j)
      OBVIOUS
    <2>2. i < j \/ j < i \/ i = j
      BY <1>1
    <2> QED BY <2>1, <2>2, Placed
  <1> HIDE DEF f
  <1>4. IsFiniteSet(1..n) /\ Cardinality(1..n) = n
    <2>1. IsFiniteSet(1..n) /\ Cardinality(1..n) = IF 1 > n THEN 0 ELSE n - 1 + 1
      BY <1>1, FS_Interval
    <2> QED BY <1>1, <2>1
  <1>5. IsFiniteSet(Candidates) /\ Cardinality(Candidates) = 2 * MaxVersion - 1
    <2> DEFINE b == 2 * MaxVersion - 1
    <2>1. b \in Int /\ b >= 1 /\ Candidates = 1..b
      BY <1>1 DEF Candidates
    <2> HIDE DEF b
    <2>2. IsFiniteSet(1..b) /\ Cardinality(1..b) = IF 1 > b THEN 0 ELSE b - 1 + 1
      BY <2>1, FS_Interval
    <2>3. Cardinality(1..b) = b
      BY <2>1, <2>2
    <2> QED BY <2>1, <2>2, <2>3 DEF b
  <1>6. ~ (Cardinality(Candidates) < Cardinality(1..n))
    BY <1>2, <1>3, <1>4, <1>5, FS_PigeonHole
  <1>7. n <= 2 * MaxVersion - 1
    BY <1>1, <1>4, <1>5, <1>6
  <1> QED BY <1>1, <1>7 DEF Candidates

-----------------------------------------------------------------------------
(* How the tables grow.                                                    *)

Onward(c) ==
    /\ \A n \in Attempts : ledger[c][n] \in {"healthy", "failed", "uncertain"} =>
                              ledger'[c][n] = ledger[c][n]
    /\ record[c].of # 0 => record'[c].of # 0
    /\ ReviewState(c) = "healthy" => ReviewState(c)' = "healthy"

Later ==
    /\ Len(missions) <= Len(missions')
    /\ \A i \in 1..Len(missions) :
         /\ missions'[i].version = missions[i].version
         /\ missions'[i].attempt = missions[i].attempt
         /\ missions[i].state \in {"completed", "unproven"} =>
              missions'[i].state = missions[i].state
    /\ Len(package) <= Len(package')
    /\ \A v \in 1..Len(package) : package'[v] = package[v]
    /\ \A c \in Candidates : Onward(c)
    /\ returned \subseteq returned' /\ sealed \subseteq sealed'

LEMMA Lengths ==
    ASSUME IInv
    PROVE  /\ Len(missions) \in Nat /\ Len(package) \in Nat
           /\ 1..Len(missions) \subseteq Candidates
           /\ \A v \in 2..Len(package) : package[v] \in 1..Len(missions)
           /\ MaxVersion \in Nat \ {0}
  BY Rows, LenProperties, MissionsAreCandidates, RevisionAssumption
  DEF IInv, PackageInv

LEMMA StaysShown ==
    ASSUME Later, NEW c \in Candidates, Shown(ledger, record, c) = "healthy"
    PROVE  Shown(ledger', record', c) = "healthy"
  BY DEF Later, Onward, Shown, ReviewState, Named

LEMMA RestsStays ==
    ASSUME IInv, Later, Len(missions') \in Nat, Len(package') \in Nat, NEW w,
           Rests(w, missions, package, ledger, record, returned)
    PROVE  Rests(w, missions', package', ledger', record', returned')
  <1> USE Lengths
  <1>1. w \in Jobs
    BY DEF Rests
  <1>2. ASSUME w.pc \in Revising
        PROVE  /\ w.v \in 1..Len(package') /\ w.attempt \in {1, 2}
               /\ w.v > 1 => w.rc = package'[w.v] /\ record'[w.rc].of # 0
               /\ w.v = 1 => w.pc = "submit" /\ w.attempt = 1
    <2>1. w.v \in 1..Len(package) /\ w.v \in 1..Len(package')
      BY <1>2 DEF Rests, Later
    <2>2. w.v > 1 => w.v \in 2..Len(package) /\ w.rc \in Candidates
      BY <1>2, <2>1 DEF Rests
    <2> QED BY <1>2, <2>1, <2>2 DEF Rests, Later, Onward
  <1>3. ASSUME w.pc \in {"attempt", "submit", "conflict", "again"}, w.v > 1
        PROVE  w.v \in returned' /\ Shown(ledger', record', w.rc) = "healthy"
    <2>1. w.pc \in Revising
      BY <1>3 DEF Revising
    <2>2. w.v \in 2..Len(package) /\ w.rc = package[w.v]
      BY <1>3, <2>1 DEF Rests
    <2>3. w.rc \in Candidates
      BY <2>2
    <2>4. w.v \in returned /\ Shown(ledger, record, w.rc) = "healthy"
      BY <1>3 DEF Rests
    <2> QED BY <2>3, <2>4, StaysShown DEF Later
  <1>4. \A i \in 1..Len(missions) : i \in 1..Len(missions')
    BY DEF Later
  <1>5. w.pc = "submit" /\ w.attempt = 2 => Has(missions', w.v, 2)
    BY <1>4 DEF Rests, Has, Later
  <1>6. w.pc = "again" =>
          /\ w.attempt = 2
          /\ \E i \in 1..Len(missions') : /\ missions'[i].version = w.v
                                          /\ missions'[i].attempt = 1
                                          /\ missions'[i].state = "unproven"
    BY <1>4 DEF Rests, Later
  <1>7. w.pc \in Reviewing => w.rc \in 1..Len(missions') /\ missions'[w.rc].state = "completed"
    BY <1>4 DEF Rests, Later
  <1>8. /\ w.pc \in Rowed => w.row \in Attempts
        /\ w.pc = "missed" => ledger'[w.rc][w.row] = "failed"
        /\ w.pc = "unclear" => ledger'[w.rc][w.row] = "uncertain"
    <2>1. w.pc \in Deployed => w.row \in Attempts /\ w.rc \in Candidates
      BY DEF Rests, Reviewing, Rowed
    <2> QED BY <2>1 DEF Rests, Deployed, Later, Onward
  <1> QED BY <1>1, <1>2, <1>3, <1>5, <1>6, <1>7, <1>8 DEF Rests

(* What a revision i of version v owes to what was reviewed.               *)
LEMMA RevisionStands ==
    ASSUME IInv, Later, NEW i \in 1..Len(missions), missions[i].version > 1
    PROVE  LET v == missions[i].version
               c == package[v]
           IN /\ v \in 1..Len(package) /\ c \in 1..(i - 1) /\ c \in 1..Len(missions)
              /\ package'[v] = c /\ missions'[c].state = "completed"
              /\ missions'[c].version < v /\ c \in sealed' /\ v \in returned'
              /\ Shown(ledger', record', c) = "healthy"
  <1>1. PICK v : v = missions[i].version
    OBVIOUS
  <1>2. PICK c : c = package[v]
    OBVIOUS
  <1>3. v \in 1..Len(package)
    <2>1. missions[i] \in Mission /\ v <= Len(package)
      BY <1>1, Rows DEF IInv, MissionInv
    <2> QED BY <1>1, <2>1, Lengths DEF Mission
  <1>4. /\ c \in 1..(i - 1) /\ missions[c].state = "completed" /\ missions[c].version < v
        /\ c \in sealed /\ Shown(ledger, record, c) = "healthy" /\ v \in returned
    BY <1>1, <1>2, Rows DEF IInv, MissionInv, RevisedWasReturned, Shown, ReviewState, Named
  <1>5. c \in 1..Len(missions) /\ c \in Candidates
    BY <1>4, Lengths
  <1> QED BY <1>1, <1>2, <1>3, <1>4, <1>5, StaysShown DEF Later

LEMMA MissionsStand ==
    ASSUME IInv, Later, missions' \in Seq(Mission), Len(missions') = Len(missions),
           Len(package') \in Nat
    PROVE  MissionInv'
  <1>1. Len(missions) \in Nat /\ DOMAIN missions = 1..Len(missions)
        /\ DOMAIN missions' = 1..Len(missions) /\ Len(package) \in Nat
    BY Rows, Lengths, LenProperties DEF IInv
  <1>2. ASSUME NEW i \in 1..Len(missions)
        PROVE  /\ missions'[i].version <= Len(package')
               /\ missions'[i].attempt = 2 =>
                    /\ missions'[i].version > 1
                    /\ \E j \in 1..(i - 1) : /\ missions'[j].version = missions'[i].version
                                             /\ missions'[j].attempt = 1
                                             /\ missions'[j].state = "unproven"
    <2>1. missions[i] \in Mission /\ missions'[i].version = missions[i].version
          /\ missions'[i].attempt = missions[i].attempt
      BY <1>1, Rows DEF IInv, Later
    <2>2. missions'[i].version <= Len(package')
      <3>1. missions[i].version <= Len(package) /\ missions[i].version \in Nat
        BY <2>1 DEF IInv, MissionInv, Mission
      <3> QED BY <1>1, <2>1, <3>1 DEF Later
    <2>3. \A j \in 1..(i - 1) : j \in 1..Len(missions)
      BY <1>1
    <2> QED BY <2>1, <2>2, <2>3 DEF IInv, MissionInv, Later
  <1>3. OnlyUnprovenSucceeded'
    BY <1>1 DEF IInv, MissionInv, OnlyUnprovenSucceeded, Later
  <1>4. RevisedWasReturned'
    <2> SUFFICES ASSUME NEW i \in 1..Len(missions), missions'[i].version > 1
                 PROVE  LET v == missions'[i].version
                            c == package'[v]
                        IN /\ c \in 1..(i - 1)
                           /\ missions'[c].state = "completed" /\ missions'[c].version < v
                           /\ c \in sealed' /\ Shown(ledger', record', c) = "healthy"
                           /\ v \in returned'
      BY <1>1 DEF RevisedWasReturned, Shown, ReviewState, Named
    <2>1. missions'[i].version = missions[i].version
      BY DEF Later
    <2> QED BY <2>1, RevisionStands
  <1> QED BY <1>1, <1>2, <1>3, <1>4 DEF MissionInv

LEMMA PackageStands ==
    ASSUME IInv, Later, UNCHANGED package, Len(missions') \in Nat
    PROVE  PackageInv'
  <1>1. ASSUME NEW v \in 2..Len(package)
        PROVE  /\ package[v] \in 1..Len(missions') /\ package[v] \in sealed'
               /\ missions'[package[v]].version < v
    <2>1. /\ package[v] \in 1..Len(missions) /\ package[v] \in sealed
          /\ missions[package[v]].version < v
      BY DEF IInv, PackageInv
    <2> QED BY <2>1, Lengths DEF Later
  <1> QED BY <1>1 DEF IInv, PackageInv

LEMMA SealedStand ==
    ASSUME IInv, Later, Len(missions') \in Nat
    PROVE  \A c \in sealed : c \in 1..Len(missions') /\ missions'[c].state = "completed"
  BY Lengths DEF IInv, HostInv, Later

(* One process moves, to a place that is not the middle of a deployment.   *)
LEMMA OneMoves ==
    ASSUME IInv, Later, PackageInv', MissionInv', HostInv', NEW p \in Procs, NEW w,
           Rests(w, missions', package', ledger', record', returned'), w.pc # "publish",
           proc' = [proc EXCEPT ![p] = w],
           \A q \in Procs \ {p} : At(q, "publish") =>
             ledger'[proc[q].rc][proc[q].row] = ledger[proc[q].rc][proc[q].row]
    PROVE  IInv'
  <1>1. Len(missions') \in Nat /\ Len(package') \in Nat
    BY LenProperties DEF MissionInv, PackageInv
  <1>2. /\ proc' = [q \in Procs |-> proc'[q]] /\ proc'[p] = w
        /\ \A q \in Procs : q # p => proc'[q] = proc[q]
    BY DEF IInv, ProcInv
  <1>3. \A q \in Procs : Rests(proc'[q], missions', package', ledger', record', returned')
    BY <1>1, <1>2, RestsStays DEF IInv, ProcInv
  <1>4. Alone'
    BY <1>2 DEF IInv, ProcInv, Alone, At
  <1> QED BY <1>2, <1>3, <1>4 DEF IInv, ProcInv

(* Nobody moves.                                                           *)
LEMMA NobodyMoves ==
    ASSUME IInv, Later, PackageInv', MissionInv', HostInv', UNCHANGED proc,
           \A q \in Procs : At(q, "publish") =>
             ledger'[proc[q].rc][proc[q].row] = ledger[proc[q].rc][proc[q].row]
    PROVE  IInv'
  <1>1. Len(missions') \in Nat /\ Len(package') \in Nat
    BY LenProperties DEF MissionInv, PackageInv
  <1>2. \A q \in Procs : Rests(proc[q], missions', package', ledger', record', returned')
    BY <1>1, RestsStays DEF IInv, ProcInv
  <1>3. Alone'
    BY DEF IInv, ProcInv, Alone, At
  <1> QED BY <1>2, <1>3 DEF IInv, ProcInv

LEMMA TablesStay ==
    ASSUME IInv, UNCHANGED <<package, missions, sealed, ledger, record, returned>>
    PROVE  Later /\ PackageInv' /\ MissionInv' /\ (shift' \in Nat => HostInv')
  <1>1. Later
    BY Lengths DEF Later, Onward, ReviewState, Named
  <1>2. PackageInv'
    BY DEF IInv, PackageInv
  <1>3. MissionInv'
    BY DEF IInv, MissionInv, OnlyUnprovenSucceeded, RevisedWasReturned, ReviewState, Named
  <1>4. shift' \in Nat => HostInv'
    BY DEF IInv, HostInv, ReviewInv, ReviewState, Named
  <1> QED BY <1>1, <1>2, <1>3, <1>4

(* A command goes on, and writes nothing of the tables.                    *)
LEMMA Walks ==
    ASSUME IInv, UNCHANGED <<package, missions, sealed, ledger, record, returned>>,
           shift' \in Nat, NEW p \in Procs, NEW w,
           Rests(w, missions, package, ledger, record, returned), w.pc # "publish",
           proc' = [proc EXCEPT ![p] = w]
    PROVE  IInv'
  <1>1. Later /\ PackageInv' /\ MissionInv' /\ HostInv'
    BY TablesStay
  <1>2. Rests(w, missions', package', ledger', record', returned')
    OBVIOUS
  <1> QED BY <1>1, <1>2, OneMoves

LEMMA Mine ==
    ASSUME IInv, NEW p \in Procs
    PROVE  /\ proc[p] \in Jobs /\ Rests(proc[p], missions, package, ledger, record, returned)
           /\ \A w : [proc EXCEPT ![p] = w] = [q \in Procs |-> IF q = p THEN w ELSE proc[q]]
  BY DEF IInv, ProcInv, Rests

LEMMA IdleRests ==
    ASSUME NEW m, NEW k, NEW l, NEW d, NEW t
    PROVE  Idle.pc = "idle" /\ Rests(Idle, m, k, l, d, t)
  <1>1. Idle \in Jobs /\ Idle.pc = "idle"
    BY DEF Idle, Jobs, Pcs
  <1> QED BY <1>1 DEF Rests, Revising, Reviewing, Deployed, Rowed

-----------------------------------------------------------------------------
(* The moves of a command.                                                 *)

LEMMA Moves ==
    ASSUME IInv, NEW p \in Procs, NEW pc \in Pcs, Goto(p, pc)
    PROVE  \E w \in Jobs :
             /\ proc' = [proc EXCEPT ![p] = w] /\ w.pc = pc /\ w.v = proc[p].v
             /\ w.attempt = proc[p].attempt /\ w.shift = proc[p].shift /\ w.rc = proc[p].rc
             /\ w.row = proc[p].row
  <1> DEFINE w == [proc[p] EXCEPT !.pc = pc]
  <1>1. proc' = [proc EXCEPT ![p] = w]
    BY DEF Goto
  <1>2. /\ w \in Jobs /\ w.pc = pc /\ w.v = proc[p].v /\ w.attempt = proc[p].attempt
        /\ w.shift = proc[p].shift /\ w.rc = proc[p].rc /\ w.row = proc[p].row
    BY Mine DEF Jobs
  <1> QED BY <1>1, <1>2

LEMMA Ends ==
    ASSUME IInv, UNCHANGED <<package, missions, sealed, ledger, record, returned>>,
           shift' \in Nat, NEW p \in Procs, End(p)
    PROVE  IInv'
  BY IdleRests, Walks DEF End

(* A place where nothing is known of the command yet.                      *)
LEMMA Fresh ==
    ASSUME NEW w \in Jobs, w.pc \in {"idle", "revise", "open", "continue"},
           NEW m, NEW k, NEW l, NEW d, NEW t
    PROVE  Rests(w, m, k, l, d, t)
  BY DEF Rests, Revising, Reviewing, Deployed, Rowed

LEMMA Grants ==
    ASSUME IInv, NEW p \in Procs, NEW v \in Nat \ {0}, NEW pc \in {"submit", "probe"},
           Granted(p, v, pc), v > 1 => package[v] \in Candidates
    PROVE  \E w \in Jobs :
             /\ proc' = [proc EXCEPT ![p] = w] /\ w.pc = pc /\ w.v = v
             /\ w.attempt = 1 /\ (v > 1 => w.rc = package[v] /\ w.row = Named(package[v]))
  <1>1. PICK c : c = IF v = 1 THEN 0 ELSE package[v]
    OBVIOUS
  <1>3. PICK n : n = IF v = 1 THEN 0 ELSE Named(package[v])
    OBVIOUS
  <1> DEFINE w == [pc |-> pc, v |-> v, attempt |-> 1, shift |-> shift, rc |-> c, row |-> n]
  <1>4. proc' = [proc EXCEPT ![p] = w]
    BY <1>1, <1>3 DEF Granted
  <1>5. w = [pc |-> pc, v |-> v, attempt |-> 1, shift |-> shift, rc |-> c, row |-> n]
    OBVIOUS
  <1> HIDE DEF w
  <1>6. c \in Nat /\ n \in Nat /\ shift \in Nat /\ pc \in Pcs /\ (v > 1 => c = package[v])
    <2>1. v > 1 => record[package[v]] \in Records
      BY DEF IInv, HostInv, ReviewInv
    <2>2. \A d \in Records : d.of \in Nat
      BY DEF Records, Attempts
    <2>3. v > 1 => Named(package[v]) \in Nat /\ package[v] \in Nat
      BY <2>1, <2>2 DEF Named, Candidates
    <2>4. shift \in Nat /\ pc \in Pcs
      BY DEF IInv, HostInv, Pcs
    <2> QED BY <1>1, <1>3, <2>3, <2>4
  <1>7. w \in Jobs /\ w.pc = pc /\ w.v = v /\ w.attempt = 1
        /\ (v > 1 => w.rc = package[v] /\ w.row = Named(package[v]))
    BY <1>3, <1>5, <1>6 DEF Jobs
  <1> QED BY <1>4, <1>7

-----------------------------------------------------------------------------
(* Moves that write nothing of the tables.                                 *)

LEMMA ProductKeeps ==
    ASSUME IInv, NEW p \in Procs, Product(p)
    PROVE  IInv'
  <1>1. Granted(p, 1, "submit") /\ OnlyProc /\ Len(package) = 1
    BY DEF Product
  <1>2. PICK w \in Jobs : proc' = [proc EXCEPT ![p] = w] /\ w.pc = "submit" /\ w.v = 1
                          /\ w.attempt = 1
    BY <1>1, Grants
  <1>3. Rests(w, missions, package, ledger, record, returned)
    BY <1>1, <1>2 DEF Rests, Revising, Reviewing, Deployed, Rowed
  <1> QED BY <1>1, <1>2, <1>3, Walks
          DEF OnlyProc, Rest, shiftVars, releaseVars, IInv, HostInv

LEMMA ReviseKeeps ==
    ASSUME IInv, NEW p \in Procs, Revise(p)
    PROVE  IInv'
  <1>1. PICK v : v = Len(package)
    OBVIOUS
  <1>2. /\ v \in Nat \ {0} /\ v > 1 /\ OnlyProc /\ package[v] \in Candidates
        /\ \/ Granted(p, v, "probe") /\ record[package[v]].of # 0
           \/ End(p)
    BY <1>1, Lengths DEF Revise, Prepared, Named
  <1>3. CASE Granted(p, v, "probe") /\ record[package[v]].of # 0
    <2>1. PICK w \in Jobs : proc' = [proc EXCEPT ![p] = w] /\ w.pc = "probe" /\ w.v = v
                            /\ w.attempt = 1 /\ w.rc = package[v]
                            /\ w.row = record[package[v]].of
      BY <1>2, <1>3, Grants DEF Named
    <2>3. w.row \in Attempts
      BY <1>2, <1>3, <2>1 DEF IInv, HostInv, ReviewInv, Records
    <2>2. Rests(w, missions, package, ledger, record, returned)
      BY <1>1, <1>2, <1>3, <2>1, <2>3 DEF Rests, Revising, Reviewing, Deployed, Rowed
    <2> QED BY <1>2, <2>1, <2>2, Walks
            DEF OnlyProc, Rest, shiftVars, releaseVars, IInv, HostInv
  <1>4. CASE End(p)
    BY <1>2, <1>4, Ends DEF OnlyProc, Rest, shiftVars, releaseVars, IInv, HostInv
  <1> QED BY <1>2, <1>3, <1>4

LEMMA ProbeKeeps ==
    ASSUME IInv, NEW p \in Procs, Probe(p)
    PROVE  IInv'
  <1>1. OnlyProc /\ proc[p].pc = "probe"
    BY DEF Probe, At
  <1>2. ASSUME NEW pc \in {"decide", "health"}, Goto(p, pc) PROVE IInv'
    <2>1. PICK w \in Jobs :
             /\ proc' = [proc EXCEPT ![p] = w] /\ w.pc = pc /\ w.v = proc[p].v
             /\ w.attempt = proc[p].attempt /\ w.rc = proc[p].rc /\ w.row = proc[p].row
      <3>1. pc \in Pcs
        BY DEF Pcs
      <3> QED BY <1>2, <3>1, Moves
    <2>2. Rests(w, missions, package, ledger, record, returned)
      BY <1>1, <2>1, Mine DEF Rests, Revising, Reviewing, Deployed, Rowed
    <2> QED BY <1>1, <2>1, <2>2, Walks
            DEF OnlyProc, Rest, shiftVars, releaseVars, IInv, HostInv
  <1>3. CASE End(p)
    BY <1>1, <1>3, Ends DEF OnlyProc, Rest, shiftVars, releaseVars, IInv, HostInv
  <1> QED BY <1>2, <1>3 DEF Probe

LEMMA MaxOfAttempts ==
    ASSUME NEW S \in SUBSET {1, 2}
    PROVE  Max({1} \union S) \in {1, 2} /\ (Max({1} \union S) = 2 => 2 \in S)
  <1>1. \E x \in {1} \union S : \A y \in {1} \union S : x >= y
    <2>1. CASE 2 \in S
      BY <2>1
    <2>2. CASE 2 \notin S
      BY <2>2
    <2> QED BY <2>1, <2>2
  <1>2. PICK T : T = {1} \union S
    OBVIOUS
  <1>3. Max(T) \in T
    BY <1>1, <1>2 DEF Max
  <1>4. Max(T) \in {1, 2} /\ (Max(T) = 2 => 2 \in S)
    <2>1. \A x \in T : x \in {1, 2} /\ (x = 2 => 2 \in S)
      BY <1>2
    <2> QED BY <1>3, <2>1
  <1> QED BY <1>2, <1>4

LEMMA ReadAttemptKeeps ==
    ASSUME IInv, NEW p \in Procs, ReadAttempt(p)
    PROVE  IInv'
  <1>1. OnlyProc /\ proc[p].pc = "attempt"
    BY DEF ReadAttempt, At
  <1>2. PICK v : v = proc[p].v
    OBVIOUS
  <1>3. PICK a : a = Attempt(v)
    OBVIOUS
  <1>4. a \in {1, 2} /\ (a = 2 => Has(missions, v, 2))
    <2> DEFINE S == {missions[i].attempt : i \in {j \in DOMAIN missions : missions[j].version = v}}
    <2>1. S \in SUBSET {1, 2}
      BY Rows DEF IInv, Mission
    <2>2. a = Max({1} \union S)
      BY <1>3 DEF Attempt
    <2>3. 2 \in S => Has(missions, v, 2)
      BY Rows DEF IInv, Has
    <2> HIDE DEF S
    <2> QED BY <2>1, <2>2, <2>3, MaxOfAttempts
  <1>5. PICK w : w = [proc[p] EXCEPT !.pc = "submit", !.attempt = a]
    OBVIOUS
  <1>6. proc' = [proc EXCEPT ![p] = w]
    BY <1>2, <1>3, <1>5 DEF ReadAttempt
  <1>7. w \in Jobs /\ w.pc = "submit" /\ w.v = v /\ w.attempt = a /\ w.rc = proc[p].rc
    BY <1>2, <1>4, <1>5, Mine DEF Jobs, Pcs
  <1>8. Rests(w, missions, package, ledger, record, returned)
    <2>1. /\ v \in 1..Len(package) /\ (v > 1 => w.rc = package[v] /\ record[w.rc].of # 0)
          /\ v # 1 /\ (v > 1 => v \in returned /\ Shown(ledger, record, w.rc) = "healthy")
      BY <1>1, <1>2, <1>7, Mine DEF Rests, Revising
    <2> QED BY <1>4, <1>7, <2>1 DEF Rests, Revising, Reviewing, Deployed, Rowed
  <1> QED BY <1>1, <1>6, <1>7, <1>8, Walks
          DEF OnlyProc, Rest, shiftVars, releaseVars, IInv, HostInv

LEMMA ConflictKeeps ==
    ASSUME IInv, NEW p \in Procs, Conflict(p)
    PROVE  IInv'
  <1>1. OnlyProc /\ proc[p].pc = "conflict"
    BY DEF Conflict, At
  <1>2. ASSUME NEW i \in Of(proc[p].v, 1), Retirable(i),
               proc' = [proc EXCEPT ![p].pc = "again", ![p].attempt = 2]
        PROVE  IInv'
    <2>1. PICK w : w = [proc[p] EXCEPT !.pc = "again", !.attempt = 2]
      OBVIOUS
    <2>2. proc' = [proc EXCEPT ![p] = w]
      BY <1>2, <2>1
    <2>3. w \in Jobs /\ w.pc = "again" /\ w.v = proc[p].v /\ w.attempt = 2 /\ w.rc = proc[p].rc
      BY <2>1, Mine DEF Jobs, Pcs
    <2>4. i \in 1..Len(missions) /\ missions[i].version = w.v /\ missions[i].attempt = 1
          /\ missions[i].state = "unproven"
      BY <1>2, <2>3, Rows DEF IInv, Of, Retirable
    <2>5. Rests(w, missions, package, ledger, record, returned)
      <3>1. /\ w.v \in 1..Len(package) /\ w.v # 1
            /\ w.v > 1 => w.rc = package[w.v] /\ record[w.rc].of # 0
            /\ w.v > 1 => w.v \in returned /\ Shown(ledger, record, w.rc) = "healthy"
        BY <1>1, <2>3, Mine DEF Rests, Revising
      <3> QED BY <2>3, <2>4, <3>1 DEF Rests, Revising, Reviewing, Deployed, Rowed
    <2> QED BY <1>1, <2>2, <2>3, <2>5, Walks
            DEF OnlyProc, Rest, shiftVars, releaseVars, IInv, HostInv
  <1>3. CASE End(p)
    BY <1>1, <1>3, Ends DEF OnlyProc, Rest, shiftVars, releaseVars, IInv, HostInv
  <1> QED BY <1>2, <1>3 DEF Conflict

LEMMA ReviewKeeps ==
    ASSUME IInv, NEW p \in Procs, Review(p)
    PROVE  IInv'
  <1>1. PICK c : c = Latest
    OBVIOUS
  <1>2. c \in 1..Len(missions) /\ missions[c].state = "completed" /\ OnlyProc
    BY <1>1, Lengths DEF Review, LatestDone, Held, Latest
  <1>3. PICK i : i = Idle
    OBVIOUS
  <1>4. PICK w : w = [i EXCEPT !.pc = "seal", !.rc = c]
    OBVIOUS
  <1>5. proc' = [proc EXCEPT ![p] = w]
    BY <1>1, <1>3, <1>4 DEF Review
  <1>6. w \in Jobs /\ w.pc = "seal" /\ w.rc = c
    <2>1. i \in Jobs /\ c \in Nat
      BY <1>2, <1>3, Lengths DEF Idle, Jobs, Pcs
    <2> QED BY <1>4, <2>1 DEF Jobs, Pcs
  <1>7. Rests(w, missions, package, ledger, record, returned)
    BY <1>2, <1>6 DEF Rests, Revising, Reviewing, Deployed, Rowed
  <1> QED BY <1>2, <1>5, <1>6, <1>7, Walks
          DEF OnlyProc, Rest, shiftVars, releaseVars, IInv, HostInv

LEMMA OpenKeeps ==
    ASSUME IInv, NEW p \in Procs, Open(p)
    PROVE  IInv'
  <1>1. Goto(p, "continue") /\ shift' \in Nat
        /\ UNCHANGED <<package, missions, sealed, ledger, record, returned>>
    BY DEF Open, releaseVars, IInv, HostInv
  <1>2. PICK w \in Jobs : proc' = [proc EXCEPT ![p] = w] /\ w.pc = "continue"
    BY <1>1, Moves DEF Pcs
  <1> QED BY <1>1, <1>2, Fresh, Walks

LEMMA WaitingBriefKeeps ==
    ASSUME IInv, NEW p \in Procs, WaitingBrief(p)
    PROVE  IInv'
  <1>1. OnlyProc
    BY DEF WaitingBrief
  <1>2. CASE package # <<>> /\ Granted(p, 1, "submit")
    <2>1. 1 \in 1..Len(package)
      BY <1>2, Lengths, EmptySeq DEF IInv, PackageInv
    <2>2. PICK w \in Jobs : proc' = [proc EXCEPT ![p] = w] /\ w.pc = "submit" /\ w.v = 1
                            /\ w.attempt = 1
      BY <1>2, Grants
    <2>3. Rests(w, missions, package, ledger, record, returned)
      BY <2>1, <2>2 DEF Rests, Revising, Reviewing, Deployed, Rowed
    <2> QED BY <1>1, <2>2, <2>3, Walks
            DEF OnlyProc, Rest, shiftVars, releaseVars, IInv, HostInv
  <1>3. CASE End(p)
    BY <1>1, <1>3, Ends DEF OnlyProc, Rest, shiftVars, releaseVars, IInv, HostInv
  <1> QED BY <1>2, <1>3 DEF WaitingBrief

LEMMA DieKeeps ==
    ASSUME IInv, NEW p \in Procs, Die(p)
    PROVE  IInv'
  BY Ends DEF Die, shiftVars, releaseVars, IInv, HostInv

LEMMA HostKeeps ==
    ASSUME IInv, Stop \/ Portfolio \/ Bar
    PROVE  IInv'
  <1>1. UNCHANGED <<package, missions, sealed, ledger, record, returned, shift, proc>>
    BY DEF Stop, Portfolio, Bar, hostVars, releaseVars
  <1>2. Later /\ PackageInv' /\ MissionInv' /\ HostInv'
    BY <1>1, TablesStay DEF IInv, HostInv
  <1> QED BY <1>1, <1>2, NobodyMoves

-----------------------------------------------------------------------------
(* Moves that write a package, a review or a record.                       *)

(* What these need of the tables, the missions and packages left alone.    *)
LEMMA TablesGrow ==
    ASSUME IInv, UNCHANGED <<package, missions>>, shift' \in Nat,
           ReviewInv', \A c \in Candidates : Onward(c),
           returned \subseteq returned', sealed \subseteq sealed',
           \A c \in sealed' : c \in 1..Len(missions) /\ missions[c].state = "completed"
    PROVE  Later /\ PackageInv' /\ MissionInv' /\ HostInv'
  <1>1. Later
    BY Lengths DEF Later
  <1>2. PackageInv' /\ MissionInv'
    BY <1>1, Lengths, PackageStands, MissionsStand DEF IInv, MissionInv
  <1>3. HostInv'
    BY DEF HostInv
  <1> QED BY <1>1, <1>2, <1>3

LEMMA SameReviews ==
    ASSUME IInv, UNCHANGED <<ledger, record>>
    PROVE  ReviewInv' /\ \A c \in Candidates : Onward(c)
  BY DEF IInv, HostInv, ReviewInv, Onward, ReviewState, Named

(* A deployment moves on that has not come to its end.                     *)
LEMMA OneSettles ==
    ASSUME IInv, NEW c \in Candidates, NEW n \in Attempts, NEW s \in RowStates,
           Settle(c, n, s),
           ledger[c][n] \notin {"healthy", "failed", "uncertain"}, UNCHANGED record
    PROVE  /\ ReviewInv' /\ \A d \in Candidates : Onward(d)
           /\ ledger'[c][n] = s
           /\ \A d \in Candidates, a \in Attempts :
                d # c \/ a # n => ledger'[d][a] = ledger[d][a]
  <1>1. ledger \in [Candidates -> [Attempts -> RowStates]]
    BY DEF IInv, HostInv, ReviewInv
  <1>2. ledger' = [d \in Candidates |-> [a \in Attempts |->
                     IF d = c /\ a = n THEN s ELSE ledger[d][a]]]
    BY <1>1 DEF Settle
  <1>3. /\ ledger' \in [Candidates -> [Attempts -> RowStates]]
        /\ ledger'[c][n] = s
        /\ \A d \in Candidates, a \in Attempts :
             d # c \/ a # n => ledger'[d][a] = ledger[d][a]
    BY <1>1, <1>2
  <1>4. ASSUME NEW d \in Candidates, ReviewState(d) \in {"healthy", "failed", "uncertain"}
        PROVE  ReviewState(d)' = ReviewState(d)
    <2>1. record[d].of = 0 \/ record[d].of \in Attempts
      BY DEF IInv, HostInv, ReviewInv, Records
    <2> QED BY <1>3, <1>4, <2>1 DEF ReviewState, Named
  <1>5. \A d \in Candidates : Onward(d)
    BY <1>3, <1>4 DEF Onward
  <1>6. ReviewInv'
    BY <1>3, <1>4 DEF IInv, HostInv, ReviewInv
  <1> QED BY <1>3, <1>5, <1>6

(* A version more, of the candidate c.                                     *)
LEMMA PackageGrows ==
    ASSUME IInv, NEW c \in Nat, package' = Append(package, c), Len(package) < MaxVersion,
           Len(package) > 0 => c \in 1..Len(missions) /\ c \in sealed,
           UNCHANGED <<missions, sealed, ledger, record, returned, shift>>
    PROVE  Later /\ PackageInv' /\ MissionInv' /\ HostInv' /\ Len(package') = Len(package) + 1
  <1>1. package \in Seq(Nat) /\ Len(package) \in Nat
    BY Lengths DEF IInv, PackageInv
  <1>2. /\ package' \in Seq(Nat) /\ Len(package') = Len(package) + 1
        /\ \A v \in 1..Len(package) : package'[v] = package[v]
        /\ package'[Len(package) + 1] = c
    BY <1>1, AppendProperties
  <1>3. Later
    BY <1>1, <1>2, SameReviews DEF Later
  <1>4. MissionInv'
    BY <1>1, <1>2, <1>3, MissionsStand DEF IInv, MissionInv
  <1>5. PackageInv'
    <2>1. ASSUME NEW v \in 2..Len(package')
          PROVE  /\ package'[v] \in 1..Len(missions) /\ package'[v] \in sealed
                 /\ missions[package'[v]].version < v
      <3>1. CASE v \in 1..Len(package)
        BY <1>1, <1>2, <3>1 DEF IInv, PackageInv
      <3>2. CASE v = Len(package) + 1
        <4>1. Len(package) > 0
          BY <1>1, <3>2
        <4>2. missions[c].version <= Len(package) /\ missions[c] \in Mission
          BY <4>1, Rows DEF IInv, MissionInv
        <4> QED BY <1>1, <1>2, <3>2, <4>1, <4>2 DEF Mission
      <3> QED BY <1>1, <1>2, <3>1, <3>2
    <2>2. Len(package') <= MaxVersion
      BY <1>1, <1>2, Lengths
    <2> QED BY <1>2, <2>1, <2>2 DEF PackageInv
  <1>6. HostInv'
    BY SameReviews DEF IInv, HostInv
  <1> QED BY <1>2, <1>3, <1>4, <1>5, <1>6

LEMMA BriefKeeps ==
    ASSUME IInv, NEW p \in Procs, Brief(p)
    PROVE  IInv'
  <1>1. /\ package = <<>> /\ package' = <<0>> /\ At(p, "idle") /\ Rest
        /\ Granted(p, 1, "submit") \/ End(p)
    BY DEF Brief, FirstPackage, Free
  <1>2. package' = Append(package, 0) /\ Len(package) = 0
    BY <1>1
  <1>3. Later /\ PackageInv' /\ MissionInv' /\ HostInv' /\ Len(package') = 1
    BY <1>1, <1>2, PackageGrows, Lengths DEF Rest, shiftVars, releaseVars
  <1>4. CASE Granted(p, 1, "submit")
    <2>1. PICK w \in Jobs : proc' = [proc EXCEPT ![p] = w] /\ w.pc = "submit" /\ w.v = 1
                            /\ w.attempt = 1
      BY <1>4, Grants
    <2>2. Rests(w, missions', package', ledger', record', returned')
      BY <1>3, <2>1 DEF Rests, Revising, Reviewing, Deployed, Rowed
    <2> QED BY <1>1, <1>3, <2>1, <2>2, OneMoves DEF Rest, releaseVars
  <1>5. CASE End(p)
    BY <1>1, <1>3, <1>5, IdleRests, OneMoves DEF Rest, releaseVars, End
  <1> QED BY <1>1, <1>4, <1>5

LEMMA FollowOnKeeps ==
    ASSUME IInv, NEW p \in Procs, FollowOn(p)
    PROVE  IInv'
  <1>1. /\ package' = Append(package, Latest) /\ Len(package) < MaxVersion /\ Rest
        /\ Latest \in 1..Len(missions) /\ Latest \in sealed
        /\ Goto(p, "revise") \/ End(p)
    BY Lengths DEF FollowOn, Derived, Reviewed, LatestDone, Latest
  <1>2. Later /\ PackageInv' /\ MissionInv' /\ HostInv'
    BY <1>1, PackageGrows, Lengths DEF Rest, shiftVars, releaseVars
  <1>3. CASE Goto(p, "revise")
    <2>1. PICK w \in Jobs : proc' = [proc EXCEPT ![p] = w] /\ w.pc = "revise"
      BY <1>3, Moves DEF Pcs
    <2> QED BY <1>1, <1>2, <2>1, Fresh, OneMoves DEF Rest, releaseVars
  <1>4. CASE End(p)
    BY <1>1, <1>2, <1>4, IdleRests, OneMoves DEF Rest, releaseVars, End
  <1> QED BY <1>1, <1>3, <1>4

LEMMA PublishedAreCandidates ==
    ASSUME IInv
    PROVE  \A q \in Procs : At(q, "publish") =>
             /\ proc[q].rc \in Candidates /\ proc[q].row \in Attempts
             /\ ledger[proc[q].rc][proc[q].row] = "deploying"
  BY Mine, Lengths DEF At, Rests, Reviewing, Deployed, Rowed, IInv, ProcInv, Alone

LEMMA RecordHealthKeeps ==
    ASSUME IInv, NEW p \in Procs, RecordHealth(p)
    PROVE  IInv'
  <1>1. PICK c : c = proc[p].rc
    OBVIOUS
  <1>2. PICK n : n = proc[p].row
    OBVIOUS
  <1>3. /\ proc[p].pc = "health"
        /\ UNCHANGED <<shift, package, missions, sealed, record, returned>>
    BY DEF RecordHealth, At, shiftVars
  <1>4. c \in Candidates /\ n \in Attempts
    <2>1. /\ proc[p].v \in 1..Len(package) /\ proc[p].v # 1 /\ n \in Attempts
          /\ proc[p].v > 1 => c = package[proc[p].v]
      BY <1>1, <1>2, <1>3, Mine DEF Rests, Revising, Rowed
    <2> QED BY <2>1, Lengths
  <1>5. CASE ledger[c][n] = "verifying" /\ Settle(c, n, "healthy") /\ Goto(p, "decide")
    <2>1. PICK w \in Jobs :
             /\ proc' = [proc EXCEPT ![p] = w] /\ w.pc = "decide" /\ w.v = proc[p].v
             /\ w.attempt = proc[p].attempt /\ w.rc = proc[p].rc
      BY <1>5, Moves DEF Pcs
    <2>2. /\ ReviewInv' /\ \A d \in Candidates : Onward(d)
          /\ \A d \in Candidates, a \in Attempts :
               d # c \/ a # n => ledger'[d][a] = ledger[d][a]
      BY <1>3, <1>4, <1>5, OneSettles DEF RowStates
    <2>3. Later /\ PackageInv' /\ MissionInv' /\ HostInv'
      BY <1>3, <2>2, TablesGrow DEF IInv, HostInv
    <2>4. Rests(w, missions', package', ledger', record', returned')
      BY <1>3, <2>1, Mine DEF Rests, Revising, Reviewing, Deployed, Rowed
    <2>5. \A q \in Procs : At(q, "publish") =>
            ledger'[proc[q].rc][proc[q].row] = ledger[proc[q].rc][proc[q].row]
      BY <1>5, <2>2, PublishedAreCandidates
    <2> QED BY <2>1, <2>3, <2>4, <2>5, OneMoves
  <1>6. CASE End(p) /\ UNCHANGED ledger
    BY <1>3, <1>6, Ends DEF IInv, HostInv
  <1> QED BY <1>1, <1>2, <1>5, <1>6 DEF RecordHealth

LEMMA DecideKeeps ==
    ASSUME IInv, NEW p \in Procs, Decide(p)
    PROVE  IInv'
  <1>1. /\ proc[p].pc = "decide"
        /\ UNCHANGED <<shift, package, missions, sealed, record, ledger>>
    BY DEF Decide, At, shiftVars, releaseVars
  <1>2. CASE /\ Decidable(proc[p].rc) /\ returned' = returned \union {proc[p].v}
             /\ Goto(p, "attempt")
    <2>1. PICK w \in Jobs :
             /\ proc' = [proc EXCEPT ![p] = w] /\ w.pc = "attempt" /\ w.v = proc[p].v
             /\ w.attempt = proc[p].attempt /\ w.rc = proc[p].rc
      BY <1>2, Moves DEF Pcs
    <2>2. Later /\ PackageInv' /\ MissionInv' /\ HostInv'
      BY <1>1, <1>2, SameReviews, TablesGrow DEF IInv, HostInv
    <2>3. Rests(w, missions', package', ledger', record', returned')
      BY <1>1, <1>2, <2>1, Mine DEF Rests, Revising, Reviewing, Deployed, Rowed, Decidable, Shown, ReviewState, Named
    <2> QED BY <1>1, <2>1, <2>2, <2>3, OneMoves
  <1>3. CASE End(p) /\ UNCHANGED returned
    BY <1>1, <1>3, Ends DEF IInv, HostInv
  <1> QED BY <1>2, <1>3 DEF Decide

LEMMA SealKeeps ==
    ASSUME IInv, NEW p \in Procs, Seal(p)
    PROVE  IInv'
  <1>1. PICK c : c = proc[p].rc
    OBVIOUS
  <1>2. /\ proc[p].pc = "seal"
        /\ UNCHANGED <<shift, package, missions, ledger, record, returned>>
    BY <1>1 DEF Seal, At, shiftVars
  <1>3. CASE sealed' = sealed \union {c} /\ Goto(p, "deploy")
    <2>1. c \in 1..Len(missions) /\ missions[c].state = "completed"
      BY <1>1, <1>2, Mine DEF Rests, Reviewing
    <2>2. PICK w \in Jobs : proc' = [proc EXCEPT ![p] = w] /\ w.pc = "deploy" /\ w.rc = c
      BY <1>1, <1>3, Moves DEF Pcs
    <2>3. Later /\ PackageInv' /\ MissionInv' /\ HostInv'
      BY <1>2, <1>3, <2>1, SameReviews, TablesGrow DEF IInv, HostInv
    <2>4. Rests(w, missions', package', ledger', record', returned')
      BY <1>2, <2>1, <2>2 DEF Rests, Revising, Reviewing, Deployed, Rowed
    <2> QED BY <1>2, <2>2, <2>3, <2>4, OneMoves
  <1>4. CASE End(p) /\ UNCHANGED sealed
    BY <1>2, <1>4, Ends DEF IInv, HostInv
  <1> QED BY <1>1, <1>3, <1>4 DEF Seal, Sealed

(* A deployment begins where there is none, so nobody else is in the       *)
(* middle of it.                                                           *)
LEMMA DeployKeeps ==
    ASSUME IInv, NEW p \in Procs, Deploy(p)
    PROVE  IInv'
  <1>1. PICK c : c = proc[p].rc
    OBVIOUS
  <1>2. proc[p].pc = "deploy" /\ UNCHANGED <<shift, package, missions, sealed, record, returned>>
    BY DEF Deploy, At, shiftVars
  <1>3. c \in 1..Len(missions) /\ missions[c].state = "completed" /\ c \in Candidates
    BY <1>1, <1>2, Mine, Lengths DEF Rests, Reviewing
  <1>4. ASSUME NEW n \in Attempts, NEW pc \in Deployed,
               proc' = [proc EXCEPT ![p].pc = pc, ![p].row = n]
        PROVE  \E w \in Jobs : /\ proc' = [proc EXCEPT ![p] = w] /\ w.pc = pc
                               /\ w.rc = c /\ w.row = n
    <2> DEFINE w == [proc[p] EXCEPT !.pc = pc, !.row = n]
    <2>1. w \in Jobs /\ w.pc = pc /\ w.rc = c /\ w.row = n
      <3>1. proc[p] \in Jobs
        BY Mine
      <3>2. pc \in Pcs
        BY DEF Pcs, Deployed
      <3>3. n \in Nat
        BY DEF Attempts
      <3> QED BY <1>1, <3>1, <3>2, <3>3 DEF Jobs
    <2>2. proc' = [proc EXCEPT ![p] = w]
      BY <1>4
    <2> QED BY <2>1, <2>2
  <1>5. ASSUME NEW n \in Attempts, ledger[c][n] = "none", Settle(c, n, "deploying"),
               proc' = [proc EXCEPT ![p].pc = "publish", ![p].row = n]
        PROVE  IInv'
    <2>1. PICK w \in Jobs : /\ proc' = [proc EXCEPT ![p] = w] /\ w.pc = "publish"
                            /\ w.rc = c /\ w.row = n
      BY <1>4, <1>5 DEF Deployed
    <2>2. /\ ReviewInv' /\ \A d \in Candidates : Onward(d)
          /\ ledger'[c][n] = "deploying"
          /\ \A d \in Candidates, a \in Attempts :
               d # c \/ a # n => ledger'[d][a] = ledger[d][a]
      BY <1>2, <1>3, <1>5, OneSettles DEF RowStates
    <2>3. Later /\ PackageInv' /\ MissionInv' /\ HostInv'
      BY <1>2, <2>2, TablesGrow DEF IInv, HostInv
    <2>4. Rests(w, missions', package', ledger', record', returned')
      BY <1>2, <1>3, <2>1 DEF Rests, Revising, Reviewing, Deployed, Rowed
    <2>5. /\ proc' = [q \in Procs |-> proc'[q]] /\ proc'[p] = w
          /\ \A q \in Procs : q # p => proc'[q] = proc[q]
      BY <2>1 DEF IInv, ProcInv
    <2>6. \A q \in Procs : Rests(proc'[q], missions', package', ledger', record', returned')
      BY <1>2, <2>3, <2>4, <2>5, Lengths, RestsStays DEF IInv, ProcInv
    <2>7. \A q \in Procs : At(q, "publish") => proc[q].rc # c \/ proc[q].row # n
      BY <1>5, PublishedAreCandidates
    <2>8. Alone'
      BY <2>1, <2>2, <2>5, <2>7, PublishedAreCandidates DEF IInv, ProcInv, Alone, At
    <2> QED BY <2>3, <2>5, <2>6, <2>8 DEF IInv, ProcInv
  <1>6. ASSUME NEW n \in Attempts, NEW pc \in {"late", "unclear", "record"}, UNCHANGED ledger,
               pc = "unclear" => ledger[c][n] = "uncertain",
               proc' = [proc EXCEPT ![p].pc = pc, ![p].row = n]
        PROVE  IInv'
    <2>1. PICK w \in Jobs : /\ proc' = [proc EXCEPT ![p] = w] /\ w.pc = pc
                            /\ w.rc = c /\ w.row = n
      <3>1. pc \in Deployed
        BY DEF Deployed
      <3> QED BY <1>4, <1>6, <3>1
    <2>2. Rests(w, missions, package, ledger, record, returned)
      BY <1>3, <1>6, <2>1 DEF Rests, Revising, Reviewing, Deployed, Rowed
    <2> QED BY <1>2, <1>6, <2>1, <2>2, Walks DEF IInv, HostInv
  <1>7. CASE End(p) /\ UNCHANGED ledger
    BY <1>2, <1>7, Ends DEF IInv, HostInv
  <1>8. \A n \in Attempts : ledger[c][n] \in {"deploying", "uncertain", "verifying", "healthy"} =>
          /\ Found[ledger[c][n]] \in {"late", "unclear", "record"}
          /\ Found[ledger[c][n]] = "unclear" => ledger[c][n] = "uncertain"
    BY DEF Found
  <1>9. CASE \E n \in Attempts :
               /\ ledger[c][n] # "failed"
               /\ IF ledger[c][n] = "none"
                    THEN /\ Settle(c, n, "deploying")
                         /\ proc' = [proc EXCEPT ![p].pc = "publish", ![p].row = n]
                    ELSE /\ UNCHANGED ledger
                         /\ proc' = [proc EXCEPT ![p].pc = Found[ledger[c][n]], ![p].row = n]
    <2>1. PICK n \in Attempts :
             /\ ledger[c][n] # "failed"
             /\ IF ledger[c][n] = "none"
                  THEN /\ Settle(c, n, "deploying")
                       /\ proc' = [proc EXCEPT ![p].pc = "publish", ![p].row = n]
                  ELSE /\ UNCHANGED ledger
                       /\ proc' = [proc EXCEPT ![p].pc = Found[ledger[c][n]], ![p].row = n]
      BY <1>9
    <2>2. ledger[c][n] \in RowStates
      BY <1>3 DEF IInv, HostInv, ReviewInv
    <2>3. CASE ledger[c][n] = "none"
      BY <1>5, <2>1, <2>3
    <2>4. CASE ledger[c][n] # "none"
      <3>1. ledger[c][n] \in {"deploying", "uncertain", "verifying", "healthy"}
        BY <2>1, <2>2, <2>4 DEF RowStates
      <3> QED BY <1>6, <1>8, <2>1, <2>4, <3>1
    <2> QED BY <2>3, <2>4
  <1> QED BY <1>1, <1>7, <1>9 DEF Deploy, Current

LEMMA PublishKeeps ==
    ASSUME IInv, NEW p \in Procs, Publish(p)
    PROVE  IInv'
  <1>1. PICK c : c = proc[p].rc
    OBVIOUS
  <1>2. PICK n : n = proc[p].row
    OBVIOUS
  <1>3. PICK s, pc : /\ Settle(c, n, s) /\ Goto(p, pc)
                     /\ <<s, pc>> \in {<<"verifying", "record">>, <<"failed", "missed">>,
                                      <<"uncertain", "unclear">>}
    BY <1>1, <1>2 DEF Publish
  <1>4. /\ At(p, "publish")
        /\ UNCHANGED <<shift, package, missions, sealed, record, returned>>
    BY DEF Publish, shiftVars
  <1>5. /\ c \in 1..Len(missions) /\ missions[c].state = "completed" /\ c \in Candidates
        /\ n \in Attempts /\ ledger[c][n] = "deploying"
    BY <1>1, <1>2, <1>4, Mine, PublishedAreCandidates DEF Rests, Reviewing, Deployed, At
  <1>6. PICK w \in Jobs : /\ proc' = [proc EXCEPT ![p] = w] /\ w.pc = pc
                          /\ w.rc = c /\ w.row = n
    <2>1. pc \in Pcs
      BY <1>3 DEF Pcs
    <2> QED BY <1>1, <1>2, <1>3, <2>1, Moves
  <1>7. /\ ReviewInv' /\ \A d \in Candidates : Onward(d)
        /\ ledger'[c][n] = s
        /\ \A d \in Candidates, a \in Attempts :
             d # c \/ a # n => ledger'[d][a] = ledger[d][a]
    BY <1>3, <1>4, <1>5, OneSettles DEF RowStates
  <1>8. Later /\ PackageInv' /\ MissionInv' /\ HostInv'
    BY <1>4, <1>7, TablesGrow DEF IInv, HostInv
  <1>9. Rests(w, missions', package', ledger', record', returned')
    BY <1>3, <1>4, <1>5, <1>6, <1>7 DEF Rests, Revising, Reviewing, Deployed, Rowed
  <1>10. \A q \in Procs \ {p} : At(q, "publish") =>
           ledger'[proc[q].rc][proc[q].row] = ledger[proc[q].rc][proc[q].row]
    <2>1. \A q \in Procs \ {p} : At(q, "publish") => proc[q].rc # c \/ proc[q].row # n
      BY <1>1, <1>2, <1>4 DEF IInv, ProcInv, Alone
    <2> QED BY <1>7, <2>1, PublishedAreCandidates
  <1>11. w.pc # "publish"
    BY <1>3, <1>6
  <1> QED BY <1>6, <1>8, <1>9, <1>10, <1>11, OneMoves

(* A record that is replaced named a deployment that can become nothing    *)
(* else, or none.                                                          *)
LEMMA RecordKeeps ==
    ASSUME IInv, NEW p \in Procs, Record(p)
    PROVE  IInv'
  <1>1. End(p) /\ UNCHANGED <<shift, package, missions, sealed, ledger, returned>>
    BY DEF Record, shiftVars
  <1>2. PICK c : c = proc[p].rc
    OBVIOUS
  <1>3. PICK n : n = proc[p].row
    OBVIOUS
  <1>4. PICK says : says = Says[proc[p].pc]
    OBVIOUS
  <1>5. /\ c \in Candidates /\ n \in Attempts
        /\ says \in {"serving", "deploying", "failed", "uncertain"}
        /\ says \in {"failed", "uncertain"} => ledger[c][n] = says
    <2>1. proc[p].pc \in {"record", "late", "missed", "unclear"}
      BY DEF Record, Says
    <2> QED BY <1>2, <1>3, <1>4, <2>1, Mine, Lengths
            DEF Rests, Reviewing, Deployed, Rowed, Says
  <1>6. CASE Replaceable(c) /\ record' = [record EXCEPT ![c] = [says |-> says, of |-> n]]
    <2>1. record \in [Candidates -> Records]
      BY DEF IInv, HostInv, ReviewInv
    <2>2. [says |-> says, of |-> n] \in Records
      BY <1>5 DEF Records
    <2>3. /\ record' \in [Candidates -> Records]
          /\ record'[c].says = says /\ record'[c].of = n
          /\ \A d \in Candidates : d # c => record'[d] = record[d]
      BY <1>5, <1>6, <2>1, <2>2
    <2>4. n # 0
      BY <1>5 DEF Attempts
    <2>5. ReviewState(c) # "healthy"
      BY <1>5, <1>6 DEF Replaceable, IInv, HostInv, ReviewInv, ReviewState, Named
    <2>6. \A d \in Candidates : Onward(d)
      BY <1>1, <2>3, <2>4, <2>5 DEF Onward, ReviewState, Named
    <2>7. ReviewInv'
      BY <1>1, <1>5, <2>3, <2>4 DEF IInv, HostInv, ReviewInv, ReviewState, Named
    <2>8. Later /\ PackageInv' /\ MissionInv' /\ HostInv'
      BY <1>1, <2>6, <2>7, TablesGrow DEF IInv, HostInv
    <2> QED BY <1>1, <2>8, IdleRests, OneMoves DEF End
  <1>7. CASE UNCHANGED record
    BY <1>1, <1>7, Ends DEF IInv, HostInv
  <1> QED BY <1>2, <1>3, <1>4, <1>6, <1>7 DEF Record

LEMMA PromoteKeeps ==
    ASSUME IInv, NEW c \in Candidates, Promote(c)
    PROVE  IInv'
  <1>1. PICK n : n = Named(c)
    OBVIOUS
  <1>2. /\ n # 0 /\ ledger[c][n] \in {"healthy", "verifying"} /\ Settle(c, n, "healthy")
        /\ UNCHANGED <<shift, package, missions, sealed, record, returned, proc>>
    BY <1>1 DEF Promote, Prepared, Decidable, ReviewState, shiftVars
  <1>3. n \in Attempts
    BY <1>1, <1>2 DEF IInv, HostInv, ReviewInv, Records, Named
  <1>4. CASE ledger[c][n] = "healthy"
    <2>1. ledger \in [Candidates -> [Attempts -> RowStates]]
      BY DEF IInv, HostInv, ReviewInv
    <2>2. UNCHANGED ledger
      BY <1>2, <1>3, <1>4, <2>1 DEF Settle
    <2>3. Later /\ PackageInv' /\ MissionInv' /\ HostInv'
      BY <1>2, <2>2, TablesStay DEF IInv, HostInv
    <2> QED BY <1>2, <2>2, <2>3, NobodyMoves
  <1>5. CASE ledger[c][n] = "verifying"
    <2>1. /\ ReviewInv' /\ \A d \in Candidates : Onward(d)
          /\ \A d \in Candidates, a \in Attempts :
               d # c \/ a # n => ledger'[d][a] = ledger[d][a]
      BY <1>2, <1>3, <1>5, OneSettles DEF RowStates
    <2>2. Later /\ PackageInv' /\ MissionInv' /\ HostInv'
      BY <1>2, <2>1, TablesGrow DEF IInv, HostInv
    <2>3. \A q \in Procs : At(q, "publish") =>
            ledger'[proc[q].rc][proc[q].row] = ledger[proc[q].rc][proc[q].row]
      BY <1>5, <2>1, PublishedAreCandidates
    <2> QED BY <1>2, <2>2, <2>3, NobodyMoves
  <1> QED BY <1>2, <1>4, <1>5

-----------------------------------------------------------------------------
(* Moves that write a mission.                                             *)

(* What these need of the tables, all but the missions left alone.         *)
LEMMA MissionsGrow ==
    ASSUME IInv, Later, missions' \in Seq(Mission), MissionInv',
           UNCHANGED <<shift, package, sealed, ledger, record, returned>>
    PROVE  PackageInv' /\ HostInv'
  <1>1. Len(missions') \in Nat
    BY LenProperties
  <1> QED BY <1>1, PackageStands, SealedStand, SameReviews DEF IInv, HostInv

LEMMA SetStateKeeps ==
    ASSUME IInv, NEW i \in 1..Len(missions), NEW s \in States, SetState(i, s),
           missions[i].state \notin {"completed", "unproven"}
    PROVE  IInv'
  <1>1. /\ missions' = [missions EXCEPT ![i].state = s]
        /\ UNCHANGED <<shift, package, sealed, ledger, record, returned, proc>>
    BY DEF SetState, shiftVars, releaseVars
  <1>2. missions \in Seq(Mission) /\ missions[i] \in Mission
    BY Rows DEF IInv, MissionInv
  <1>3. PICK r : r = [missions[i] EXCEPT !.state = s]
    OBVIOUS
  <1>4. r \in Mission /\ r.version = missions[i].version /\ r.attempt = missions[i].attempt
    BY <1>2, <1>3 DEF Mission
  <1>5. missions' = [missions EXCEPT ![i] = r]
    BY <1>1, <1>3
  <1>6. /\ missions' \in Seq(Mission) /\ Len(missions') = Len(missions) /\ missions'[i] = r
        /\ \A j \in 1..Len(missions) : j # i => missions'[j] = missions[j]
    BY <1>2, <1>4, <1>5, ExceptSeq
  <1>7. Later
    BY <1>1, <1>4, <1>6, Lengths, SameReviews DEF Later
  <1>8. MissionInv'
    BY <1>1, <1>6, <1>7, Lengths, MissionsStand
  <1>9. PackageInv' /\ HostInv'
    BY <1>1, <1>6, <1>7, <1>8, MissionsGrow
  <1> QED BY <1>1, <1>7, <1>8, <1>9, NobodyMoves

LEMMA WorkKeeps ==
    ASSUME IInv, NEW i \in DOMAIN missions, Work(i)
    PROVE  IInv'
  BY Rows, SetStateKeeps DEF IInv, Work, States

LEMMA FinishKeeps ==
    ASSUME IInv, NEW i \in DOMAIN missions, NEW s \in States, Finish(i, s)
    PROVE  IInv'
  BY Rows, SetStateKeeps DEF IInv, Finish

LEMMA StartKeeps ==
    ASSUME IInv, NEW p \in Procs, Start(p)
    PROVE  IInv'
  <1>1. /\ missions' = [i \in DOMAIN missions |->
                         IF i \in Stale THEN [missions[i] EXCEPT !.state = "admitted"]
                         ELSE missions[i]]
        /\ Goto(p, "open") /\ UNCHANGED <<shift, package, sealed, ledger, record, returned>>
    BY DEF Start, shiftVars, releaseVars
  <1>2. PICK n \in Nat : n = Len(missions) /\ DOMAIN missions = 1..n
    BY Rows DEF IInv
  <1>3. ASSUME NEW i \in 1..n
        PROVE  /\ missions'[i] \in Mission /\ missions'[i].version = missions[i].version
               /\ missions'[i].attempt = missions[i].attempt
               /\ missions[i].state # "stale" => missions'[i] = missions[i]
    <2>1. missions[i] \in Mission
      BY <1>2, Rows DEF IInv
    <2>2. CASE i \in Stale
      <3>1. missions'[i] = [missions[i] EXCEPT !.state = "admitted"]
        BY <1>1, <1>2, <2>2
      <3> QED BY <2>1, <2>2, <3>1 DEF Mission, States, Stale
    <2>3. CASE i \notin Stale
      BY <1>1, <1>2, <2>1, <2>3
    <2> QED BY <2>2, <2>3
  <1>4. missions' \in Seq(Mission) /\ Len(missions') = n
    <2>1. missions' \in [1..n -> Mission]
      BY <1>1, <1>2, <1>3
    <2> QED BY <2>1, SeqDef, LenProperties
  <1>5. Later
    <2>1. \A i \in 1..Len(missions) :
            /\ missions'[i].version = missions[i].version
            /\ missions'[i].attempt = missions[i].attempt
            /\ missions[i].state \in {"completed", "unproven"} =>
                 missions'[i].state = missions[i].state
      BY <1>2, <1>3
    <2> QED BY <1>1, <1>2, <1>4, <2>1, Lengths, SameReviews DEF Later
  <1>6. MissionInv'
    BY <1>1, <1>2, <1>4, <1>5, Lengths, MissionsStand
  <1>7. PackageInv' /\ HostInv'
    BY <1>1, <1>4, <1>5, <1>6, MissionsGrow
  <1>8. PICK w \in Jobs : proc' = [proc EXCEPT ![p] = w] /\ w.pc = "open"
    BY <1>1, Moves DEF Pcs
  <1> QED BY <1>1, <1>5, <1>6, <1>7, <1>8, Fresh, OneMoves

(* An admission under a free key.                                          *)
LEMMA AdmissionStands ==
    ASSUME IInv, NEW p \in Procs, proc[p].pc \in {"submit", "again"},
           Of(proc[p].v, proc[p].attempt) = {}, missions' = Append(missions, Admission(p)),
           UNCHANGED <<shift, package, sealed, ledger, record, returned>>
    PROVE  Later /\ PackageInv' /\ MissionInv' /\ HostInv'
  <1>1. PICK n \in Nat : n = Len(missions) /\ DOMAIN missions = 1..n
    BY Rows DEF IInv
  <1>2. PICK v : v = proc[p].v
    OBVIOUS
  <1>3. PICK a : a = proc[p].attempt
    OBVIOUS
  <1>4. PICK new : new = Admission(p)
    OBVIOUS
  <1>5. /\ v \in 1..Len(package) /\ a \in {1, 2} /\ proc[p].shift \in Nat
        /\ v = 1 => a = 1
        /\ v > 1 => /\ proc[p].rc = package[v] /\ record[package[v]].of # 0
                    /\ v \in returned /\ Shown(ledger, record, package[v]) = "healthy"
        /\ a = 2 => \E j \in 1..n : /\ missions[j].version = v /\ missions[j].attempt = 1
                                    /\ missions[j].state = "unproven"
    <2>1. /\ v \in 1..Len(package) /\ a \in {1, 2} /\ proc[p].shift \in Nat
          /\ v = 1 => a = 1
          /\ v > 1 => /\ proc[p].rc = package[v] /\ record[package[v]].of # 0
                      /\ v \in returned /\ Shown(ledger, record, package[v]) = "healthy"
      BY <1>2, <1>3, Mine DEF Rests, Revising, Jobs
    <2>2. proc[p].pc = "submit" => a # 2
      BY <1>1, <1>2, <1>3, Mine DEF Rests, Has, Of
    <2>3. proc[p].pc = "again" =>
            \E j \in 1..n : /\ missions[j].version = v /\ missions[j].attempt = 1
                            /\ missions[j].state = "unproven"
      BY <1>1, <1>2, Mine DEF Rests
    <2> QED BY <2>1, <2>2, <2>3
  <1>6. /\ new \in Mission /\ new.version = v /\ new.attempt = a
    <2>1. v \in 1..MaxVersion
      BY <1>5, Lengths DEF IInv, PackageInv
    <2> QED BY <1>2, <1>3, <1>4, <1>5, <2>1 DEF Admission, Mission, States
  <1>7. /\ missions' \in Seq(Mission) /\ Len(missions') = n + 1 /\ missions'[n + 1] = new
        /\ \A i \in 1..n : missions'[i] = missions[i]
        /\ DOMAIN missions' = 1..(n + 1)
    <2>1. missions \in Seq(Mission) /\ missions' = Append(missions, new)
      BY <1>4 DEF IInv, MissionInv
    <2>2. missions' \in Seq(Mission) /\ Len(missions') = n + 1 /\ missions'[n + 1] = new
          /\ \A i \in 1..n : missions'[i] = missions[i]
      BY <1>1, <1>6, <2>1, AppendProperties
    <2> QED BY <2>2, LenProperties
  <1>8. Later
    BY <1>1, <1>7, Lengths, SameReviews DEF Later
  <1>9. ASSUME NEW i \in 1..n, missions[i].version = v
        PROVE  /\ missions[i].attempt = 1 /\ a = 2 /\ missions[i].state = "unproven"
    <2>1. missions[i].attempt \in {1, 2} /\ missions[i].attempt # a
      BY <1>1, <1>2, <1>3, <1>9, Rows DEF IInv, Of, Mission
    <2>2. CASE a = 1
      <3>1. PICK j \in 1..(i - 1) : missions[j].version = v /\ missions[j].attempt = 1
        BY <1>1, <1>9, <2>1, <2>2 DEF IInv, MissionInv
      <3>2. j \in Of(v, 1)
        BY <1>1, <3>1 DEF Of
      <3> QED BY <1>2, <1>3, <2>2, <3>2
    <2>3. CASE a = 2
      <3>1. PICK j \in 1..n : /\ missions[j].version = v /\ missions[j].attempt = 1
                              /\ missions[j].state = "unproven"
        BY <1>5, <2>3
      <3>2. missions[i].attempt = 1
        BY <2>1, <2>3
      <3>3. ~(i < j) /\ ~(j < i)
        BY <1>1, <1>9, <3>1, <3>2 DEF IInv, MissionInv, OnlyUnprovenSucceeded
      <3>4. i = j
        BY <3>3
      <3> QED BY <2>3, <3>1, <3>2, <3>4
    <2> QED BY <1>5, <2>2, <2>3
  <1>10. OnlyUnprovenSucceeded'
    <2> SUFFICES ASSUME NEW i \in 1..(n + 1), NEW j \in 1..(n + 1), i < j,
                        missions'[i].version = missions'[j].version
                 PROVE  /\ missions'[i].attempt = 1 /\ missions'[j].attempt = 2
                        /\ missions'[i].state = "unproven"
      BY <1>7 DEF OnlyUnprovenSucceeded
    <2>1. i \in 1..n
      OBVIOUS
    <2>2. CASE j \in 1..n
      BY <1>1, <1>7, <2>1, <2>2 DEF IInv, MissionInv, OnlyUnprovenSucceeded
    <2>3. CASE j = n + 1
      BY <1>6, <1>7, <1>9, <2>1, <2>3
    <2> QED BY <1>1, <2>2, <2>3
  <1>11. RevisedWasReturned'
    <2> SUFFICES ASSUME NEW i \in 1..(n + 1), missions'[i].version > 1
                 PROVE  LET u == missions'[i].version
                            c == package'[u]
                        IN /\ c \in 1..(i - 1)
                           /\ missions'[c].state = "completed" /\ missions'[c].version < u
                           /\ c \in sealed' /\ Shown(ledger', record', c) = "healthy"
                           /\ u \in returned'
      BY <1>7 DEF RevisedWasReturned, Shown, ReviewState, Named
    <2>1. CASE i \in 1..n
      <3>1. missions'[i].version = missions[i].version
        BY <1>7, <2>1
      <3> QED BY <1>1, <1>8, <2>1, <3>1, RevisionStands
    <2>2. CASE i = n + 1
      <3>1. PICK c : c = package[v]
        OBVIOUS
      <3>2. missions'[i].version = v /\ v > 1
        BY <1>6, <1>7, <2>2
      <3>3. c \in 1..n /\ c \in sealed /\ missions[c].version < v
        BY <1>1, <1>5, <3>1, <3>2 DEF IInv, PackageInv
      <3>4. missions[c].state = "completed"
        BY <3>3 DEF IInv, HostInv
      <3>5. Shown(ledger, record, c) = "healthy" /\ v \in returned
        BY <1>5, <3>1, <3>2
      <3>6. c \in 1..(i - 1) /\ missions'[c] = missions[c] /\ package'[v] = c
        BY <1>7, <2>2, <3>1, <3>3
      <3> QED BY <3>2, <3>3, <3>4, <3>5, <3>6
    <2> QED BY <1>1, <2>1, <2>2
  <1>12. ASSUME NEW i \in 1..(n + 1)
         PROVE  /\ missions'[i].version <= Len(package')
                /\ missions'[i].attempt = 2 =>
                     /\ missions'[i].version > 1
                     /\ \E j \in 1..(i - 1) : /\ missions'[j].version = missions'[i].version
                                              /\ missions'[j].attempt = 1
                                              /\ missions'[j].state = "unproven"
    <2>1. CASE i \in 1..n
      <3>1. \A j \in 1..(i - 1) : missions'[j] = missions[j]
        BY <1>7, <2>1
      <3> QED BY <1>1, <1>7, <2>1, <3>1 DEF IInv, MissionInv
    <2>2. CASE i = n + 1
      <3>1. \A j \in 1..n : j \in 1..(i - 1) /\ missions'[j] = missions[j]
        BY <1>7, <2>2
      <3>2. missions'[i].version = v /\ missions'[i].attempt = a /\ v <= Len(package')
            /\ (a = 2 => v > 1)
        BY <1>5, <1>6, <1>7, <2>2, Lengths
      <3> QED BY <1>5, <3>1, <3>2
    <2> QED BY <1>1, <2>1, <2>2
  <1>13. MissionInv'
    BY <1>7, <1>10, <1>11, <1>12 DEF MissionInv
  <1> QED BY <1>7, <1>8, <1>13, MissionsGrow

LEMMA SubmitKeeps ==
    ASSUME IInv, NEW p \in Procs, Submit(p)
    PROVE  IInv'
  <1>1. /\ proc[p].pc \in {"submit", "again"}
        /\ UNCHANGED <<shift, package, sealed, ledger, record, returned>>
    BY DEF Submit, shiftVars, releaseVars
  <1>2. CASE Of(proc[p].v, proc[p].attempt) = {}
    <2>1. missions' = Append(missions, Admission(p)) /\ End(p)
      BY <1>2 DEF Submit
    <2>2. Later /\ PackageInv' /\ MissionInv' /\ HostInv'
      BY <1>1, <1>2, <2>1, AdmissionStands
    <2> QED BY <1>1, <2>1, <2>2, IdleRests, OneMoves DEF End
  <1>3. CASE Of(proc[p].v, proc[p].attempt) # {}
    <2>1. UNCHANGED missions
      BY <1>3 DEF Submit
    <2>2. CASE At(p, "submit") /\ proc[p].v > 1 /\ Goto(p, "conflict")
      <3>1. PICK w \in Jobs :
               /\ proc' = [proc EXCEPT ![p] = w] /\ w.pc = "conflict" /\ w.v = proc[p].v
               /\ w.attempt = proc[p].attempt /\ w.rc = proc[p].rc
        BY <2>2, Moves DEF Pcs
      <3>2. Rests(w, missions, package, ledger, record, returned)
        BY <2>2, <3>1, Mine DEF Rests, Revising, Reviewing, Deployed, Rowed, At
      <3> QED BY <1>1, <2>1, <3>1, <3>2, Walks DEF IInv, HostInv
    <2>3. CASE End(p)
      BY <1>1, <2>1, <2>3, Ends DEF IInv, HostInv
    <2> QED BY <2>2, <2>3 DEF Submit
  <1> QED BY <1>2, <1>3

-----------------------------------------------------------------------------
LEMMA InitInvariant == Init => IInv
  <1> SUFFICES ASSUME Init PROVE IInv
    OBVIOUS
  <1>1. /\ Len(package) = 0 /\ Len(missions) = 0 /\ package \in Seq(Nat)
        /\ missions \in Seq(Mission) /\ DOMAIN missions = {}
    BY EmptySeq DEF Init
  <1>2. PackageInv
    BY <1>1, RevisionAssumption DEF PackageInv
  <1>3. MissionInv
    BY <1>1 DEF MissionInv, OnlyUnprovenSucceeded, RevisedWasReturned
  <1>4. HostInv
    <2>1. \A c \in Candidates : record[c] = NoRecord /\ NoRecord \in Records
      BY DEF Init, NoRecord, Records
    <2>2. ReviewInv
      BY <2>1 DEF Init, ReviewInv, NoRecord, RowStates, ReviewState, Named
    <2> QED BY <2>2 DEF Init, HostInv
  <1>5. proc = [p \in Procs |-> proc[p]] /\ \A p \in Procs : proc[p] = Idle
    BY DEF Init
  <1>6. ProcInv
    BY <1>5, IdleRests DEF ProcInv, Alone, At
  <1> QED BY <1>2, <1>3, <1>4, <1>6 DEF IInv

LEMMA NextKeeps == IInv /\ [Next]_vars => IInv'
  <1> SUFFICES ASSUME IInv, [Next]_vars PROVE IInv'
    OBVIOUS
  <1>1. ASSUME NEW p \in Owners,
               Brief(p) \/ FollowOn(p) \/ Product(p) \/ Revise(p) \/ Start(p)
        PROVE  IInv'
    <2>1. p \in Procs
      BY DEF Procs
    <2> QED BY <1>1, <2>1, BriefKeeps, FollowOnKeeps, ProductKeeps, ReviseKeeps, StartKeeps
  <1>2. ASSUME NEW p \in Procs, Review(p) \/ Goes(p) \/ Die(p)
        PROVE  IInv'
    BY <1>2, ReviewKeeps, DieKeeps, ReviseKeeps, ProbeKeeps, RecordHealthKeeps, DecideKeeps,
       ReadAttemptKeeps, SubmitKeeps, ConflictKeeps, SealKeeps, DeployKeeps, PublishKeeps,
       RecordKeeps, OpenKeeps, WaitingBriefKeeps
    DEF Goes
  <1>3. ASSUME NEW c \in Candidates, Promote(c) PROVE IInv'
    BY <1>3, PromoteKeeps
  <1>4. ASSUME NEW i \in DOMAIN missions, Work(i) \/ \E s \in States : Finish(i, s)
        PROVE  IInv'
    BY <1>4, WorkKeeps, FinishKeeps
  <1>5. CASE Stop \/ Portfolio \/ Bar
    BY <1>5, HostKeeps
  <1>6. CASE UNCHANGED vars
    <2>1. UNCHANGED <<package, missions, sealed, ledger, record, returned, shift, proc>>
      BY <1>6 DEF vars
    <2>2. Later /\ PackageInv' /\ MissionInv' /\ HostInv'
      BY <2>1, TablesStay DEF IInv, HostInv
    <2> QED BY <2>1, <2>2, NobodyMoves
  <1> QED BY <1>1, <1>2, <1>3, <1>4, <1>5, <1>6 DEF Next

(* For any commands and bounds: every step keeps the tables, and what each *)
(* command rests on, as stated above (factory.py, brief to review).        *)
THEOREM RevisionInvariance == Spec => []IInv
  BY InitInvariant, NextKeeps, PTL DEF Spec

(* For any commands and bounds: a revision is built from a candidate that  *)
(* is sealed, was proven healthy and was sent back for this version,       *)
(* whoever repeated the command or died in it (factory.py, revise).        *)
THEOREM RevisedWasSentBack == Spec => []RevisedWasReturned
  <1>1. IInv => RevisedWasReturned
    BY DEF IInv, MissionInv
  <1> QED BY <1>1, RevisionInvariance, PTL

(* For any commands and bounds: two missions of one version are a first    *)
(* attempt that ended unproven, and its one successor (factory.py, revise  *)
(* and _revision_attempt).                                                 *)
THEOREM NoVersionTwice == Spec => []OnlyUnprovenSucceeded
  <1>1. IInv => OnlyUnprovenSucceeded
    BY DEF IInv, MissionInv
  <1> QED BY <1>1, RevisionInvariance, PTL
=============================================================================
