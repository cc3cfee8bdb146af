------------------------- MODULE ImprovementProofs -------------------------
(***************************************************************************)
(* For any objectives, operators and bounds: rows, policies and decisions  *)
(* keep their types, a lineage is a chain, and what is accepted or staged  *)
(* was recorded as better than its baseline.                               *)
(*                                                                         *)
(* The table changes in three ways only: an admission fills an empty row,  *)
(* a write and a revert change one row that is known.  A row that changes  *)
(* grows (Grows): it keeps its baseline, and once it is closed also its    *)
(* candidate.  What somebody decided on a row therefore stays true until   *)
(* it is written, however many others write in between (Decided).          *)
(***************************************************************************)
EXTENDS ImprovementProperties, TLAPS

Words == Verdicts \union Dispositions \union {None}
Desks == [verb : Verbs \union {None}, objective : Objectives \union {None},
          generation : Nat, sha : Shas \union {None}, word : Words]

TInv == ImprovementTypeOK /\ desk \in [Operators -> Desks]

(* What the columns of a row say of each other.                            *)
Consistent(r) ==
    /\ r.disposition # None => r.known
    /\ r.verdict # None => r.candidate # None
    /\ r.disposition = "accepted" => r.candidate # None

RowInv == \A o \in Objectives, g \in Generations : Consistent(Exp(o, g))

(* What a decision d rests on, of the row r it is about.                   *)
Decided(d, r) ==
    /\ r.known
    /\ d.verb = "open" => r.disposition # None /\ d.sha = r.candidate /\ d.sha \in Shas
                          /\ d.generation + 1 \in Generations
    /\ d.verb = "seal" => d.sha \in Shas
    /\ d.verb = "evaluate" => d.word \in Verdicts /\ r.candidate # None
    /\ d.verb = "close" => /\ d.word \in Dispositions
                           /\ d.word = "accepted" => r.candidate # None

DeskInv == \A p \in Operators : desk[p].verb # None => Decided(desk[p], Target(desk[p]))

(* What was accepted or staged, or is about to be, was shown.              *)
Claims(d) == d.verb = "stage" \/ (d.verb = "close" /\ d.word = "accepted")
ShownInv ==
    /\ \A o \in Objectives, g \in Generations :
         Exp(o, g).verdict = "improved" => <<o, g>> \in shown
    /\ \A p \in Operators :
         Claims(desk[p]) => <<desk[p].objective, desk[p].generation>> \in shown

IInv == TInv /\ RowInv /\ DeskInv /\ LineageChained /\ ShownInv /\ AcceptedWasShown

-----------------------------------------------------------------------------
(* How rows change.                                                        *)

Grows(r, s) ==
    r.known => /\ s.known /\ s.baseline = r.baseline
               /\ r.candidate # None => s.candidate # None
               /\ r.disposition # None => s.disposition # None
                                          /\ s.candidate = r.candidate

Puts(o, g, s) ==
    experiments' = [experiments EXCEPT ![o][g] = s]

(* One row is replaced, and no other.                                      *)
LEMMA PutOne ==
    ASSUME experiments \in [Objectives -> [Generations -> Row]],
           NEW o \in Objectives, NEW g \in Generations, NEW s \in Row,
           Puts(o, g, s)
    PROVE  /\ experiments' \in [Objectives -> [Generations -> Row]]
           /\ Exp(o, g)' = s
           /\ \A q \in Objectives, h \in Generations :
                Exp(q, h)' = IF q = o /\ h = g THEN s ELSE Exp(q, h)
  BY DEF Puts, Exp

(* The empty row is a row.                                                 *)
LEMMA NoRowIsRow == NoRow \in Row
  BY ImprovementAssumption DEF NoRow, Row, Policies

(* A decision survives whatever makes its row grow.                        *)
LEMMA DecisionStays ==
    ASSUME NEW d, NEW r, NEW s, Decided(d, r), Grows(r, s)
    PROVE  Decided(d, s)
  BY DEF Decided, Grows

-----------------------------------------------------------------------------
(* What the three kinds of change do to the invariant on rows.             *)

(* An admission.                                                           *)
LEMMA AdmittedRow ==
    ASSUME TInv, NEW o \in Objectives, NEW g \in Generations, NEW sha \in Shas,
           ~Exp(o, g).known,
           experiments' = Admitted(o, g, sha)
    PROVE  \E s \in Row :
             /\ Puts(o, g, s)
             /\ s.known /\ s.baseline = sha
             /\ s.verdict = None /\ s.disposition = None /\ s.candidate = None
             /\ s.promotion = {}
  <1> DEFINE s == [NoRow EXCEPT !.known = TRUE, !.policy = policy,
                                !.digest = objectives[o].digest, !.baseline = sha]
  <1>1. Puts(o, g, s)
    BY DEF Admitted, Puts
  <1>2. s \in Row
    BY NoRowIsRow DEF NoRow, Row, TInv, ImprovementTypeOK
  <1>3. s.known /\ s.baseline = sha /\ s.verdict = None /\ s.disposition = None
        /\ s.candidate = None /\ s.promotion = {}
    BY DEF NoRow
  <1> QED
    BY <1>1, <1>2, <1>3

(* A write.                                                                *)
WrittenRow(d, r, s) ==
    /\ Grows(r, s) /\ s.known = r.known
    /\ s.verdict = r.verdict \/ (d.verb = "evaluate" /\ s.verdict = d.word)
    /\ s.disposition = r.disposition \/ (d.verb = "close" /\ s.disposition = d.word)
    /\ s.promotion = r.promotion \/ d.verb = "stage"
    /\ d.verb # "seal" => s.candidate = r.candidate
    /\ d.verb = "seal" => s.candidate \in {r.candidate, d.sha}

LEMMA WriteRow ==
    ASSUME TInv, DeskInv, NEW p \in Operators, Write(p)
    PROVE  /\ desk[p].objective \in Objectives /\ desk[p].generation \in Generations
           /\ \E s \in Row :
                /\ Puts(desk[p].objective, desk[p].generation, s)
                /\ WrittenRow(desk[p], Target(desk[p]), s)
                /\ s.verdict = "improved" =>
                     \/ Target(desk[p]).verdict = "improved"
                     \/ <<desk[p].objective, desk[p].generation>> \in shown'
  <1> DEFINE d == desk[p]
             o == d.objective
             g == d.generation
             r == Exp(o, g)
  <1>1. /\ d \in Desks /\ d.verb \in Verbs \ {"open", "submit"}
        /\ o \in Objectives /\ g \in Generations
    BY NoneAssumption DEF Write, TInv, ImprovementTypeOK
  <1>2. r \in Row
    BY <1>1 DEF TInv, ImprovementTypeOK, Exp
  <1>3. Decided(d, r)
    BY <1>1, NoneAssumption DEF DeskInv, Target
  <1>4. experiments = [experiments EXCEPT ![o][g] = r]
    BY <1>1 DEF TInv, ImprovementTypeOK, Exp
  <1>5. experiments' = Written(d)
    BY DEF Write
  <1> HIDE DEF d, o, g, r
  <1>0. Target(d) = r
    BY DEF Target, r, o, g
  <1>6. CASE d.verb = "baseline"
    <2> DEFINE s == IF OpenExp(o, g) THEN [r EXCEPT !.measured = TRUE] ELSE r
    <2>1. s \in Row /\ WrittenRow(d, r, s) /\ s.verdict = r.verdict
      BY <1>2, <1>6 DEF Row, WrittenRow, Grows
    <2>2. Puts(o, g, s)
      BY <1>0, <1>4, <1>5, <1>6 DEF Written, WhereOpen, Puts, o, g
    <2> QED BY <2>1, <2>2, <1>0, <1>1 DEF d, o, g
  <1>7. CASE d.verb = "bind"
    <2> DEFINE s == IF OpenExp(o, g) THEN [r EXCEPT !.mission = TRUE] ELSE r
    <2>1. s \in Row /\ WrittenRow(d, r, s) /\ s.verdict = r.verdict
      BY <1>2, <1>7 DEF Row, WrittenRow, Grows
    <2>2. Puts(o, g, s)
      BY <1>0, <1>4, <1>5, <1>7 DEF Written, WhereOpen, Puts, o, g
    <2> QED BY <2>1, <2>2, <1>0, <1>1 DEF d, o, g
  <1>8. CASE d.verb = "seal"
    <2> DEFINE s == IF OpenExp(o, g) THEN [r EXCEPT !.candidate = d.sha] ELSE r
    <2>1. d.sha \in Shas /\ d.sha # None
      BY <1>3, <1>8, ImprovementAssumption DEF Decided
    <2>2. s \in Row /\ WrittenRow(d, r, s) /\ s.verdict = r.verdict
      BY <1>2, <1>8, <2>1 DEF Row, WrittenRow, Grows, OpenExp, r
    <2>3. Puts(o, g, s)
      BY <1>0, <1>4, <1>5, <1>8 DEF Written, WhereOpen, Puts, o, g
    <2> QED BY <2>2, <2>3, <1>0, <1>1 DEF d, o, g
  <1>9. CASE d.verb = "evaluate"
    <2> DEFINE s == IF OpenExp(o, g) THEN [r EXCEPT !.verdict = d.word] ELSE r
    <2>1. d.word \in Verdicts
      BY <1>3, <1>9 DEF Decided
    <2>2. s \in Row /\ WrittenRow(d, r, s)
      BY <1>2, <1>9, <2>1 DEF Row, WrittenRow, Grows
    <2>3. Puts(o, g, s)
      BY <1>0, <1>4, <1>5, <1>9 DEF Written, WhereOpen, Puts, o, g
    <2>4. s.verdict = "improved" => r.verdict = "improved" \/ <<o, g>> \in shown'
      BY <1>2, <1>9 DEF Write, d, o, g, Row
    <2> QED BY <2>2, <2>3, <2>4, <1>0, <1>1 DEF d, o, g
  <1>10. CASE d.verb = "stage"
    <2> DEFINE s == [r EXCEPT !.promotion = @ \union {"staged"}]
    <2>1. s \in Row /\ WrittenRow(d, r, s) /\ s.verdict = r.verdict
      BY <1>2, <1>10 DEF Row, WrittenRow, Grows
    <2>2. Puts(o, g, s)
      BY <1>0, <1>5, <1>10 DEF Written, Anyway, Puts, o, g
    <2> QED BY <2>1, <2>2, <1>0, <1>1 DEF d, o, g
  <1>11. CASE d.verb = "close"
    <2> DEFINE s == [r EXCEPT !.disposition = d.word]
    <2>1. d.word \in Dispositions /\ d.word # None
      BY <1>3, <1>11, NoneAssumption DEF Decided
    <2>2. s \in Row /\ WrittenRow(d, r, s) /\ s.verdict = r.verdict
      BY <1>2, <1>11, <2>1 DEF Row, WrittenRow, Grows
    <2>3. Puts(o, g, s)
      BY <1>0, <1>5, <1>11 DEF Written, Anyway, Puts, o, g
    <2> QED BY <2>2, <2>3, <1>0, <1>1 DEF d, o, g
  <1> QED
    BY <1>1, <1>6, <1>7, <1>8, <1>9, <1>10, <1>11 DEF Verbs

-----------------------------------------------------------------------------
(* What each kind of step does to the invariant.                           *)

(* A row that grows leaves the chain a chain, if a row that is new was led *)
(* to by its parent.                                                       *)
LEMMA ChainKept ==
    ASSUME TInv, LineageChained,
           NEW o \in Objectives, NEW g \in Generations, NEW s \in Row,
           Puts(o, g, s), Grows(Exp(o, g), s),
           g > 1 /\ s.known /\ ~Exp(o, g).known =>
               /\ Exp(o, g - 1).known /\ Exp(o, g - 1).disposition # None
               /\ s.baseline = Exp(o, g - 1).candidate
    PROVE  LineageChained'
  <1>1. \A q \in Objectives, h \in Generations :
          Exp(q, h)' = IF q = o /\ h = g THEN s ELSE Exp(q, h)
    BY PutOne DEF TInv, ImprovementTypeOK
  <1>2. SUFFICES ASSUME NEW q \in Objectives, NEW h \in Generations, h > 1,
                        Exp(q, h)'.known
                 PROVE  /\ Exp(q, h - 1)'.known
                        /\ Exp(q, h - 1)'.disposition # None
                        /\ Exp(q, h)'.baseline = Exp(q, h - 1)'.candidate
    BY DEF LineageChained
  <1>3. h \in Nat /\ g \in Nat /\ h - 1 \in Generations /\ h - 1 # h
    BY <1>2, ImprovementAssumption DEF Generations
  <1>4. CASE q = o /\ h = g /\ ~Exp(o, g).known
    BY <1>1, <1>2, <1>3, <1>4
  <1>5. CASE q = o /\ h = g /\ Exp(o, g).known
    <2>1. Exp(o, g)'.baseline = Exp(o, g).baseline
      BY <1>1, <1>5 DEF Grows
    <2> QED
      BY <1>1, <1>2, <1>3, <1>5, <2>1 DEF LineageChained
  <1>6. CASE ~(q = o /\ h = g)
    <2>1. /\ Exp(q, h)' = Exp(q, h)
          /\ Exp(q, h - 1).known /\ Exp(q, h - 1).disposition # None
          /\ Exp(q, h).baseline = Exp(q, h - 1).candidate
      BY <1>1, <1>2, <1>3, <1>6 DEF LineageChained
    <2>2. CASE q = o /\ h - 1 = g
      BY <1>1, <1>3, <2>1, <2>2 DEF Grows
    <2>3. CASE ~(q = o /\ h - 1 = g)
      BY <1>1, <1>3, <2>1, <2>3
    <2> QED BY <2>2, <2>3
  <1> QED
    BY <1>4, <1>5, <1>6

(* Somebody reads and decides.                                             *)
LEMMA TakesKeeps ==
    ASSUME IInv, NEW p \in Operators, NEW o \in Objectives, NEW g \in Generations,
           NEW verb \in Verbs, NEW sha \in Shas \union {None}, NEW word \in Words,
           Takes(p, o, g, verb, sha, word),
           Decided([verb |-> verb, objective |-> o, generation |-> g,
                    sha |-> sha, word |-> word], Exp(o, g)),
           Claims([verb |-> verb, objective |-> o, generation |-> g,
                   sha |-> sha, word |-> word]) => <<o, g>> \in shown
    PROVE  IInv'
  <1> DEFINE d == [verb |-> verb, objective |-> o, generation |-> g,
                   sha |-> sha, word |-> word]
  <1>1. d \in Desks
    BY ImprovementAssumption DEF Desks, Generations
  <1>2. desk \in [Operators -> Desks] /\ desk' = [desk EXCEPT ![p] = d]
    BY DEF IInv, TInv, Takes
  <1>3. /\ experiments' = experiments /\ shown' = shown /\ policy' = policy
        /\ objectives' = objectives /\ missions' = missions /\ revisions' = revisions
    BY DEF Takes
  <1>4. \A q \in Operators : desk'[q] = IF q = p THEN d ELSE desk[q]
    BY <1>2
  <1> HIDE DEF d
  <1>5. TInv'
    <2>1. d.objective \in Objectives /\ d.generation \in Generations /\ d.verb \in Verbs
      BY DEF d
    <2> QED BY <1>1, <1>2, <1>3, <1>4, <2>1 DEF IInv, TInv, ImprovementTypeOK
  <1>6. RowInv'
    BY <1>3 DEF IInv, RowInv, Exp
  <1>7. DeskInv'
    <2>1. Decided(d, Target(d))
      BY DEF d, Target
    <2> QED BY <1>3, <1>4, <2>1 DEF IInv, DeskInv, Target, Exp
  <1>8. LineageChained' /\ AcceptedWasShown'
    BY <1>3 DEF IInv, LineageChained, AcceptedWasShown, Exp
  <1>9. ShownInv'
    <2>1. Claims(d) => <<d.objective, d.generation>> \in shown
      BY DEF d
    <2> QED BY <1>3, <1>4, <2>1 DEF IInv, ShownInv, Exp
  <1> QED
    BY <1>5, <1>6, <1>7, <1>8, <1>9 DEF IInv

(* A row is written, by the way of an admission, a revert or a write: the  *)
(* rest of the invariant but the types follows from what it becomes.       *)
LEMMA RowKept ==
    ASSUME IInv, TInv',
           NEW o \in Objectives, NEW g \in Generations, NEW s \in Row,
           Puts(o, g, s), Grows(Exp(o, g), s), Consistent(s),
           shown \subseteq shown',
           \A p \in Operators : desk'[p] = desk[p] \/ desk'[p] = Idle,
           g > 1 /\ s.known /\ ~Exp(o, g).known =>
               /\ Exp(o, g - 1).known /\ Exp(o, g - 1).disposition # None
               /\ s.baseline = Exp(o, g - 1).candidate,
           s.verdict = "improved" => <<o, g>> \in shown',
           s.disposition = "accepted" \/ s.promotion # {} => <<o, g>> \in shown'
    PROVE  IInv'
  <1>1. \A q \in Objectives, h \in Generations :
          Exp(q, h)' = IF q = o /\ h = g THEN s ELSE Exp(q, h)
    BY PutOne DEF IInv, TInv, ImprovementTypeOK
  <1>2. LineageChained'
    BY ChainKept DEF IInv
  <1>3. RowInv'
    BY <1>1 DEF IInv, RowInv
  <1>4. AcceptedWasShown'
    BY <1>1 DEF IInv, AcceptedWasShown
  <1>5. Idle.verb = None /\ ~Claims(Idle)
    BY NoneAssumption DEF Idle, Claims, Verbs
  <1>6. ShownInv'
    <2>1. \A q \in Objectives, h \in Generations :
            Exp(q, h)'.verdict = "improved" => <<q, h>> \in shown'
      BY <1>1 DEF IInv, ShownInv
    <2>2. \A p \in Operators : Claims(desk'[p]) =>
            <<desk'[p].objective, desk'[p].generation>> \in shown'
      BY <1>5 DEF IInv, ShownInv
    <2> QED BY <2>1, <2>2 DEF ShownInv
  <1>7. DeskInv'
    <2> SUFFICES ASSUME NEW p \in Operators, desk'[p].verb # None
                 PROVE  Decided(desk[p], Target(desk[p]))'
      BY DEF DeskInv
    <2>1. PICK d : d = desk[p] /\ d = desk'[p]
      BY <1>5
    <2>2. /\ Decided(d, Exp(d.objective, d.generation))
          /\ d.objective \in Objectives /\ d.generation \in Generations
      BY <2>1 DEF IInv, DeskInv, Target, TInv, ImprovementTypeOK
    <2>3. Grows(Exp(d.objective, d.generation), Exp(d.objective, d.generation)')
      <3>1. CASE d.objective = o /\ d.generation = g
        BY <1>1, <2>2, <3>1
      <3>2. CASE ~(d.objective = o /\ d.generation = g)
        <4>1. Exp(d.objective, d.generation)' = Exp(d.objective, d.generation)
          BY <1>1, <2>2, <3>2
        <4> QED BY <4>1 DEF Grows
      <3> QED BY <3>1, <3>2
    <2>4. Decided(d, Exp(d.objective, d.generation)')
      BY <2>2, <2>3, DecisionStays
    <2> QED BY <2>1, <2>4 DEF Target, Exp, Decided
  <1> QED
    BY <1>2, <1>3, <1>4, <1>6, <1>7 DEF IInv

-----------------------------------------------------------------------------
(* The steps.                                                              *)

LEMMA InitIInv == Init => IInv
  <1> SUFFICES ASSUME Init PROVE IInv
    OBVIOUS
  <1>1. Idle \in Desks /\ Idle.verb = None /\ ~Claims(Idle)
    BY NoneAssumption DEF Idle, Desks, Words, Claims, Verbs
  <1>2. TInv
    BY <1>1, NoRowIsRow, ImprovementAssumption
    DEF Init, TInv, ImprovementTypeOK, Policies
  <1>3. \A o \in Objectives, g \in Generations : Exp(o, g) = NoRow
    BY DEF Init, Exp
  <1>4. \A p \in Operators : desk[p] = Idle
    BY DEF Init
  <1>5. ~NoRow.known /\ NoRow.verdict = None /\ NoRow.disposition = None
        /\ NoRow.candidate = None /\ NoRow.promotion = {}
    BY DEF NoRow
  <1>6. None # "improved" /\ None # "accepted"
    BY NoneAssumption DEF Verdicts
  <1>7. RowInv /\ DeskInv /\ LineageChained /\ ShownInv /\ AcceptedWasShown
    BY <1>1, <1>3, <1>4, <1>5, <1>6
    DEF RowInv, Consistent, DeskInv, LineageChained, ShownInv, AcceptedWasShown
  <1> QED
    BY <1>2, <1>7 DEF IInv

(* Where rows, decisions and the history stay, so does the invariant.      *)
LEMMA OthersKeep ==
    ASSUME IInv, TInv', UNCHANGED <<experiments, desk, shown>>
    PROVE  IInv'
  <1>1. RowInv' /\ LineageChained' /\ AcceptedWasShown'
    BY DEF IInv, RowInv, LineageChained, AcceptedWasShown, Exp
  <1>2. DeskInv' /\ ShownInv'
    BY DEF IInv, DeskInv, ShownInv, Target, Exp
  <1> QED
    BY <1>1, <1>2 DEF IInv

(* Every verb's reading.                                                   *)
LEMMA VerbKeeps ==
    ASSUME IInv, NEW p \in Operators, NEW o \in Objectives, NEW g \in Generations,
           Verb(p, o, g)
    PROVE  IInv'
  <1> DEFINE r == Exp(o, g)
  <1>0. /\ r \in Row /\ Consistent(r)
        /\ r.verdict = "improved" => <<o, g>> \in shown
        /\ None \in Words /\ None \in Shas \union {None}
        /\ None # "improved"
    BY NoneAssumption
    DEF IInv, TInv, ImprovementTypeOK, RowInv, ShownInv, Exp, Words, Verdicts
  <1>1. CASE OpenGeneration(p, o, g)
    <2>1. PICK sha \in Shas : Continues(o, g, sha) /\ Takes(p, o, g, "open", sha, None)
      BY <1>1 DEF OpenGeneration
    <2>2. r.disposition = "accepted" /\ r.known /\ r.candidate = sha
      BY <1>0, <2>1, NoneAssumption DEF Continues, Consistent
    <2>3. g + 1 \in Generations
      BY <1>1 DEF OpenGeneration
    <2> DEFINE d == [verb |-> "open", objective |-> o, generation |-> g,
                     sha |-> sha, word |-> None]
    <2>4. Decided(d, r) /\ ~Claims(d)
      BY <2>2, <2>3, NoneAssumption DEF Decided, Claims
    <2> QED BY <1>0, <2>1, <2>4, TakesKeeps DEF Verbs
  <1>2. CASE RecordBaseline(p, o, g)
    <2> DEFINE d == [verb |-> "baseline", objective |-> o, generation |-> g,
                     sha |-> None, word |-> None]
    <2>1. Decided(d, r) /\ ~Claims(d)
      BY <1>2 DEF RecordBaseline, OpenExp, Decided, Claims
    <2> QED BY <1>0, <1>2, <2>1, TakesKeeps DEF Verbs, RecordBaseline
  <1>3. CASE CreateMission(p, o, g)
    <2> DEFINE d == [verb |-> "submit", objective |-> o, generation |-> g,
                     sha |-> None, word |-> None]
    <2>1. Decided(d, r) /\ ~Claims(d)
      BY <1>3 DEF CreateMission, OpenExp, Decided, Claims
    <2> QED BY <1>0, <1>3, <2>1, TakesKeeps DEF Verbs, CreateMission
  <1>4. CASE SealCandidate(p, o, g)
    <2>1. PICK sha \in Shas : Takes(p, o, g, "seal", sha, None)
      BY <1>4 DEF SealCandidate
    <2> DEFINE d == [verb |-> "seal", objective |-> o, generation |-> g,
                     sha |-> sha, word |-> None]
    <2>2. Decided(d, r) /\ ~Claims(d)
      BY <1>4 DEF SealCandidate, OpenExp, Decided, Claims
    <2> QED BY <1>0, <2>1, <2>2, TakesKeeps DEF Verbs
  <1>5. CASE EvaluateCandidate(p, o, g)
    <2>1. PICK readings \in SUBSET Readings :
            Takes(p, o, g, "evaluate", None, Compare(readings))
      BY <1>5 DEF EvaluateCandidate
    <2> DEFINE word == Compare(readings)
               d == [verb |-> "evaluate", objective |-> o, generation |-> g,
                     sha |-> None, word |-> word]
    <2>2. word \in Verdicts
      BY DEF Compare, Verdicts
    <2> HIDE DEF word
    <2>3. Decided(d, r) /\ ~Claims(d)
      BY <1>5, <2>2 DEF EvaluateCandidate, OpenExp, Decided, Claims
    <2>4. Takes(p, o, g, "evaluate", None, word)
      BY <2>1 DEF word
    <2> QED BY <1>0, <2>2, <2>3, <2>4, TakesKeeps DEF Verbs, Words
  <1>6. CASE StagePromotion(p, o, g)
    <2> DEFINE d == [verb |-> "stage", objective |-> o, generation |-> g,
                     sha |-> None, word |-> None]
    <2>1. Decided(d, r) /\ <<o, g>> \in shown
      BY <1>0, <1>6 DEF StagePromotion, OpenExp, Decided
    <2> QED BY <1>0, <1>6, <2>1, TakesKeeps DEF Verbs, StagePromotion
  <1>7. CASE CloseExperiment(p, o, g)
    <2>1. PICK word \in Dispositions :
            Closable(o, g, word) /\ Takes(p, o, g, "close", None, word)
      BY <1>7 DEF CloseExperiment
    <2> DEFINE d == [verb |-> "close", objective |-> o, generation |-> g,
                     sha |-> None, word |-> word]
    <2>2. word = "accepted" => <<o, g>> \in shown /\ r.candidate # None
      BY <1>0, <2>1 DEF Closable, Consistent
    <2>3. Decided(d, r) /\ (Claims(d) => <<o, g>> \in shown)
      BY <2>1, <2>2 DEF Closable, OpenExp, Decided, Claims
    <2> QED BY <1>0, <2>1, <2>3, TakesKeeps DEF Verbs, Words
  <1> QED
    BY <1>1, <1>2, <1>3, <1>4, <1>5, <1>6, <1>7 DEF Verb

(* A decision is given up, or was written: what is left on the desks.      *)
LEMMA DeskCleared ==
    ASSUME TInv, NEW p \in Operators, desk' = [desk EXCEPT ![p] = Idle]
    PROVE  /\ desk' \in [Operators -> Desks]
           /\ \A q \in Operators :
                /\ desk'[q] = desk[q] \/ desk'[q] = Idle
                /\ desk'[q].verb \in Verbs \union {None}
                /\ desk'[q].verb # None => /\ desk'[q].objective \in Objectives
                                           /\ desk'[q].generation \in Generations
  <1>1. Idle \in Desks /\ Idle.verb = None
    BY DEF Idle, Desks, Words
  <1> QED
    BY <1>1 DEF TInv, ImprovementTypeOK

LEMMA AdmitKeeps ==
    ASSUME IInv, NEW o \in Objectives, NEW g \in Generations, NEW sha \in Shas,
           ~Exp(o, g).known,
           experiments' = Admitted(o, g, sha),
           g > 1 => /\ Exp(o, g - 1).known /\ Exp(o, g - 1).disposition # None
                    /\ sha = Exp(o, g - 1).candidate,
           \A p \in Operators : desk'[p] = desk[p] \/ desk'[p] = Idle,
           desk' \in [Operators -> Desks],
           UNCHANGED <<policy, objectives, missions, shown, revisions>>
    PROVE  IInv'
  <1>1. PICK s \in Row :
          /\ Puts(o, g, s)
          /\ s.known /\ s.baseline = sha
          /\ s.verdict = None /\ s.disposition = None /\ s.candidate = None
          /\ s.promotion = {}
    BY AdmittedRow DEF IInv
  <1>2. experiments' \in [Objectives -> [Generations -> Row]]
    BY <1>1, PutOne DEF IInv, TInv, ImprovementTypeOK
  <1>3. Idle.verb = None
    BY DEF Idle
  <1>4. TInv'
    BY <1>2, <1>3 DEF IInv, TInv, ImprovementTypeOK
  <1>5. /\ Consistent(s) /\ Grows(Exp(o, g), s)
        /\ s.verdict # "improved" /\ s.disposition # "accepted"
    BY <1>1, NoneAssumption DEF Consistent, Grows, Verdicts
  <1> QED
    BY <1>1, <1>4, <1>5, RowKept

LEMMA AdmitGenerationKeeps ==
    ASSUME IInv, NEW p \in Operators, AdmitGeneration(p)
    PROVE  IInv'
  <1> DEFINE o == desk[p].objective
             k == desk[p].generation
             sha == desk[p].sha
  <1>1. /\ o \in Objectives /\ k \in Generations /\ k + 1 \in Generations
        /\ Exp(o, k).known /\ Exp(o, k).disposition # None
        /\ sha = Exp(o, k).candidate /\ sha \in Shas
    BY NoneAssumption
    DEF AdmitGeneration, IInv, DeskInv, Decided, Target, TInv, ImprovementTypeOK, Verbs
  <1>2. /\ desk' \in [Operators -> Desks]
        /\ \A q \in Operators :
             /\ desk'[q] = desk[q] \/ desk'[q] = Idle
             /\ desk'[q].verb \in Verbs \union {None}
             /\ desk'[q].verb # None => /\ desk'[q].objective \in Objectives
                                        /\ desk'[q].generation \in Generations
    BY DeskCleared DEF AdmitGeneration, IInv
  <1>3. UNCHANGED <<policy, objectives, missions, shown, revisions>>
    BY DEF AdmitGeneration
  <1>4. k \in Nat /\ (k + 1) - 1 = k
    BY <1>1, ImprovementAssumption DEF Generations
  <1>5. CASE Exp(o, k + 1).known
    <2>1. experiments' = experiments
      BY <1>5 DEF AdmitGeneration
    <2>2. experiments' = [experiments EXCEPT ![o][k] = Exp(o, k)]
      BY <2>1, <1>1 DEF Exp, IInv, TInv, ImprovementTypeOK
    <2>3. TInv'
      BY <1>2, <1>3, <2>1 DEF IInv, TInv, ImprovementTypeOK
    <2>4. /\ Exp(o, k) \in Row /\ Consistent(Exp(o, k)) /\ Grows(Exp(o, k), Exp(o, k))
          /\ Exp(o, k).verdict = "improved" => <<o, k>> \in shown
          /\ Exp(o, k).disposition = "accepted" \/ Exp(o, k).promotion # {}
               => <<o, k>> \in shown
      BY <1>1
      DEF IInv, TInv, ImprovementTypeOK, RowInv, ShownInv, AcceptedWasShown, Grows, Exp
    <2> HIDE DEF o, k
    <2>5. PICK s \in Row : s = Exp(o, k)
      BY <2>4
    <2>6. PICK q, h : q = o /\ h = k
      OBVIOUS
    <2>7. Puts(q, h, s)
      BY <2>2, <2>5, <2>6 DEF Puts
    <2> QED
      BY <1>1, <1>2, <1>3, <2>3, <2>4, <2>5, <2>6, <2>7, RowKept
  <1>6. CASE ~Exp(o, k + 1).known
    <2>1. experiments' = Admitted(o, k + 1, sha)
      BY <1>6 DEF AdmitGeneration
    <2>2. PICK q, h, c : q = o /\ h = k + 1 /\ c = sha
      OBVIOUS
    <2>3. experiments' = Admitted(q, h, c)
      BY <2>1, <2>2
    <2> HIDE DEF o, k, sha
    <2> QED
      BY <1>1, <1>2, <1>3, <1>4, <1>6, <2>2, <2>3, AdmitKeeps
  <1> QED
    BY <1>5, <1>6

LEMMA WriteKeeps ==
    ASSUME IInv, NEW p \in Operators, Write(p)
    PROVE  IInv'
  <1>1. PICK d : d = desk[p]
    OBVIOUS
  <1>2. PICK o, g : o = d.objective /\ g = d.generation
    OBVIOUS
  <1>3. /\ o \in Objectives /\ g \in Generations
        /\ \E s \in Row :
             /\ Puts(o, g, s)
             /\ WrittenRow(d, Exp(o, g), s)
             /\ s.verdict = "improved" =>
                  Exp(o, g).verdict = "improved" \/ <<o, g>> \in shown'
    BY <1>1, <1>2, WriteRow DEF IInv, Target
  <1>4. PICK s \in Row :
             /\ Puts(o, g, s)
             /\ WrittenRow(d, Exp(o, g), s)
             /\ s.verdict = "improved" =>
                  Exp(o, g).verdict = "improved" \/ <<o, g>> \in shown'
    BY <1>3
  <1>5. /\ Decided(d, Exp(o, g))
        /\ Claims(d) => <<o, g>> \in shown
        /\ d.verb \in Verbs \ {"open", "submit"}
    BY <1>1, <1>2, NoneAssumption DEF IInv, DeskInv, ShownInv, Target, Write
  <1>6. /\ Consistent(Exp(o, g))
        /\ Exp(o, g).verdict = "improved" => <<o, g>> \in shown
        /\ Exp(o, g).disposition = "accepted" \/ Exp(o, g).promotion # {}
             => <<o, g>> \in shown
    BY <1>3 DEF IInv, RowInv, ShownInv, AcceptedWasShown
  <1>7. shown \subseteq shown' /\ shown' \subseteq Objectives \X Generations
    BY <1>1, <1>2, <1>3 DEF Write, IInv, TInv, ImprovementTypeOK
  <1>8. /\ desk' \in [Operators -> Desks]
        /\ \A q \in Operators :
             /\ desk'[q] = desk[q] \/ desk'[q] = Idle
             /\ desk'[q].verb \in Verbs \union {None}
             /\ desk'[q].verb # None => /\ desk'[q].objective \in Objectives
                                        /\ desk'[q].generation \in Generations
    BY DeskCleared DEF Write, IInv
  <1>9. TInv'
    <2>1. experiments' \in [Objectives -> [Generations -> Row]]
      BY <1>3, <1>4, PutOne DEF IInv, TInv, ImprovementTypeOK
    <2> QED BY <1>7, <1>8, <2>1 DEF Write, IInv, TInv, ImprovementTypeOK
  <1>10. Consistent(s)
    <2>1. /\ s.disposition # None => s.known
          /\ s.candidate = None => Exp(o, g).candidate = None
      BY <1>4, <1>5, <1>6 DEF WrittenRow, Grows, Decided, Consistent
    <2>2. s.verdict # None => s.candidate # None
      BY <1>4, <1>5, <1>6, <2>1 DEF WrittenRow, Decided, Consistent
    <2>3. s.disposition = "accepted" => s.candidate # None
      BY <1>4, <1>5, <1>6, <2>1 DEF WrittenRow, Decided, Consistent
    <2> QED BY <2>1, <2>2, <2>3 DEF Consistent
  <1>11. s.disposition = "accepted" \/ s.promotion # {} => <<o, g>> \in shown'
    BY <1>4, <1>5, <1>6, <1>7 DEF WrittenRow, Claims
  <1>12. /\ Grows(Exp(o, g), s)
         /\ s.verdict = "improved" => <<o, g>> \in shown'
         /\ s.known => Exp(o, g).known
    BY <1>4, <1>6, <1>7 DEF WrittenRow
  <1> QED
    BY <1>3, <1>4, <1>7, <1>8, <1>9, <1>10, <1>11, <1>12, RowKept

LEMMA RevertKeeps ==
    ASSUME IInv, NEW o \in Objectives, NEW g \in Generations, Revert(o, g)
    PROVE  IInv'
  <1> DEFINE r == Exp(o, g)
  <1>1. PICK s : s = [r EXCEPT !.promotion = @ \union {"reverted"}]
    OBVIOUS
  <1>2. /\ r \in Row /\ Consistent(r) /\ r.promotion # {}
        /\ r.verdict = "improved" => <<o, g>> \in shown
        /\ <<o, g>> \in shown
    BY DEF IInv, TInv, ImprovementTypeOK, RowInv, ShownInv, AcceptedWasShown, Exp, Revert
  <1>3. s \in Row /\ Grows(r, s) /\ Consistent(s) /\ s.known = r.known
        /\ s.verdict = r.verdict
    BY <1>1, <1>2 DEF Row, Grows, Consistent
  <1>4. Puts(o, g, s)
    BY <1>1 DEF Revert, Puts, Exp
  <1>5. UNCHANGED <<policy, objectives, missions, desk, shown, revisions>>
    BY DEF Revert
  <1>6. TInv'
    <2>1. experiments' \in [Objectives -> [Generations -> Row]]
      BY <1>3, <1>4, PutOne DEF IInv, TInv, ImprovementTypeOK
    <2> QED BY <1>5, <2>1 DEF IInv, TInv, ImprovementTypeOK
  <1> QED
    BY <1>2, <1>3, <1>4, <1>5, <1>6, RowKept

LEMMA AdmitExperimentKeeps ==
    ASSUME IInv, NEW o \in Objectives, NEW sha \in Shas, AdmitExperiment(o, sha)
    PROVE  IInv'
  <1>1. 1 \in Generations
    <2>1. 1 <= Ceiling
      BY ZenonT(30) DEF AdmitExperiment, Admissible
    <2> QED BY <2>1, ImprovementAssumption DEF Generations
  <1>2. PICK g \in Generations : g = 1
    BY <1>1
  <1>3. desk' \in [Operators -> Desks]
    BY DEF IInv, TInv, AdmitExperiment
  <1> QED
    BY <1>2, <1>3, AdmitKeeps DEF AdmitExperiment

LEMMA SubmitKeeps ==
    ASSUME IInv, NEW p \in Operators, Submit(p)
    PROVE  IInv'
  <1> DEFINE d == desk[p]
  <1>1. /\ d \in Desks /\ d.verb = "submit"
        /\ d.objective \in Objectives /\ d.generation \in Generations
        /\ Decided(d, Exp(d.objective, d.generation))
    BY NoneAssumption DEF Submit, IInv, TInv, ImprovementTypeOK, DeskInv, Target, Verbs
  <1>2. PICK e : e = [d EXCEPT !.verb = "bind"]
    OBVIOUS
  <1>3. /\ e \in Desks /\ e.verb = "bind" /\ e.objective = d.objective
        /\ e.generation = d.generation /\ e.sha = d.sha /\ e.word = d.word
    BY <1>1, <1>2 DEF Desks, Verbs
  <1>4. Decided(e, Exp(d.objective, d.generation)) /\ ~Claims(e)
    BY <1>1, <1>3 DEF Decided, Claims
  <1>5. \A q \in Operators : desk'[q] = IF q = p THEN e ELSE desk[q]
    BY <1>2 DEF Submit, IInv, TInv
  <1>6. UNCHANGED <<policy, objectives, experiments, shown, revisions>>
    BY DEF Submit
  <1>7. TInv'
    <2>1. desk' \in [Operators -> Desks]
      BY <1>2, <1>3 DEF Submit, IInv, TInv
    <2>2. missions' \subseteq Objectives \X Generations
      BY <1>1 DEF Submit, IInv, TInv, ImprovementTypeOK
    <2> QED
      BY <1>1, <1>3, <1>5, <1>6, <2>1, <2>2 DEF IInv, TInv, ImprovementTypeOK, Verbs
  <1>8. RowInv' /\ LineageChained' /\ AcceptedWasShown'
    BY <1>6 DEF IInv, RowInv, LineageChained, AcceptedWasShown, Exp
  <1>9. DeskInv'
    <2> SUFFICES ASSUME NEW q \in Operators, desk'[q].verb # None
                 PROVE  Decided(desk[q], Target(desk[q]))'
      BY DEF DeskInv
    <2>1. CASE q = p
      BY <1>3, <1>4, <1>5, <1>6, <2>1 DEF Target, Exp, Decided
    <2>2. CASE q # p
      BY <1>5, <1>6, <2>2 DEF IInv, DeskInv, Target, Exp, Decided
    <2> QED BY <2>1, <2>2
  <1>10. ShownInv'
    BY <1>4, <1>5, <1>6 DEF IInv, ShownInv, Exp
  <1> QED
    BY <1>7, <1>8, <1>9, <1>10 DEF IInv

LEMMA DropKeeps ==
    ASSUME IInv, NEW p \in Operators, Drop(p)
    PROVE  IInv'
  <1>1. /\ desk' \in [Operators -> Desks]
        /\ \A q \in Operators :
             /\ desk'[q] = desk[q] \/ desk'[q] = Idle
             /\ desk'[q].verb \in Verbs \union {None}
             /\ desk'[q].verb # None => /\ desk'[q].objective \in Objectives
                                        /\ desk'[q].generation \in Generations
    BY DeskCleared DEF Drop, IInv
  <1>2. UNCHANGED <<policy, objectives, experiments, missions, shown, revisions>>
    BY DEF Drop
  <1>3. TInv'
    BY <1>1, <1>2 DEF IInv, TInv, ImprovementTypeOK
  <1>4. RowInv' /\ LineageChained' /\ AcceptedWasShown'
    BY <1>2 DEF IInv, RowInv, LineageChained, AcceptedWasShown, Exp
  <1>5. Idle.verb = None /\ ~Claims(Idle)
    BY NoneAssumption DEF Idle, Claims, Verbs
  <1>6. DeskInv'
    <2> SUFFICES ASSUME NEW q \in Operators, desk'[q].verb # None
                 PROVE  Decided(desk[q], Target(desk[q]))'
      BY DEF DeskInv
    <2>1. desk'[q] = desk[q]
      BY <1>1, <1>5
    <2> QED BY <1>2, <2>1 DEF IInv, DeskInv, Target, Exp, Decided
  <1>7. ShownInv'
    BY <1>1, <1>2, <1>5 DEF IInv, ShownInv, Exp
  <1> QED
    BY <1>3, <1>4, <1>6, <1>7 DEF IInv

(* The Owner's writes, and steps that change nothing.                      *)
LEMMA OwnerKeeps ==
    ASSUME IInv,
           \/ \E new \in Policies : SetPolicy(new)
           \/ \E o \in Objectives : RegisterObjective(o) \/ RetireObjective(o)
           \/ UNCHANGED vars
    PROVE  IInv'
  <1>1. ASSUME NEW new \in Policies, SetPolicy(new) PROVE IInv'
    <2>1. TInv'
      BY <1>1, ImprovementAssumption DEF SetPolicy, IInv, TInv, ImprovementTypeOK
    <2> QED BY <1>1, <2>1, OthersKeep DEF SetPolicy
  <1>2. ASSUME NEW o \in Objectives, RegisterObjective(o) PROVE IInv'
    <2>1. TInv'
      BY <1>2, ImprovementAssumption DEF RegisterObjective, IInv, TInv, ImprovementTypeOK
    <2> QED BY <1>2, <2>1, OthersKeep DEF RegisterObjective
  <1>3. ASSUME NEW o \in Objectives, RetireObjective(o) PROVE IInv'
    <2>1. /\ objectives' \in [Objectives -> [digest : 0..MaxRevisions, active : BOOLEAN]]
          /\ revisions' \in 0..MaxRevisions
      <3>1. objectives \in [Objectives -> [digest : 0..MaxRevisions, active : BOOLEAN]]
        BY DEF IInv, TInv, ImprovementTypeOK
      <3>2. objectives' = [objectives EXCEPT ![o].active = FALSE]
        BY <1>3 DEF RetireObjective
      <3>3. objectives[o] \in [digest : 0..MaxRevisions, active : BOOLEAN]
        BY <3>1
      <3>4. [objectives[o] EXCEPT !.active = FALSE]
              \in [digest : 0..MaxRevisions, active : BOOLEAN]
        BY <3>3
      <3>5. revisions' \in 0..MaxRevisions
        BY <1>3, ImprovementAssumption DEF RetireObjective, IInv, TInv, ImprovementTypeOK
      <3> QED BY <3>1, <3>2, <3>4, <3>5
    <2>2. TInv'
      BY <1>3, <2>1 DEF RetireObjective, IInv, TInv, ImprovementTypeOK
    <2> QED BY <1>3, <2>2, OthersKeep DEF RetireObjective
  <1>4. CASE UNCHANGED vars
    <2>1. TInv'
      BY <1>4 DEF vars, IInv, TInv, ImprovementTypeOK
    <2> QED BY <1>4, <2>1, OthersKeep DEF vars
  <1> QED
    BY <1>1, <1>2, <1>3, <1>4

LEMMA NextIInv == IInv /\ [Next]_vars => IInv'
  <1> SUFFICES ASSUME IInv, [Next]_vars PROVE IInv'
    OBVIOUS
  <1>1. ASSUME NEW o \in Objectives, NEW sha \in Shas, AdmitExperiment(o, sha)
        PROVE  IInv'
    BY <1>1, AdmitExperimentKeeps
  <1>2. ASSUME NEW p \in Operators, NEW o \in Objectives, NEW g \in Generations,
               Verb(p, o, g)
        PROVE  IInv'
    BY <1>2, VerbKeeps
  <1>3. ASSUME NEW o \in Objectives, NEW g \in Generations, Revert(o, g) PROVE IInv'
    BY <1>3, RevertKeeps
  <1>4. ASSUME NEW p \in Operators,
               Write(p) \/ AdmitGeneration(p) \/ Submit(p) \/ Drop(p)
        PROVE  IInv'
    BY <1>4, WriteKeeps, AdmitGenerationKeeps, SubmitKeeps, DropKeeps
  <1>5. CASE \/ \E new \in Policies : SetPolicy(new)
             \/ \E o \in Objectives : RegisterObjective(o) \/ RetireObjective(o)
             \/ UNCHANGED vars
    BY <1>5, OwnerKeeps
  <1> QED
    BY <1>1, <1>2, <1>3, <1>4, <1>5 DEF Next

-----------------------------------------------------------------------------
(* The theorems.                                                           *)

(* The strengthened invariant holds however verbs and writes interleave.   *)
THEOREM ImprovementInvariance == Spec => []IInv
  BY InitIInv, NextIInv, PTL DEF Spec

(* Every row, policy, objective and decision keeps its type.               *)
THEOREM ImprovementTyping == Spec => []ImprovementTypeOK
  <1>1. IInv => ImprovementTypeOK
    BY DEF IInv, TInv
  <1> QED
    BY <1>1, ImprovementInvariance, PTL

(* open_generation decides in one transaction and admits in another, and   *)
(* yet a lineage is a chain of closed generations, each from the commit    *)
(* the one before produced.                                                *)
THEOREM LineageIsAChain == Spec => []LineageChained
  <1>1. IInv => LineageChained
    BY DEF IInv
  <1> QED
    BY <1>1, ImprovementInvariance, PTL

(* close and stage_promotion write what they decided on an earlier read,   *)
(* and yet nothing is accepted or staged that was not recorded as better.  *)
THEOREM AcceptedIsShown == Spec => []AcceptedWasShown
  <1>1. IInv => AcceptedWasShown
    BY DEF IInv
  <1> QED
    BY <1>1, ImprovementInvariance, PTL
=============================================================================
