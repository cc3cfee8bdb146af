-------------------------- MODULE FactoryProperties --------------------------
(***************************************************************************)
(* What a shift bounds, however its commands interleave.                   *)
(***************************************************************************)
EXTENDS Factory

FactoryTypeOK ==
    /\ grants \in [Refs -> Grants]
    /\ granted \in Seq(Refs)
    /\ attempts \in [1..Slots -> Seq(Missions)]
    /\ \A s \in 1..Slots : Len(attempts[s]) <= MaxAttempts
    /\ loaded \in BOOLEAN
    /\ control \in ControlStates
    /\ \A p \in Procs :
         /\ proc[p].at \in Points
         /\ proc[p].ref \in Refs \union {None}
         /\ proc[p].slot \in 0..Slots /\ proc[p].attempt \in 0..MaxAttempts
    /\ moves \in 0..MaxMoves /\ faults \in 0..MaxFaults

(* However many start and stop at once, the Factory holds one live grant:  *)
(* apply warns that "two overlapping ceilings" would count against a bound *)
(* nobody chose.                                                           *)
OneFactoryShift ==
    \A r, s \in FactoryRefs : Live(r) /\ Live(s) => r = s

(* The portfolio is strictly serial: whoever hands off, a slot has one     *)
(* attempt that is not settled, and is taken up only when every slot       *)
(* before it is settled for good (Portfolio.next_mission).                 *)
StrictlySerial ==
    \A s \in 1..Slots :
        Tried(s) => /\ \A i \in 1..(Len(attempts[s]) - 1) :
                         attempts[s][i].state = "unserved"
                    /\ \A t \in 1..(s - 1) : Settled(t) /\ ~Retryable(t)
=============================================================================
