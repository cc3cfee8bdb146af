---------------------------- MODULE CycleLedger ----------------------------
(***************************************************************************)
(* What the three cycle tables promise (supervisor_cycles,                 *)
(* work_intake_cycles, management_cycles): invocations are numbered, at    *)
(* most the last of them is open, and each is settled exactly once: by     *)
(* itself, or by somebody who found its lease run out.  An invocation that *)
(* was settled by another never rewrites what was recorded of it.          *)
(*                                                                         *)
(* The variable is the column "outcome" of the rows in order of their      *)
(* sequence.                                                               *)
(***************************************************************************)
EXTENDS Naturals, Sequences

CONSTANTS Outcomes,     \* what a cycle may close as
          Recoveries    \* what a cycle may be settled as by another

VARIABLE rows

Open == "open"

LedgerTypeOK == rows \in Seq(Outcomes \union Recoveries \union {Open})

LedgerInit == rows = <<>>

IsOpen(i) == rows[i] = Open

(* Somebody begins a cycle; what the last one left open is settled.        *)
Begin ==
    \E o \in Recoveries:
        rows' = Append([i \in DOMAIN rows |-> IF IsOpen(i) THEN o ELSE rows[i]],
                       Open)

(* A cycle closes itself, or a reader settles one that was abandoned.      *)
Settle ==
    \E i \in DOMAIN rows, o \in Outcomes \union Recoveries:
        IsOpen(i) /\ rows' = [rows EXCEPT ![i] = o]

LedgerNext == Begin \/ Settle

LedgerSpec == LedgerInit /\ [][LedgerNext]_rows
=============================================================================
