----------------------------- MODULE Commitments -----------------------------
(***************************************************************************)
(* CommitmentEngine (pricing/commitments.py): one minimum-commitment       *)
(* contract, the value recorded against it, its status and the true-up     *)
(* invoices issued for it.  The engine keeps no invoice; `invoiced' is     *)
(* what callers were handed.                                               *)
(***************************************************************************)
EXTENDS Clock

CONSTANTS
  Minimum,    \* minimum_value
  TrueUpRate, \* true_up_rate
  PeriodEnd,  \* end_date
  Values      \* values recorded

ASSUME CommitmentAssumption ==
  /\ Minimum \in Nat /\ TrueUpRate \in Nat /\ PeriodEnd \in Nat
  /\ Values \subseteq Nat \ {0}

VARIABLES
  contract,  \* CommitmentStatus
  actual,    \* actual_value
  invoiced,  \* amounts of the invoices issued while the contract was active
  trueUps    \* amounts of the invoices issued after a breach

commitmentVars == <<contract, actual, invoiced, trueUps>>

Statuses == {"active", "completed", "breached", "cancelled"}

CommitmentTypeOK ==
  /\ contract \in Statuses /\ actual \in Nat
  /\ invoiced \subseteq Nat /\ trueUps \subseteq Nat

CommitmentInit ==
  /\ contract = "active" /\ actual = 0 /\ invoiced = {} /\ trueUps = {}

Fulfilled == actual >= Minimum
TrueUpAmount == (IF Fulfilled THEN 0 ELSE Minimum - actual) * TrueUpRate

(* Recorded whatever the status: a breached contract may still reach its   *)
(* minimum and stays breached.                                             *)
RecordValue(v) ==
  /\ actual < Minimum  \* beyond it nothing changes but the number
  /\ actual' = actual + v
  /\ UNCHANGED <<now, contract, invoiced, trueUps>>

(* check_status *)
Checked ==
  IF contract = "active" /\ now > PeriodEnd
  THEN IF Fulfilled THEN "completed" ELSE "breached"
  ELSE contract

CheckStatus ==
  /\ contract' = Checked
  /\ UNCHANGED <<now, actual, invoiced, trueUps>>

(* Nothing records that an invoice was issued, and an active contract is   *)
(* invoiced for a shortfall it may still make up.                          *)
GenerateTrueUp ==
  /\ ~Fulfilled /\ Checked \in {"breached", "active"}
  /\ contract' = Checked
  /\ IF Checked = "active"
     THEN invoiced' = invoiced \cup {TrueUpAmount} /\ UNCHANGED trueUps
     ELSE trueUps' = trueUps \cup {TrueUpAmount} /\ UNCHANGED invoiced
  /\ UNCHANGED <<now, actual>>

CancelContract ==
  /\ contract' = "cancelled"
  /\ UNCHANGED <<now, actual, invoiced, trueUps>>

CommitmentNext ==
  \/ Tick /\ UNCHANGED commitmentVars
  \/ \E v \in Values : RecordValue(v)
  \/ CheckStatus
  \/ GenerateTrueUp
  \/ CancelContract

CommitmentSpec == CommitmentInit /\ [][CommitmentNext]_<<now, commitmentVars>>

---------------------------------------------------------------------------
(* A contract is completed only when its minimum was reached, breached     *)
(* only after its period, and what a later invoice asks is never more than *)
(* what an earlier one asked: the engine credits nothing back, so an       *)
(* invoice handed out early is the dearest (commitments.py:149-166).       *)
CommitmentsSettle ==
  /\ contract = "completed" => Fulfilled
  /\ contract = "breached" => now > PeriodEnd
  /\ \A early \in invoiced, late \in trueUps : late <= early
=============================================================================
