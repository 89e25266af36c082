----------------------------- MODULE CreditLedger -----------------------------
(***************************************************************************)
(* PrepaidCreditEngine (pricing/credits.py): one licence's balance and its *)
(* list of transactions, kept here as their sum.  Balances of different    *)
(* licences do not meet, and every method runs without an await.           *)
(***************************************************************************)
EXTENDS Clock

CONSTANTS
  Packages,   \* records [credits, bonus, valid]; valid = 0: no expiry is set
  Amounts,    \* amounts callers consume, reserve, release and refund
  MaxCredits  \* bound on purchases, and on the sums callers may reach

ASSUME PackagesAssumption ==
  Packages \subseteq [credits : Nat \ {0}, bonus : Nat, valid : Nat]
ASSUME AmountsAssumption == Amounts \subseteq Nat \ {0} /\ MaxCredits \in Nat

Never == -1

VARIABLES
  purchased, bonus, used, reserved,  \* CreditBalance
  creditsEnd,  \* expires_at
  entries,     \* the sum of the amounts of all transactions
  uncovered    \* history: refunded without having been used

creditVars == <<purchased, bonus, used, reserved, creditsEnd, entries, uncovered>>

Available == purchased + bonus - used - reserved

Least(a, b) == IF a < b THEN a ELSE b

CreditTypeOK ==
  /\ now \in Time
  /\ purchased \in Nat /\ bonus \in Nat /\ used \in Nat /\ reserved \in Nat
  /\ creditsEnd \in Nat \cup {Never} /\ entries \in Int /\ uncovered \in Nat

CreditInit ==
  /\ now = 0
  /\ purchased = 0 /\ bonus = 0 /\ used = 0 /\ reserved = 0
  /\ creditsEnd = Never /\ entries = 0 /\ uncovered = 0

(* A purchase moves the expiry of every credit the licence still has. *)
Purchase(p) ==
  /\ purchased + p.credits <= MaxCredits
  /\ purchased' = purchased + p.credits
  /\ bonus' = bonus + p.bonus
  /\ creditsEnd' = IF p.valid > 0 THEN now + p.valid ELSE creditsEnd
  /\ entries' = entries + p.credits + p.bonus
  /\ UNCHANGED <<now, used, reserved, uncovered>>

Consume(a) ==
  /\ Available >= a
  /\ used' = used + a
  /\ entries' = entries - a
  /\ UNCHANGED <<now, purchased, bonus, reserved, creditsEnd, uncovered>>

Reserve(a) ==
  /\ Available >= a
  /\ reserved' = reserved + a
  /\ UNCHANGED <<now, purchased, bonus, used, creditsEnd, entries, uncovered>>

ReleaseUnbounded(a) ==
  /\ reserved' = reserved - a
  /\ UNCHANGED <<now, purchased, bonus, used, creditsEnd, entries, uncovered>>

(* A release names no reservation: releasing twice frees another's hold. *)
Release(a) ==
  /\ reserved' = reserved - Least(a, reserved)
  /\ UNCHANGED <<now, purchased, bonus, used, creditsEnd, entries, uncovered>>

RefundUnrecorded(a) ==
  /\ entries + a <= MaxCredits
  /\ used' = used - Least(a, used)
  /\ uncovered' = uncovered + a - Least(a, used)
  /\ UNCHANGED <<now, purchased, bonus, reserved, creditsEnd, entries>>

(* The transaction records the whole amount, the balance takes back at     *)
(* most what was used.                                                     *)
Refund(a) ==
  /\ entries + a <= MaxCredits
  /\ used' = used - Least(a, used)
  /\ entries' = entries + a
  /\ uncovered' = uncovered + a - Least(a, used)
  /\ UNCHANGED <<now, purchased, bonus, reserved, creditsEnd>>

(* Expired credits are counted as used.  Credits on hold are not: a later  *)
(* release makes them available until the next check.                      *)
CheckExpiry ==
  /\ creditsEnd # Never /\ creditsEnd < now /\ Available > 0
  /\ used' = used + Available
  /\ entries' = entries - Available
  /\ UNCHANGED <<now, purchased, bonus, reserved, creditsEnd, uncovered>>

CreditNext ==
  \/ Tick /\ UNCHANGED creditVars
  \/ \E p \in Packages : Purchase(p)
  \/ \E a \in Amounts : Consume(a) \/ Reserve(a) \/ Release(a) \/ Refund(a)
  \/ CheckExpiry

CreditSpec == CreditInit /\ [][CreditNext]_<<now, creditVars>>

---------------------------------------------------------------------------
(* No order of purchases, holds, releases, refunds and expiry checks       *)
(* overdraws a licence: what is used and held was bought or given.         *)
NeverOverdrawn == Available >= 0

(* The transactions explain the balance: their sum is what was bought and  *)
(* given less what was used, and exceeds it by exactly the refunds that    *)
(* the balance did not take back (credits.py:186-199).                     *)
EntriesExplainBalance == entries = purchased + bonus - used + uncovered
=============================================================================
