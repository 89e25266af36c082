---------------------------- MODULE RevenueEntries ----------------------------
(***************************************************************************)
(* RevenueRecognizer (compliance/revenue_recognition.py): the sales of one *)
(* licence, by their order of creation, in cents.  Recognition is pro rata *)
(* over Period ticks.  The two parts of an amount are rounded separately   *)
(* from binary fractions: a half cent goes either way in each of them.     *)
(***************************************************************************)
EXTENDS Clock, FiniteSets

CONSTANTS
  SalePrices,  \* amounts of sales, in cents
  Period,      \* the period a sale is deferred over, in ticks
  MaxEntries,  \* max_entries
  MaxSales     \* bound on the sales

ASSUME RevenueAssumption ==
  /\ SalePrices \subseteq Nat /\ Period \in Nat \ {0}
  /\ MaxEntries \in Nat /\ MaxSales \in Nat

Methods == {"immediate", "deferred", "usage_based", "milestone"}

VARIABLES
  sales,  \* _entries
  sold    \* sales recorded so far

revenueVars == <<sales, sold>>

Sale == [amount : SalePrices, method : Methods, start : Time,
         recognized : Nat, deferred : Nat,
         status : {"pending", "recognized", "deferred_partial", "refunded"}]

RevenueTypeOK ==
  /\ sold \in 0 .. MaxSales
  /\ DOMAIN sales \subseteq 1 .. sold
  /\ \A i \in DOMAIN sales : sales[i] \in Sale

RevenueInit == sales = <<>> /\ sold = 0

Sold(amount, method) ==
  LET atOnce == method = "immediate"
  IN [amount |-> amount, method |-> method, start |-> now,
      recognized |-> IF atOnce THEN amount ELSE 0,
      deferred |-> IF atOnce THEN 0 ELSE amount,
      status |-> IF atOnce THEN "recognized" ELSE "pending"]

RefundedIn(q) == {i \in DOMAIN q : q[i].status = "refunded"}

EnforcedOnAll(q) ==
  LET excess == Cardinality(DOMAIN q) - MaxEntries
      kept == {i \in DOMAIN q : Cardinality({j \in DOMAIN q : j < i}) >= excess}
  IN [i \in kept |-> q[i]]

(* _enforce_limit: the oldest refunded sales go, no other sale ever does.  *)
Enforced(q) ==
  LET excess == Cardinality(DOMAIN q) - MaxEntries
      gone == {i \in RefundedIn(q) : Cardinality({j \in RefundedIn(q) : j < i}) < excess}
  IN [i \in DOMAIN q \ gone |-> q[i]]

RecordSale(amount, method) ==
  /\ sold < MaxSales /\ sold' = sold + 1
  /\ sales' = Enforced([i \in DOMAIN sales \cup {sold'} |->
                          IF i = sold' THEN Sold(amount, method) ELSE sales[i]])
  /\ UNCHANGED now

(* round of a float n / d: up is the direction a tie takes. *)
Rounded(n, d, up) == (2 * n + d - (IF up THEN 0 ELSE 1)) \div (2 * d)

EarnedStillDeferred(s, part, whole, up) ==
  [s EXCEPT !.recognized = Rounded(s.amount * part, whole, up[1]),
            !.status = IF part = whole THEN "recognized" ELSE "deferred_partial"]

(* An entry of which part/whole has been earned. *)
Earned(s, part, whole, up) ==
  [s EXCEPT !.recognized = Rounded(s.amount * part, whole, up[1]),
            !.deferred = Rounded(s.amount * (whole - part), whole, up[2]),
            !.status = IF part = whole THEN "recognized" ELSE "deferred_partial"]

Unsettled(s, method) == s.method = method /\ s.status \notin {"recognized", "refunded"}

(* recognize_deferred as of a time of the caller's, which may be earlier   *)
(* than the last: what was recognised is then deferred again.              *)
RecognizeDeferred(asOf) ==
  /\ \E up \in [SalePrices -> BOOLEAN \X BOOLEAN] :
       sales' = [i \in DOMAIN sales |->
         LET s == sales[i]
             elapsed == IF asOf - s.start < Period THEN asOf - s.start ELSE Period
         IN IF Unsettled(s, "deferred") /\ elapsed >= 0
            THEN Earned(s, elapsed, Period, up[sales[i].amount]) ELSE s]
  /\ UNCHANGED <<now, sold>>

(* recognize_usage: the fraction is the caller's, in steps of 1/Period. *)
RecognizeUsage(fraction) ==
  /\ \E up \in [SalePrices -> BOOLEAN \X BOOLEAN] :
       sales' = [i \in DOMAIN sales |->
         IF Unsettled(sales[i], "usage_based")
         THEN Earned(sales[i], fraction, Period, up[sales[i].amount]) ELSE sales[i]]
  /\ UNCHANGED <<now, sold>>

(* refund, of an entry in any status. *)
RefundSale(i) ==
  /\ sales' = [sales EXCEPT ![i] =
                 [@ EXCEPT !.recognized = 0, !.deferred = 0, !.status = "refunded"]]
  /\ UNCHANGED <<now, sold>>

RevenueNext ==
  \/ Tick /\ UNCHANGED revenueVars
  \/ \E p \in SalePrices, m \in Methods : RecordSale(p, m)
  \/ \E t \in Time : RecognizeDeferred(t)
  \/ \E f \in 0 .. Period : RecognizeUsage(f)
  \/ \E i \in DOMAIN sales : RefundSale(i)

RevenueSpec == RevenueInit /\ [][RevenueNext]_<<now, revenueVars>>

---------------------------------------------------------------------------
(* What an entry recognises and defers is its amount up to the cent the    *)
(* two roundings can cost, and to the cent when nothing or everything has  *)
(* been earned; a refunded entry holds nothing (revenue_recognition.py:    *)
(* 176-178, 204-206).                                                      *)
RevenueBalances ==
  \A i \in DOMAIN sales :
    LET s == sales[i]  off == s.recognized + s.deferred - s.amount IN
      CASE s.status = "refunded" -> s.recognized = 0 /\ s.deferred = 0
        [] s.status = "deferred_partial" -> off \in -1 .. 1
        [] OTHER -> off = 0

(* The limit on entries costs no sale but a refunded one, and what is      *)
(* fully recognised stays so until it is refunded.                         *)
RevenueKept ==
  \A i \in DOMAIN sales :
    /\ i \notin DOMAIN sales' => sales[i].status = "refunded"
    /\ i \in DOMAIN sales' /\ sales[i].status = "recognized" =>
         sales'[i] = sales[i] \/ sales'[i].status = "refunded"
    /\ i \in DOMAIN sales' /\ sales[i].status = "refunded" => sales'[i] = sales[i]
=============================================================================
