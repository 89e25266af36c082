------------------------------- MODULE MCBilling -------------------------------
(* The in-memory engines around a licence, one of them at a time: none     *)
(* reads the state of another, so their steps need not be interleaved.     *)
EXTENDS CreditLedger, Commitments, Promotions, RateLimits, Trials,
        RevenueEntries, Loyalty, Overage, Retention

VARIABLE part

vars == <<part, now, creditVars, commitmentVars, promotionVars, rateVars, trialVars,
          revenueVars, loyaltyVars, overageVars, retentionVars>>

Parts == {"credits", "commitments", "promotions", "rates", "trials", "revenue",
          "loyalty", "overage", "retention"}

Init ==
  /\ part \in Parts /\ now = 0
  /\ CreditInit /\ CommitmentInit /\ PromotionInit /\ RateInit /\ TrialInit
  /\ RevenueInit /\ LoyaltyInit /\ OverageInit /\ RetentionInit
  /\ part # "promotions" => discount = CHOOSE d \in Discounts : TRUE

Still(p, v) == IF part = p THEN TRUE ELSE UNCHANGED v

Next ==
  /\ UNCHANGED part
  /\ \/ part = "credits" /\ CreditNext
     \/ part = "commitments" /\ CommitmentNext
     \/ part = "promotions" /\ PromotionNext
     \/ part = "rates" /\ RateNext
     \/ part = "trials" /\ TrialNext
     \/ part = "revenue" /\ RevenueNext
     \/ part = "loyalty" /\ LoyaltyNext /\ UNCHANGED now
     \/ part = "overage" /\ OverageNext /\ UNCHANGED now
     \/ part = "retention" /\ RetentionNext
  /\ Still("credits", creditVars) /\ Still("commitments", commitmentVars)
  /\ Still("promotions", promotionVars) /\ Still("rates", rateVars)
  /\ Still("trials", trialVars) /\ Still("revenue", revenueVars)
  /\ Still("loyalty", loyaltyVars) /\ Still("overage", overageVars)
  /\ Still("retention", retentionVars)

Spec == Init /\ [][Next]_vars

---------------------------------------------------------------------------
(* The values the parameters take. *)
MCPackages == {[credits |-> 2, bonus |-> 1, valid |-> 1], [credits |-> 1, bonus |-> 0, valid |-> 0]}
MCDiscounts == {[kind |-> "percentage", value |-> 33], [kind |-> "fixed", value |-> 500],
                [kind |-> "credits", value |-> 50]}
MCTierCapacity == [free |-> [rpm |-> 2, burst |-> 1], pro |-> [rpm |-> 3, burst |-> 2]]
MCTierRefill == [free |-> [rpm |-> 1, burst |-> 1], pro |-> [rpm |-> 2, burst |-> 1]]
MCThresholds == <<0, 2, 4, 6, 8>>
MCSpends == {-3, 1, 2, 5}
MCUsageLimits == [free |-> 1, pro |-> 3, enterprise |-> 0]
MCSignals == {[trend |-> t, idle |-> i, tickets |-> k, adoption |-> a, failures |-> f] :
                t \in {-31, -1, 5}, i \in {10, 15, 31}, k \in {0, 3}, a \in {10, 40}, f \in {0, 2}}

---------------------------------------------------------------------------
(* Every engine's state has the shape its class gives it. *)
TypeOK ==
  /\ part \in Parts
  /\ CreditTypeOK /\ CommitmentTypeOK /\ PromotionTypeOK /\ RateTypeOK /\ TrialTypeOK
  /\ RevenueTypeOK /\ LoyaltyTypeOK /\ OverageTypeOK /\ RetentionTypeOK

(* Credits are never overdrawn and their transactions explain the balance, *)
(* up to the refunds the balance does not take back (pricing/credits.py).  *)
CreditsExplained == NeverOverdrawn /\ EntriesExplainBalance

(* What the engines charge and recognise is what their records add up to:  *)
(* commitments, overage and recognised revenue.                            *)
LedgersAddUp == CommitmentsSettle /\ OverageCovered /\ RevenueBalances

(* Redemptions, granted requests and pauses stay within their limits, and  *)
(* worse signals never lower a risk.                                       *)
LimitsHold == RedemptionsBounded /\ GrantsWithinRate /\ RetentionSound

(* What has ended stays ended: a settled contract, a promotion that is no  *)
(* longer active, a resumed pause, recognised or refunded revenue; and a   *)
(* converted trial is open again only by an extension, which looks at no   *)
(* status (trials/engine.py: extend_trial).                                *)
Final ==
  /\ RevenueKept
  /\ contract \in {"completed", "breached"} => contract' \in {contract, "cancelled"}
  /\ contract = "cancelled" => contract' = contract
  /\ promo # "active" => promo' # "active"
  /\ trial.status = "converted" /\ trial'.status # "converted" =>
       via' = "extend" /\ trial'.uses > trial.uses
  /\ \A i \in DOMAIN pauses : pauses[i].status = "resumed" => pauses'[i].status = "resumed"

FinalStays == [][Final]_vars
=============================================================================
