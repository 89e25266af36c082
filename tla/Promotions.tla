------------------------------ MODULE Promotions ------------------------------
(***************************************************************************)
(* PromotionEngine (pricing/promotions.py): one promotion, its window, its *)
(* redemption limit and its status.  A customer is eligible or not; which  *)
(* plan or rule decides is left out.  Prices and discounts are in cents.   *)
(***************************************************************************)
EXTENDS Clock

CONSTANTS
  PromoStart, PromoEnd,  \* start_date, end_date
  MaxRedemptions,        \* max_redemptions, 0 for no limit
  Discounts,             \* records [kind, value]: percentage, fixed, credits
  Prices,                \* original prices
  MaxUses                \* bound on redemptions when there is no limit

ASSUME PromotionAssumption ==
  /\ PromoStart \in Nat /\ PromoEnd \in Nat
  /\ MaxRedemptions \in Nat /\ MaxUses \in Nat
  /\ Discounts \subseteq [kind : {"percentage", "fixed", "credits"}, value : Nat]
  /\ Prices \subseteq Nat

VARIABLES
  promo,        \* status
  discount,     \* discount_type and discount_value
  redemptions,  \* current_redemptions
  charged       \* final prices of the redemptions, with the price before

promotionVars == <<promo, discount, redemptions, charged>>

PromotionTypeOK ==
  /\ promo \in {"active", "expired", "exhausted", "disabled"}
  /\ discount \in Discounts
  /\ redemptions \in Nat
  /\ charged \subseteq [before : Prices, after : Nat]

PromotionInit ==
  /\ promo = "active" /\ discount \in Discounts
  /\ redemptions = 0 /\ charged = {}

(* is_active *)
PromoActive ==
  /\ promo = "active"
  /\ PromoStart <= now /\ now <= PromoEnd
  /\ MaxRedemptions = 0 \/ redemptions < MaxRedemptions

(* A percentage is rounded to a cent, half of one upwards; Python rounds   *)
(* such a half either way, as the binary fraction falls, so a price may be *)
(* a cent higher than here: no property tells the two apart.               *)
Reduced(price) ==
  LET off == CASE discount.kind = "percentage" -> (price * discount.value + 50) \div 100
               [] discount.kind = "fixed" -> IF discount.value < price THEN discount.value ELSE price
               [] discount.kind = "credits" -> 0
  IN IF price - off > 0 THEN price - off ELSE 0

(* apply_discount for an eligible customer; anyone else pays the full      *)
(* price and nothing is recorded.                                          *)
ApplyDiscount(price) ==
  /\ PromoActive /\ redemptions < MaxUses
  /\ redemptions' = redemptions + 1
  /\ charged' = charged \cup {[before |-> price, after |-> Reduced(price)]}
  /\ promo' = IF MaxRedemptions > 0 /\ redemptions' >= MaxRedemptions THEN "exhausted" ELSE promo
  /\ UNCHANGED <<now, discount>>

DisablePromotion == promo' = "disabled" /\ UNCHANGED <<now, discount, redemptions, charged>>

(* _update_statuses, run by list_active only: a promotion whose window has *)
(* passed may stay "active" for ever, and is_active refuses it all the same.*)
UpdateStatuses ==
  /\ promo = "active" /\ now > PromoEnd
  /\ promo' = "expired"
  /\ UNCHANGED <<now, discount, redemptions, charged>>

PromotionNext ==
  \/ Tick /\ UNCHANGED promotionVars
  \/ \E p \in Prices : ApplyDiscount(p)
  \/ DisablePromotion
  \/ UpdateStatuses

PromotionSpec == PromotionInit /\ [][PromotionNext]_<<now, promotionVars>>

---------------------------------------------------------------------------
(* A limited promotion is redeemed at most max_redemptions times, says so  *)
(* when it is used up unless it was disabled, and no discount makes a      *)
(* price negative or higher.                                               *)
RedemptionsBounded ==
  /\ MaxRedemptions > 0 => redemptions <= MaxRedemptions
  /\ promo = "exhausted" => redemptions = MaxRedemptions
  /\ \A c \in charged : 0 <= c.after /\ c.after <= c.before
=============================================================================
