-------------------------------- MODULE Loyalty --------------------------------
(***************************************************************************)
(* LoyaltyEngine (upsell/loyalty.py): one member, its tier, its tenure    *)
(* and the rewards it earned.  Tiers are numbered from 1; thresholds,      *)
(* spend and milestones are counted in coarse units, and points, which     *)
(* nothing reads, are left out.                                            *)
(***************************************************************************)
EXTENDS Integers, Sequences

CONSTANTS
  Thresholds,  \* <<0, 500, 2000, 5000, 15000>>: spend at which a tier starts
  Milestones,  \* months at which tenure is rewarded
  Spends,      \* amounts recorded; a negative one takes a purchase back
  MaxSpend, MaxTenure  \* bounds on the sums callers reach

Levels == DOMAIN Thresholds

ASSUME LoyaltyAssumption ==
  /\ Thresholds \in Seq(Nat) /\ Thresholds # <<>>
  /\ Thresholds[1] = 0
  /\ \A a, b \in Levels : a < b => Thresholds[a] < Thresholds[b]
  /\ Milestones \subseteq Nat \ {0} /\ Spends \subseteq Int
  /\ MaxSpend \in Nat /\ MaxTenure \in Nat

VARIABLES
  level,    \* tier
  spend,    \* lifetime_spend
  tenure,   \* tenure_months
  claimed,  \* milestones in rewards_claimed
  bonuses,  \* _rewards: tier upgrades and milestones, each with its count
  longest   \* history: the longest tenure ever reported

loyaltyVars == <<level, spend, tenure, claimed, bonuses, longest>>

LoyaltyTypeOK ==
  /\ level \in Levels /\ spend \in Int
  /\ tenure \in 0 .. MaxTenure /\ longest \in 0 .. MaxTenure
  /\ claimed \subseteq Milestones
  /\ bonuses \in [upgrades : Nat, tenure : [Milestones -> Nat]]

(* enroll; a second enrolment of the licence finds the member. *)
LoyaltyInit ==
  /\ level = 1 /\ spend = 0 /\ tenure = 0
  /\ claimed = {} /\ longest = 0
  /\ bonuses = [upgrades |-> 0, tenure |-> [m \in Milestones |-> 0]]

(* _evaluate_tier: the highest tier whose threshold is met.  Spend below   *)
(* the lowest threshold meets none, and the tier stays what it was.        *)
LevelAt(s, old) ==
  LET met == {l \in Levels : s >= Thresholds[l]}
  IN IF met = {} THEN old ELSE CHOOSE l \in met : \A k \in met : k <= l

RecordSpend(a) ==
  /\ spend + a \in -MaxSpend .. MaxSpend /\ bonuses.upgrades < MaxSpend
  /\ spend' = spend + a
  /\ level' = LevelAt(spend', level)
  /\ bonuses' = IF level' > level THEN [bonuses EXCEPT !.upgrades = @ + 1] ELSE bonuses
  /\ UNCHANGED <<tenure, claimed, longest>>

PassedAll(old, months) == {m \in Milestones : old < m /\ m <= months}

(* The milestones one update_tenure bonuses: passed by it, not rewarded yet. *)
Passed(old, months) == {m \in Milestones : old < m /\ m <= months} \ claimed

UpdateTenure(months) ==
  /\ tenure' = months
  /\ claimed' = claimed \cup Passed(tenure, months)
  /\ bonuses' = [bonuses EXCEPT !.tenure = [m \in Milestones |->
                   IF m \in Passed(tenure, months) THEN @[m] + 1 ELSE @[m]]]
  /\ longest' = IF months > longest THEN months ELSE longest
  /\ UNCHANGED <<level, spend>>

LoyaltyNext ==
  \/ \E a \in Spends : RecordSpend(a)
  \/ \E m \in 0 .. MaxTenure : UpdateTenure(m)

LoyaltySpec == LoyaltyInit /\ [][LoyaltyNext]_loyaltyVars

---------------------------------------------------------------------------
(* Every milestone up to the longest tenure reported was rewarded, once,   *)
(* also when tenure was corrected down and rose again; the tier is the one *)
(* the spend earns while the spend is not negative.                        *)
LoyaltyFair ==
  /\ \A m \in Milestones : bonuses.tenure[m] = IF m <= longest THEN 1 ELSE 0
  /\ spend >= 0 => /\ spend >= Thresholds[level]
                   /\ \A l \in Levels : l > level => spend < Thresholds[l]
=============================================================================
