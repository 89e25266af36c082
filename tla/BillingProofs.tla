---------------------------- MODULE BillingProofs ----------------------------
(***************************************************************************)
(* Proofs about the engines of MCBilling, for every value of their         *)
(* parameters.  Only the engine `part' names moves, so an invariant of one *)
(* engine is preserved by its own steps and left alone by all others.      *)
(***************************************************************************)
EXTENDS MCBilling, FiniteSetTheorems, SequenceTheorems, WellFoundedInduction, TLAPS

(* What is held and what is used are counts, and together with the balance *)
(* never below zero: an expiry that used up a negative balance would give it     *)
(* back.  The clock is not needed: it decides when, not what, expires.     *)
CreditInv ==
  /\ purchased \in Nat /\ bonus \in Nat /\ used \in Nat /\ reserved \in Nat
  /\ entries \in Int /\ uncovered \in Nat
  /\ CreditsExplained

LEMMA CreditInitially == Init => CreditInv
BY DEF Init, CreditInit, CreditInv, CreditsExplained, NeverOverdrawn, Available,
       EntriesExplainBalance

(* Every operation of PrepaidCreditEngine keeps the balance explained. *)
LEMMA CreditPreserved == CreditInv /\ CreditNext => CreditInv'
<1> SUFFICES ASSUME CreditInv, CreditNext PROVE CreditInv'
  OBVIOUS
<1> USE DEF CreditInv, CreditsExplained, NeverOverdrawn, Available, EntriesExplainBalance
<1>1. CASE Tick /\ UNCHANGED creditVars
  BY <1>1 DEF Tick, creditVars
<1>2. ASSUME NEW p \in Packages, Purchase(p) PROVE CreditInv'
  <2>1. p.credits \in Nat /\ p.bonus \in Nat
    BY PackagesAssumption
  <2> QED BY <1>2, <2>1 DEF Purchase
<1>3. ASSUME NEW a \in Amounts PROVE Consume(a) => CreditInv'
  BY <1>3, AmountsAssumption DEF Consume
<1>4. ASSUME NEW a \in Amounts PROVE Reserve(a) => CreditInv'
  BY <1>4, AmountsAssumption DEF Reserve
<1>5. ASSUME NEW a \in Amounts PROVE Release(a) => CreditInv'
  BY <1>5, AmountsAssumption DEF Release, Least
<1>6. ASSUME NEW a \in Amounts PROVE Refund(a) => CreditInv'
  BY <1>6, AmountsAssumption DEF Refund, Least
<1>7. CASE CheckExpiry
  BY <1>7 DEF CheckExpiry
<1> QED BY <1>1, <1>2, <1>3, <1>4, <1>5, <1>6, <1>7 DEF CreditNext

(* The other engines leave the balance alone. *)
LEMMA CreditInvariant == Spec => []CreditInv
<1>1. Init => CreditInv
  BY CreditInitially
<1>2. CreditInv /\ [Next]_vars => CreditInv'
  <2> SUFFICES ASSUME CreditInv, [Next]_vars PROVE CreditInv'
    OBVIOUS
  <2>1. CASE part = "credits" /\ Next
    BY <2>1, CreditPreserved DEF Next
  <2>2. CASE UNCHANGED creditVars
    BY <2>2 DEF creditVars, CreditInv, CreditsExplained, NeverOverdrawn, Available,
                EntriesExplainBalance
  <2>3. CASE part # "credits" /\ Next
    BY <2>2, <2>3 DEF Next, Still
  <2>4. CASE UNCHANGED vars
    BY <2>2, <2>4 DEF vars
  <2> QED BY <2>1, <2>3, <2>4
<1> QED BY <1>1, <1>2, PTL DEF Spec

(* No order of purchases, holds, releases, refunds and expiry checks       *)
(* overdraws a licence, and the transactions add up to the balance but for *)
(* the refunds the balance does not take back.                             *)
THEOREM CreditsAreExplained == Spec => []CreditsExplained
<1>1. CreditInv => CreditsExplained
  BY DEF CreditInv
<1> QED BY <1>1, CreditInvariant, PTL

-----------------------------------------------------------------------------
(* Promotions: a redemption needs an active promotion below its limit, and *)
(* the status turns with the redemption that reaches it.                   *)
PromotionInv ==
  /\ discount \in Discounts /\ redemptions \in Nat
  /\ RedemptionsBounded

LEMMA DiscountReduces ==
  ASSUME discount \in Discounts, NEW price \in Prices
  PROVE  0 <= Reduced(price) /\ Reduced(price) <= price
<1>1. price \in Nat /\ discount.value \in Nat
      /\ discount.kind \in {"percentage", "fixed", "credits"}
  BY PromotionAssumption
<1>2. price * discount.value \in Nat
  BY <1>1
<1> QED BY <1>1, <1>2 DEF Reduced

LEMMA PromotionPreserved == PromotionInv /\ PromotionNext => PromotionInv'
<1> SUFFICES ASSUME PromotionInv, PromotionNext PROVE PromotionInv'
  OBVIOUS
<1> USE DEF PromotionInv, RedemptionsBounded
<1>1. CASE UNCHANGED promotionVars
  BY <1>1 DEF promotionVars
<1>2. ASSUME NEW price \in Prices, ApplyDiscount(price) PROVE PromotionInv'
  <2>1. MaxRedemptions \in Nat
    BY PromotionAssumption
  <2>2. /\ MaxRedemptions > 0 => redemptions' <= MaxRedemptions
        /\ promo' = "exhausted" => redemptions' = MaxRedemptions
    BY <1>2, <2>1 DEF ApplyDiscount, PromoActive
  <2>3. \A c \in charged' : 0 <= c.after /\ c.after <= c.before
    BY <1>2, DiscountReduces DEF ApplyDiscount
  <2> QED BY <1>2, <2>2, <2>3 DEF ApplyDiscount
<1>3. CASE DisablePromotion
  BY <1>3 DEF DisablePromotion
<1>4. CASE UpdateStatuses
  BY <1>4 DEF UpdateStatuses
<1> QED BY <1>1, <1>2, <1>3, <1>4 DEF PromotionNext

-----------------------------------------------------------------------------
(* Rate limits: a refill is for the time since the last, so no request     *)
(* counts the same ticks twice.                                            *)
Buckets == [cap : Nat, rate : Nat, tokens : Nat, last : Nat, born : Nat, granted : Nat]

InRate(b) ==
  /\ b.tokens + b.granted <= b.cap + b.rate * (b.last - b.born)
  /\ b.tokens <= b.cap

RateInv ==
  /\ buckets \in [Windows -> Buckets]
  /\ part = "rates" => now \in Nat /\ \A w \in Windows : buckets[w].last <= now
  /\ \A w \in Windows : InRate(buckets[w])

(* The bucket after a check. *)
After(b) ==
  IF Refilled(b) >= 1
  THEN [b EXCEPT !.tokens = Refilled(b) - 1, !.last = now, !.granted = @ + 1]
  ELSE [b EXCEPT !.tokens = Refilled(b), !.last = now]

(* One check of one bucket. *)
LEMMA RefillKeepsRate ==
  ASSUME NEW b \in Buckets, now \in Nat, b.last <= now, InRate(b)
  PROVE  /\ Refilled(b) \in Nat /\ Refilled(b) <= b.cap
         /\ Refilled(b) + b.granted <= b.cap + b.rate * (now - b.born)
<1> USE DEF Buckets, InRate
<1> DEFINE gap == now - b.last
           earlier == b.last - b.born
<1>1. /\ gap \in Nat /\ earlier \in Int /\ now - b.born = earlier + gap
      /\ gap * b.rate \in Nat /\ b.rate * earlier \in Int
  OBVIOUS
<1>2. b.rate * (earlier + gap) = b.rate * earlier + gap * b.rate
  BY <1>1
<1>3. /\ Refilled(b) \in Nat /\ Refilled(b) <= b.cap
      /\ Refilled(b) <= b.tokens + gap * b.rate
  BY <1>1 DEF Refilled
<1> HIDE DEF gap, earlier
<1>4. b.tokens + b.granted <= b.cap + b.rate * earlier
  BY DEF earlier
<1> QED BY <1>1, <1>2, <1>3, <1>4

LEMMA CheckKeepsRate ==
  ASSUME NEW b \in Buckets, now \in Nat, b.last <= now, InRate(b)
  PROVE  After(b) \in Buckets /\ After(b).last = now /\ InRate(After(b))
<1>1. /\ Refilled(b) \in Nat /\ Refilled(b) <= b.cap
      /\ Refilled(b) + b.granted <= b.cap + b.rate * (now - b.born)
  BY RefillKeepsRate
<1>2. /\ After(b) \in Buckets /\ After(b).last = now
      /\ After(b).cap = b.cap /\ After(b).rate = b.rate /\ After(b).born = b.born
      /\ After(b).tokens + After(b).granted = Refilled(b) + b.granted
      /\ After(b).tokens <= Refilled(b)
  <2> DEFINE r == Refilled(b)
  <2>1. /\ b.cap \in Nat /\ b.rate \in Nat /\ b.born \in Nat /\ b.granted \in Nat
        /\ r \in Nat
    BY <1>1 DEF Buckets
  <2>2. CASE r >= 1
    <3>1. After(b) = [cap |-> b.cap, rate |-> b.rate, tokens |-> r - 1, last |-> now,
                      born |-> b.born, granted |-> b.granted + 1]
      BY <2>2 DEF After, Buckets
    <3> HIDE DEF r
    <3>2. After(b) \in Buckets
      BY <2>1, <2>2, <3>1 DEF Buckets
    <3> QED BY <2>1, <2>2, <3>1, <3>2 DEF r
  <2>3. CASE ~(r >= 1)
    <3>1. After(b) = [cap |-> b.cap, rate |-> b.rate, tokens |-> r, last |-> now,
                      born |-> b.born, granted |-> b.granted]
      BY <2>3 DEF After, Buckets
    <3>2. After(b) \in Buckets
      BY <2>1, <3>1 DEF Buckets
    <3> QED BY <2>1, <3>1, <3>2
  <2> QED BY <2>2, <2>3
<1>3. b.rate * (now - b.born) = After(b).rate * (After(b).last - After(b).born)
  BY <1>2
<1>4. b.cap \in Nat /\ After(b).tokens \in Nat
  BY <1>2 DEF Buckets
<1> QED BY <1>1, <1>2, <1>3, <1>4 DEF InRate

LEMMA RatePreserved == RateInv /\ part = "rates" /\ UNCHANGED part /\ RateNext => RateInv'
<1> SUFFICES ASSUME RateInv, part = "rates", UNCHANGED part, RateNext PROVE RateInv'
  OBVIOUS
<1>1. CASE Tick /\ UNCHANGED rateVars
  <2>1. now' \in Nat /\ now <= now' /\ buckets' = buckets
    BY <1>1 DEF RateInv, Tick, rateVars
  <2> QED BY <2>1 DEF RateInv, Buckets
<1>2. ASSUME NEW w \in Windows, NEW t \in Tiers, CheckRate(w, t) PROVE RateInv'
  <2>1. Bucket(w, t) \in Buckets /\ Bucket(w, t).last <= now /\ InRate(Bucket(w, t))
    <3>1. CASE buckets[w] # NoBucket
      BY <3>1 DEF Bucket, RateInv
    <3>2. CASE buckets[w] = NoBucket
      <4>1. TierCapacity[t][w] \in Nat /\ TierRefill[t][w] \in Nat
        BY RateAssumption
      <4>2. TierRefill[t][w] * (now - now) = 0
        BY <4>1 DEF RateInv
      <4> QED BY <3>2, <4>1, <4>2 DEF Bucket, RateInv, Buckets, InRate
    <3> QED BY <3>1, <3>2
  <2>2. /\ After(Bucket(w, t)) \in Buckets /\ After(Bucket(w, t)).last = now
        /\ InRate(After(Bucket(w, t)))
    BY <2>1, CheckKeepsRate DEF RateInv
  <2>3. buckets' = [buckets EXCEPT ![w] = After(Bucket(w, t))] /\ now' = now
    BY <1>2 DEF CheckRate, After
  <2> QED BY <2>2, <2>3 DEF RateInv
<1>3. CASE ResetLimits
  BY <1>3 DEF ResetLimits, RateInv, InRate, Buckets, NoBucket
<1> QED BY <1>1, <1>2, <1>3 DEF RateNext

-----------------------------------------------------------------------------
(* Retention: the score adds up what each signal weighs, so it grows with  *)
(* each of them, and the levels are thresholds of the score.               *)
PauseRecord == [status : {"active", "resumed"}, from : Nat, until : Nat, resumed : Nat]

Bounded(p) == p.from <= p.until /\ p.until <= p.from + MaxPauseDays

RetentionInv ==
  /\ part = "retention" => now \in Nat
  /\ pauses \in Seq(PauseRecord)
  /\ \A i \in DOMAIN pauses : Bounded(pauses[i])
  /\ assessed # Unassessed =>
       /\ assessed.signals \in Signals
       /\ assessed.score = Score(assessed.signals)
       /\ assessed.risk = Risk(assessed.score)

LEMMA ScoreGrows ==
  ASSUME NEW s \in Signal, NEW t \in Signal, AsBad(s, t)
  PROVE  Score(s) \in Nat /\ Score(t) \in Nat /\ Score(s) >= Score(t)
<1>1. /\ s.trend \in Int /\ s.idle \in Nat /\ s.tickets \in Nat /\ s.adoption \in Int /\ s.failures \in Nat
      /\ t.trend \in Int /\ t.idle \in Nat /\ t.tickets \in Nat /\ t.adoption \in Int /\ t.failures \in Nat
  BY DEF Signal
<1>2. Weight(s) \in Nat /\ Weight(t) \in Nat /\ Weight(s) >= Weight(t)
  BY <1>1 DEF Weight, AsBad
<1> QED BY <1>2 DEF Score

LEMMA RiskGrows ==
  ASSUME NEW low \in Nat, NEW high \in Nat, high >= low
  PROVE  Risk(high) >= Risk(low)
<1> DEFINE Reached(n) == {threshold \in {30, 50, 70} : n >= threshold}
<1>1. IsFiniteSet(30 .. 70)
  <2>1. 30 \in Int /\ 70 \in Int
    OBVIOUS
  <2> QED BY <2>1, FS_Interval, Zenon
<1>2. Reached(low) \subseteq Reached(high) /\ Reached(high) \subseteq 30 .. 70
  OBVIOUS
<1>3. IsFiniteSet(Reached(high))
  BY <1>1, <1>2, FS_Subset
<1> QED BY <1>2, <1>3, FS_Subset, FS_CardinalityType DEF Risk

LEMMA RetentionFollows == RetentionInv => RetentionSound
<1> SUFFICES ASSUME RetentionInv PROVE RetentionSound
  OBVIOUS
<1>1. ASSUME assessed # Unassessed, NEW s \in Signals, AsBad(s, assessed.signals)
      PROVE  Score(s) >= assessed.score /\ Risk(Score(s)) >= assessed.risk
  <2>1. s \in Signal /\ assessed.signals \in Signal
    BY <1>1, RetentionAssumption DEF RetentionInv
  <2> QED BY <1>1, <2>1, ScoreGrows, RiskGrows DEF RetentionInv
<1> QED BY <1>1 DEF RetentionInv, RetentionSound, Bounded

LEMMA RetentionPreserved ==
  RetentionInv /\ part = "retention" /\ UNCHANGED part /\ RetentionNext => RetentionInv'
<1> SUFFICES ASSUME RetentionInv, part = "retention", UNCHANGED part, RetentionNext
             PROVE  RetentionInv'
  OBVIOUS
<1>1. MaxPauseDays \in Nat /\ now \in Nat
  BY RetentionAssumption DEF RetentionInv
<1>2. CASE Tick /\ UNCHANGED retentionVars
  BY <1>1, <1>2 DEF RetentionInv, Tick, retentionVars
<1>3. ASSUME NEW s \in Signals, Assess(s) PROVE RetentionInv'
  BY <1>1, <1>3 DEF RetentionInv, Assess
<1>4. ASSUME NEW d \in 0 .. MaxPauseDays + 1, Pause(d) PROVE RetentionInv'
  <2> DEFINE p == [status |-> "active", from |-> now, until |-> now + PausedFor(d), resumed |-> now]
  <2>1. PausedFor(d) \in Nat /\ PausedFor(d) <= MaxPauseDays
    BY <1>1 DEF PausedFor
  <2>2. p \in PauseRecord /\ Bounded(p)
    BY <1>1, <2>1 DEF PauseRecord, Bounded
  <2>3. pauses' = Append(pauses, p) /\ UNCHANGED <<now, assessed>>
    BY <1>4 DEF Pause
  <2> HIDE DEF p
  <2> QED BY <2>2, <2>3 DEF RetentionInv
<1>5. ASSUME NEW i \in DOMAIN pauses, Resume(i) PROVE RetentionInv'
  <2> DEFINE p == [pauses[i] EXCEPT !.status = "resumed", !.resumed = now]
  <2>1. pauses[i] \in PauseRecord /\ Bounded(pauses[i])
    BY DEF RetentionInv
  <2>2. p \in PauseRecord /\ Bounded(p)
    BY <1>1, <2>1 DEF PauseRecord, Bounded
  <2>3. pauses' = [pauses EXCEPT ![i] = p] /\ UNCHANGED <<now, assessed>>
    BY <1>5 DEF Resume, RetentionInv
  <2> HIDE DEF p
  <2> QED BY <2>2, <2>3 DEF RetentionInv
<1>6. ASSUME UNCHANGED <<now, pauses, assessed>> PROVE RetentionInv'
  BY <1>6 DEF RetentionInv
<1> QED BY <1>2, <1>3, <1>4, <1>5, <1>6
        DEF RetentionNext, CreateGrace, ConvertGrace, CreateCampaign, ConvertCampaign

-----------------------------------------------------------------------------
(* What the three engines above promise, whatever the sizes of windows,    *)
(* limits and records: redemptions, granted requests and pauses stay       *)
(* within their limits, and worse signals never lower a risk.              *)
LimitInv == PromotionInv /\ RateInv /\ RetentionInv

LEMMA LimitInitially == Init => LimitInv
<1> SUFFICES ASSUME Init PROVE LimitInv
  OBVIOUS
<1>1. PromotionInv
  BY PromotionAssumption DEF Init, PromotionInit, PromotionInv, RedemptionsBounded
<1>2. RateInv
  BY DEF Init, RateInit, RateInv, Buckets, InRate, NoBucket
<1>3. RetentionInv
  BY DEF Init, RetentionInit, RetentionInv
<1> QED BY <1>1, <1>2, <1>3 DEF LimitInv

LEMMA LimitPreserved == LimitInv /\ [Next]_vars => LimitInv'
<1> SUFFICES ASSUME LimitInv, [Next]_vars PROVE LimitInv'
  OBVIOUS
<1>1. part' = part
  BY DEF Next, vars
<1>2. PromotionInv'
  <2>1. CASE part = "promotions" /\ Next
    BY <2>1, PromotionPreserved DEF LimitInv, Next
  <2>2. CASE UNCHANGED promotionVars
    BY <2>2 DEF LimitInv, PromotionInv, RedemptionsBounded, promotionVars
  <2>3. part # "promotions" \/ ~Next => UNCHANGED promotionVars
    BY DEF Next, Still, vars
  <2> QED BY <2>1, <2>2, <2>3
<1>3. RateInv'
  <2>1. CASE part = "rates" /\ Next
    BY <1>1, <2>1, RatePreserved DEF LimitInv, Next
  <2>2. CASE part # "rates" /\ UNCHANGED rateVars
    BY <1>1, <2>2 DEF LimitInv, RateInv, rateVars
  <2>3. CASE UNCHANGED vars
    BY <2>3 DEF vars, rateVars, LimitInv, RateInv
  <2>4. part # "rates" /\ Next => UNCHANGED rateVars
    BY DEF Next, Still
  <2> QED BY <2>1, <2>2, <2>3, <2>4
<1>4. RetentionInv'
  <2>1. CASE part = "retention" /\ Next
    BY <1>1, <2>1, RetentionPreserved DEF LimitInv, Next
  <2>2. CASE part # "retention" /\ UNCHANGED retentionVars
    BY <1>1, <2>2 DEF LimitInv, RetentionInv, retentionVars
  <2>3. CASE UNCHANGED vars
    BY <2>3 DEF vars, retentionVars, LimitInv, RetentionInv
  <2>4. part # "retention" /\ Next => UNCHANGED retentionVars
    BY DEF Next, Still
  <2> QED BY <2>1, <2>2, <2>3, <2>4
<1> QED BY <1>2, <1>3, <1>4 DEF LimitInv

(* Limits hold in every run of the engines (pricing/promotions.py,         *)
(* pricing/rate_limits.py, churn/prevention.py).                           *)
THEOREM LimitsAlwaysHold == Spec => []LimitsHold
<1>1. LimitInv => LimitsHold
  BY RetentionFollows
     DEF LimitInv, LimitsHold, PromotionInv, RateInv, InRate, GrantsWithinRate
<1> QED BY <1>1, LimitInitially, LimitPreserved, PTL DEF Spec

-----------------------------------------------------------------------------
(* Commitments: the value recorded only grows, so what a true-up asks only *)
(* falls; and no early invoice follows a breach.                           *)
CommitmentInv ==
  /\ actual \in Nat
  /\ IF part = "commitments" THEN now \in Nat ELSE contract = "active"
  /\ contract = "active" => trueUps = {}
  /\ \A early \in invoiced : early \in Nat /\ TrueUpAmount <= early
  /\ CommitmentsSettle

LEMMA ShortfallFalls ==
  ASSUME NEW a \in Nat, NEW b \in Nat, a <= b, NEW least \in Nat, NEW rate \in Nat
  PROVE  LET short(v) == (IF v >= least THEN 0 ELSE least - v) * rate
         IN short(a) \in Nat /\ short(b) \in Nat /\ short(b) <= short(a)
<1> DEFINE lack(v) == IF v >= least THEN 0 ELSE least - v
<1>1. lack(a) \in Nat /\ lack(b) \in Nat /\ lack(b) <= lack(a)
  OBVIOUS
<1>2. \A m, n \in Nat : n <= m => m * rate \in Nat /\ n * rate \in Nat /\ n * rate <= m * rate
  OBVIOUS
<1>3. lack(a) * rate \in Nat /\ lack(b) * rate \in Nat /\ lack(b) * rate <= lack(a) * rate
  <2> HIDE DEF lack
  <2> QED BY <1>1, <1>2
<1> QED BY <1>3

LEMMA TrueUpFalls ==
  ASSUME actual \in Nat, actual' \in Nat, actual <= actual'
  PROVE  TrueUpAmount \in Nat /\ TrueUpAmount' \in Nat /\ TrueUpAmount' <= TrueUpAmount
BY CommitmentAssumption, ShortfallFalls DEF TrueUpAmount, Fulfilled

LEMMA CommitmentPreserved ==
  CommitmentInv /\ part = "commitments" /\ UNCHANGED part /\ CommitmentNext => CommitmentInv'
<1> SUFFICES ASSUME CommitmentInv, part = "commitments", UNCHANGED part, CommitmentNext
             PROVE  CommitmentInv'
  OBVIOUS
<1> USE DEF CommitmentInv, CommitmentsSettle
<1>1. /\ Minimum \in Nat /\ PeriodEnd \in Nat /\ TrueUpAmount \in Nat
  BY CommitmentAssumption DEF TrueUpAmount, Fulfilled
<1>2. ASSUME actual' = actual PROVE TrueUpAmount' = TrueUpAmount /\ Fulfilled' = Fulfilled
  BY <1>2 DEF TrueUpAmount, Fulfilled
<1>3. CASE Tick /\ UNCHANGED commitmentVars
  BY <1>1, <1>2, <1>3 DEF Tick, commitmentVars
<1>4. ASSUME NEW v \in Values, RecordValue(v) PROVE CommitmentInv'
  <2>1. v \in Nat /\ actual' = actual + v /\ UNCHANGED <<now, contract, invoiced, trueUps>>
    BY <1>4, CommitmentAssumption DEF RecordValue
  <2>2. actual' \in Nat /\ actual <= actual'
    BY <2>1
  <2>3. TrueUpAmount' \in Nat /\ TrueUpAmount' <= TrueUpAmount
    BY <2>2, TrueUpFalls
  <2>4. Fulfilled => Fulfilled'
    BY <1>1, <2>2 DEF Fulfilled
  <2> QED BY <1>1, <2>1, <2>2, <2>3, <2>4
<1>5. CASE CheckStatus
  BY <1>1, <1>2, <1>5 DEF CheckStatus, Checked
<1>6. CASE GenerateTrueUp
  BY <1>1, <1>2, <1>6 DEF GenerateTrueUp, Checked
<1>7. CASE CancelContract
  BY <1>1, <1>2, <1>7 DEF CancelContract
<1> QED BY <1>3, <1>4, <1>5, <1>6, <1>7 DEF CommitmentNext

-----------------------------------------------------------------------------
(* Overage: the caller counts no more than it asked for, and every check   *)
(* adds the whole of what it found over the limit.                         *)
OverageInv ==
  /\ usage \in Nat /\ billed \in Nat /\ events \in Nat
  /\ asked.limit \in Nat /\ asked.total \in Nat /\ usage <= asked.total
  /\ events = 0 => billed = 0
  /\ billed >= Over(asked.limit, asked.total) * Rate
  /\ events = 1 /\ Over(asked.limit, asked.total) * Rate > 0 =>
       billed = Over(asked.limit, asked.total) * Rate

LEMMA OverageFollows == OverageInv => OverageCovered
<1> SUFFICES ASSUME OverageInv PROVE OverageCovered
  OBVIOUS
<1> DEFINE over == Over(asked.limit, asked.total)
<1>1. ASSUME usage > asked.limit, asked.limit > 0
      PROVE  billed >= (usage - asked.limit) * Rate
  <2>1. over \in Nat /\ usage - asked.limit \in Nat /\ usage - asked.limit <= over
    BY <1>1 DEF OverageInv, Over
  <2>2. (usage - asked.limit) * Rate <= over * Rate
    <3> HIDE DEF over
    <3> DEFINE few == usage - asked.limit
    <3>1. few \in Nat /\ few <= over
      BY <2>1
    <3> HIDE DEF few
    <3>2. few * Rate <= over * Rate
      BY <2>1, <3>1, OverageAssumption
    <3> QED BY <3>2 DEF few
  <2>3. (usage - asked.limit) * Rate \in Nat /\ over * Rate \in Nat
    BY <2>1, OverageAssumption
  <2> QED BY <2>2, <2>3 DEF OverageInv
<1> QED BY <1>1 DEF OverageInv, OverageCovered

LEMMA OveragePreserved == OverageInv /\ OverageNext => OverageInv'
<1> SUFFICES ASSUME OverageInv, OverageNext PROVE OverageInv'
  OBVIOUS
<1>1. ASSUME NEW t \in DOMAIN UsageLimits, NEW a \in Attempts, CheckOverage(t, a)
      PROVE  OverageInv'
  <2> DEFINE limit == UsageLimits[t]
             owed == Over(limit, usage + a) * Rate
  <2>1. limit \in Nat /\ usage + a \in Nat /\ Rate \in Nat /\ a \in Nat
    BY OverageAssumption DEF OverageInv
  <2>2. Over(limit, usage + a) \in Nat /\ owed \in Nat
    BY <2>1 DEF Over
  <2>3. Over(limit, usage + a) = 0 => owed = 0
    BY <2>1
  <2>4. /\ billed' = billed + owed
        /\ events' = events + (IF Over(limit, usage + a) > 0 THEN 1 ELSE 0)
        /\ usage' \in {usage, usage + a}
        /\ asked'.limit = limit /\ asked'.total = usage + a
    BY <1>1 DEF CheckOverage
  <2> HIDE DEF limit, owed
  <2>5. Over(asked'.limit, asked'.total) * Rate = owed
    BY <2>4 DEF owed
  <2> QED BY <2>1, <2>2, <2>3, <2>4, <2>5 DEF OverageInv
<1>2. ASSUME NEW p, SetPolicy(p) PROVE OverageInv'
  BY <1>2 DEF SetPolicy, OverageInv
<1>3. CASE ClearEvents
  BY <1>3, OverageAssumption DEF ClearEvents, OverageInv, Over
<1> QED BY <1>1, <1>2, <1>3 DEF OverageNext

-----------------------------------------------------------------------------
(* Revenue: what is earned and what is still deferred are rounded apart,   *)
(* each by at most half a cent.                                            *)
Balanced(s) ==
  LET off == s.recognized + s.deferred - s.amount IN
    CASE s.status = "refunded" -> s.recognized = 0 /\ s.deferred = 0
      [] s.status = "deferred_partial" -> off \in -1 .. 1
      [] OTHER -> off = 0

SaleRecord == [amount : Nat, method : Methods, start : Int, recognized : Int, deferred : Int,
               status : {"pending", "recognized", "deferred_partial", "refunded"}]

RevenueInv ==
  /\ part = "revenue" => now \in Int
  /\ \A i \in DOMAIN sales :
       sales[i] \in SaleRecord /\ sales[i].amount \in SalePrices /\ Balanced(sales[i])

LEMMA RoundedIsNear ==
  ASSUME NEW n \in Nat, NEW d \in Nat \ {0}, NEW up \in BOOLEAN
  PROVE  /\ Rounded(n, d, up) \in Int
         /\ 2 * d * Rounded(n, d, up) <= 2 * n + d
         /\ 2 * n - d <= 2 * d * Rounded(n, d, up)
<1> DEFINE m == 2 * n + d - (IF up THEN 0 ELSE 1)
           e == 2 * d
           q == m \div e
<1>1. m \in Int /\ e \in Nat \ {0} /\ m <= 2 * n + d /\ 2 * n + d - 1 <= m
  OBVIOUS
<1>2. q \in Int /\ e * q <= m /\ m < e * q + e
  <2> HIDE DEF m, e
  <2> QED BY <1>1
<1>3. Rounded(n, d, up) = q
  BY DEF Rounded
<1> QED BY <1>1, <1>2, <1>3

(* The halves of an amount, rounded, miss it by less than a cent each; and *)
(* a half that is everything or nothing is exact.                          *)
LEMMA HalvesAddUp ==
  ASSUME NEW a \in Nat, NEW whole \in Nat \ {0}, NEW some \in 0 .. whole,
         NEW u \in BOOLEAN, NEW v \in BOOLEAN
  PROVE  LET r == Rounded(a * some, whole, u)
             f == Rounded(a * (whole - some), whole, v)
         IN /\ r \in Int /\ f \in Int
            /\ r + f - a \in -1 .. 1
            /\ some = whole => r + f = a
<1> DEFINE x == a * some
           y == a * (whole - some)
           r == Rounded(x, whole, u)
           f == Rounded(y, whole, v)
           z == a * whole
<1>1. some \in Nat /\ whole - some \in Nat
  OBVIOUS
<1>2. x \in Nat /\ y \in Nat /\ z \in Nat /\ x + y = z
  BY <1>1
<1> HIDE DEF x, y
<1>3. /\ r \in Int /\ 2 * whole * r <= 2 * x + whole /\ 2 * x - whole <= 2 * whole * r
      /\ f \in Int /\ 2 * whole * f <= 2 * y + whole /\ 2 * y - whole <= 2 * whole * f
  BY <1>2, RoundedIsNear
<1> HIDE DEF r, f
<1>4. whole * (r + f - a) <= whole /\ -whole <= whole * (r + f - a)
  BY <1>2, <1>3
<1>5. r + f - a \in -1 .. 1
  BY <1>3, <1>4
<1>6. ASSUME some = whole PROVE r + f = a
  <2>1. x = z /\ y = 0
    BY <1>1, <1>6 DEF x, y
  <2>2. 2 * whole * (r - a) <= whole /\ -whole <= 2 * whole * (r - a)
    BY <1>2, <1>3, <2>1
  <2>3. r = a
    BY <1>3, <2>2
  <2>4. f = 0
    BY <1>3, <2>1
  <2> QED BY <2>3, <2>4
<1> QED BY <1>3, <1>5, <1>6 DEF r, f, x, y

(* A sale whose amounts and status are changed, field by field. *)
LEMMA SaleFields ==
  ASSUME NEW s \in SaleRecord, NEW r, NEW f, NEW st
  PROVE  [s EXCEPT !.recognized = r, !.deferred = f, !.status = st] =
           [amount |-> s.amount, method |-> s.method, start |-> s.start,
            recognized |-> r, deferred |-> f, status |-> st]
<1> DEFINE one == [s EXCEPT !.recognized = r]
           two == [one EXCEPT !.deferred = f]
<1>1. one = [amount |-> s.amount, method |-> s.method, start |-> s.start,
             recognized |-> r, deferred |-> s.deferred, status |-> s.status]
  BY DEF SaleRecord
<1>2. two = [amount |-> s.amount, method |-> s.method, start |-> s.start,
             recognized |-> r, deferred |-> f, status |-> s.status]
  <2> HIDE DEF one
  <2> QED BY <1>1
<1>3. [two EXCEPT !.status = st] =
        [amount |-> s.amount, method |-> s.method, start |-> s.start,
         recognized |-> r, deferred |-> f, status |-> st]
  <2> HIDE DEF one, two
  <2> QED BY <1>2
<1> QED BY <1>3

LEMMA EarnedBalances ==
  ASSUME NEW s \in SaleRecord, NEW whole \in Nat \ {0}, NEW some \in 0 .. whole,
         NEW up \in BOOLEAN \X BOOLEAN
  PROVE  /\ Earned(s, some, whole, up) \in SaleRecord
         /\ Earned(s, some, whole, up).amount = s.amount
         /\ Balanced(Earned(s, some, whole, up))
<1> DEFINE r == Rounded(s.amount * some, whole, up[1])
           f == Rounded(s.amount * (whole - some), whole, up[2])
           stat == IF some = whole THEN "recognized" ELSE "deferred_partial"
<1>1. s.amount \in Nat /\ up[1] \in BOOLEAN /\ up[2] \in BOOLEAN
  BY DEF SaleRecord
<1>2. /\ r \in Int /\ f \in Int /\ r + f - s.amount \in -1 .. 1
      /\ some = whole => r + f = s.amount
  BY <1>1, HalvesAddUp
<1>3. Earned(s, some, whole, up) =
        [amount |-> s.amount, method |-> s.method, start |-> s.start,
         recognized |-> r, deferred |-> f, status |-> stat]
  <2> HIDE DEF r, f, stat
  <2> QED BY SaleFields DEF Earned, r, f, stat
<1>4. stat \in {"recognized", "deferred_partial"}
      /\ (stat = "recognized" => some = whole)
  OBVIOUS
<1> HIDE DEF r, f, stat
<1>5. Earned(s, some, whole, up) \in SaleRecord
  BY <1>2, <1>3, <1>4 DEF SaleRecord
<1> QED BY <1>1, <1>2, <1>3, <1>4, <1>5 DEF Balanced

LEMMA RevenuePreserved ==
  RevenueInv /\ part = "revenue" /\ UNCHANGED part /\ RevenueNext => RevenueInv'
<1> SUFFICES ASSUME RevenueInv, part = "revenue", UNCHANGED part, RevenueNext PROVE RevenueInv'
  OBVIOUS
<1> DEFINE Good(s) == s \in SaleRecord /\ s.amount \in SalePrices /\ Balanced(s)
<1>1. now \in Int /\ Period \in Nat \ {0} /\ SalePrices \subseteq Nat
      /\ \A i \in DOMAIN sales : Good(sales[i])
  BY RevenueAssumption DEF RevenueInv
<1>2. ASSUME now' \in Int, \A i \in DOMAIN sales' : Good(sales'[i]) PROVE RevenueInv'
  BY <1>2 DEF RevenueInv
<1>3. ASSUME NEW s, Good(s), NEW some \in 0 .. Period, NEW up \in BOOLEAN \X BOOLEAN
      PROVE  Good(Earned(s, some, Period, up))
  BY <1>1, <1>3, EarnedBalances
<1> HIDE DEF Good
<1>4. CASE Tick /\ UNCHANGED revenueVars
  BY <1>1, <1>2, <1>4 DEF Tick, revenueVars
<1>5. ASSUME NEW p \in SalePrices, NEW m \in Methods, RecordSale(p, m) PROVE RevenueInv'
  <2>1. Good(Sold(p, m))
    BY <1>1 DEF Good, Sold, SaleRecord, Balanced
  <2> DEFINE q == [i \in DOMAIN sales \cup {sold'} |-> IF i = sold' THEN Sold(p, m) ELSE sales[i]]
  <2>2. \A i \in DOMAIN q : Good(q[i])
    BY <1>1, <2>1
  <2>3. sales' = Enforced(q) /\ now' = now
    BY <1>5 DEF RecordSale
  <2> HIDE DEF q
  <2>4. DOMAIN Enforced(q) \subseteq DOMAIN q
        /\ \A i \in DOMAIN Enforced(q) : Enforced(q)[i] = q[i]
    BY DEF Enforced
  <2> QED BY <1>1, <1>2, <2>2, <2>3, <2>4
<1>6. ASSUME NEW asOf \in Time, RecognizeDeferred(asOf) PROVE RevenueInv'
  <2> DEFINE elapsed(i) == IF asOf - sales[i].start < Period THEN asOf - sales[i].start ELSE Period
  <2>1. PICK up \in [SalePrices -> BOOLEAN \X BOOLEAN] :
          sales' = [i \in DOMAIN sales |->
                      IF Unsettled(sales[i], "deferred") /\ elapsed(i) >= 0
                      THEN Earned(sales[i], elapsed(i), Period, up[sales[i].amount]) ELSE sales[i]]
    BY <1>6 DEF RecognizeDeferred
  <2>2. now' = now
    BY <1>6 DEF RecognizeDeferred
  <2>3. ASSUME NEW i \in DOMAIN sales PROVE Good(sales'[i])
    <3>1. Good(sales[i]) /\ sales[i].start \in Int /\ up[sales[i].amount] \in BOOLEAN \X BOOLEAN
      BY <1>1, <2>1 DEF Good, SaleRecord
    <3>2. CASE Unsettled(sales[i], "deferred") /\ elapsed(i) >= 0
      <4>1. elapsed(i) \in 0 .. Period
        <5> DEFINE e == asOf - sales[i].start
        <5>1. e \in Int /\ Period \in Nat
          BY <1>1, <1>4, <3>1, MaxTimeAssumption DEF Time
        <5>2. elapsed(i) = IF e < Period THEN e ELSE Period
          OBVIOUS
        <5>3. elapsed(i) >= 0
          BY <3>2
        <5> HIDE DEF e, elapsed
        <5> QED BY <5>1, <5>2, <5>3
      <4>2. sales'[i] = Earned(sales[i], elapsed(i), Period, up[sales[i].amount])
        BY <2>1, <3>2
      <4> HIDE DEF elapsed
      <4> QED BY <1>3, <3>1, <4>1, <4>2
    <3>3. CASE ~(Unsettled(sales[i], "deferred") /\ elapsed(i) >= 0)
      BY <2>1, <3>1, <3>3
    <3> QED BY <3>2, <3>3
  <2>4. DOMAIN sales' = DOMAIN sales
    BY <2>1
  <2> QED BY <1>1, <1>2, <2>2, <2>3, <2>4
<1>7. ASSUME NEW fraction \in 0 .. Period, RecognizeUsage(fraction) PROVE RevenueInv'
  <2>1. PICK up \in [SalePrices -> BOOLEAN \X BOOLEAN] :
          sales' = [i \in DOMAIN sales |->
                      IF Unsettled(sales[i], "usage_based")
                      THEN Earned(sales[i], fraction, Period, up[sales[i].amount]) ELSE sales[i]]
    BY <1>7 DEF RecognizeUsage
  <2>2. ASSUME NEW i \in DOMAIN sales PROVE Good(sales'[i])
    <3>1. Good(sales[i]) /\ up[sales[i].amount] \in BOOLEAN \X BOOLEAN
      BY <1>1, <2>1 DEF Good
    <3> QED BY <1>3, <2>1, <3>1
  <2>3. DOMAIN sales' = DOMAIN sales /\ now' = now
    BY <1>7, <2>1 DEF RecognizeUsage
  <2> QED BY <1>1, <1>2, <2>2, <2>3
<1>8. ASSUME NEW i \in DOMAIN sales, RefundSale(i) PROVE RevenueInv'
  <2> DEFINE s == sales[i]
             z == [amount |-> s.amount, method |-> s.method, start |-> s.start,
                   recognized |-> 0, deferred |-> 0, status |-> "refunded"]
  <2>1. Good(z)
    BY <1>1 DEF Good, SaleRecord, Balanced
  <2>2. [s EXCEPT !.recognized = 0, !.deferred = 0, !.status = "refunded"] = z
    BY <1>1, SaleFields DEF Good, SaleRecord
  <2>3. /\ DOMAIN sales' = DOMAIN sales /\ now' = now
        /\ \A j \in DOMAIN sales : sales'[j] = IF j = i THEN z ELSE sales[j]
    BY <1>8, <2>2 DEF RefundSale
  <2> HIDE DEF z
  <2> QED BY <1>1, <1>2, <2>1, <2>3
<1> QED BY <1>4, <1>5, <1>6, <1>7, <1>8 DEF RevenueNext

-----------------------------------------------------------------------------
(* The ledgers together. *)
LedgerInv == CommitmentInv /\ OverageInv /\ RevenueInv

LEMMA LedgerInitially == Init => LedgerInv
<1> SUFFICES ASSUME Init PROVE LedgerInv
  OBVIOUS
<1>1. CommitmentInv
  BY DEF Init, CommitmentInit, CommitmentInv, CommitmentsSettle
<1>2. OverageInv
  BY OverageAssumption DEF Init, OverageInit, OverageInv, Over
<1>3. RevenueInv
  BY DEF Init, RevenueInit, RevenueInv
<1> QED BY <1>1, <1>2, <1>3 DEF LedgerInv

LEMMA LedgerPreserved == LedgerInv /\ [Next]_vars => LedgerInv'
<1> SUFFICES ASSUME LedgerInv, [Next]_vars PROVE LedgerInv'
  OBVIOUS
<1>1. part' = part
  BY DEF Next, vars
<1>2. CommitmentInv'
  <2>1. CASE part = "commitments" /\ Next
    BY <1>1, <2>1, CommitmentPreserved DEF LedgerInv, Next
  <2>2. CASE part # "commitments" /\ UNCHANGED commitmentVars
    BY <1>1, <2>2 DEF LedgerInv, CommitmentInv, CommitmentsSettle, commitmentVars,
                      TrueUpAmount, Fulfilled
  <2>3. CASE UNCHANGED vars
    BY <2>3 DEF vars, commitmentVars, LedgerInv, CommitmentInv, CommitmentsSettle,
                TrueUpAmount, Fulfilled
  <2>4. part # "commitments" /\ Next => UNCHANGED commitmentVars
    BY DEF Next, Still
  <2> QED BY <2>1, <2>2, <2>3, <2>4
<1>3. OverageInv'
  <2>1. CASE part = "overage" /\ Next
    BY <2>1, OveragePreserved DEF LedgerInv, Next
  <2>2. CASE UNCHANGED overageVars
    BY <2>2 DEF LedgerInv, OverageInv, Over, overageVars
  <2>3. part # "overage" \/ ~Next => UNCHANGED overageVars
    BY DEF Next, Still, vars
  <2> QED BY <2>1, <2>2, <2>3
<1>4. RevenueInv'
  <2>1. CASE part = "revenue" /\ Next
    BY <1>1, <2>1, RevenuePreserved DEF LedgerInv, Next
  <2>2. CASE part # "revenue" /\ UNCHANGED revenueVars
    BY <1>1, <2>2 DEF LedgerInv, RevenueInv, revenueVars
  <2>3. CASE UNCHANGED vars
    BY <2>3 DEF vars, revenueVars, LedgerInv, RevenueInv
  <2>4. part # "revenue" /\ Next => UNCHANGED revenueVars
    BY DEF Next, Still
  <2> QED BY <2>1, <2>2, <2>3, <2>4
<1> QED BY <1>2, <1>3, <1>4 DEF LedgerInv

(* What the engines charge and recognise is what their records add up to,  *)
(* whatever the amounts, rates and periods (pricing/commitments.py,        *)
(* pricing/overage.py, compliance/revenue_recognition.py).                 *)
THEOREM LedgersAlwaysAddUp == Spec => []LedgersAddUp
<1>1. LedgerInv => LedgersAddUp
  BY OverageFollows
     DEF LedgerInv, LedgersAddUp, CommitmentInv, RevenueInv, RevenueBalances, Balanced
<1> QED BY <1>1, LedgerInitially, LedgerPreserved, PTL DEF Spec

-----------------------------------------------------------------------------
(* Trials: every operation that moves the end takes one extension of the   *)
(* allowance, so the end is bounded by the extensions taken so far.        *)
Longest == IF MaxExtensionDays > ReferralDays THEN MaxExtensionDays ELSE ReferralDays

Trial == [status : Open \cup {"converted", "abandoned"}, ends : Nat, extended : Nat,
          uses : Nat, usage : Nat, features : Nat]

Explained(t, r) ==
  /\ t \in Trial /\ r \in Nat
  /\ t.ends = TrialDays + t.extended + ReferralDays * r
  /\ r <= t.uses /\ t.uses <= MaxExtensions
  /\ t.ends <= TrialDays + t.uses * Longest

TrialInv ==
  /\ Explained(trial, rewards)
  /\ offers \subseteq Nat
  /\ \A end \in offers : end <= trial.ends

LEMMA LongestIsLongest ==
  /\ TrialDays \in Nat /\ MaxExtensions \in Nat /\ EngagedUsage \in Nat /\ EngagedFeatures \in Nat
  /\ MaxExtensionDays \in Nat /\ ReferralDays \in Nat
  /\ Longest \in Nat /\ MaxExtensionDays <= Longest /\ ReferralDays <= Longest
BY TrialAssumption DEF Longest

(* One more use moves the bound by the longest step there is. *)
LEMMA OneMore ==
  ASSUME NEW n \in Nat, NEW d \in Nat
  PROVE  n * d \in Nat /\ (n + 1) * d = n * d + d /\ d * (n + 1) = d * n + d
OBVIOUS

(* An extension, field by field. *)
LEMMA ExtendedFields ==
  ASSUME NEW t \in Trial, NEW d
  PROVE  Extended(t, d) = [status |-> "extended", ends |-> t.ends + d, extended |-> t.extended + d,
                           uses |-> t.uses + 1, usage |-> t.usage, features |-> t.features]
<1> DEFINE e == t.ends + d
           x == t.extended + d
           u == t.uses + 1
           t1 == [t EXCEPT !.status = "extended"]
           t2 == [t1 EXCEPT !.ends = e]
           t3 == [t2 EXCEPT !.extended = x]
           t4 == [t3 EXCEPT !.uses = u]
<1>1. Extended(t, d) = t4
  BY DEF Extended
<1> HIDE DEF e, x, u
<1>2. t1 = [status |-> "extended", ends |-> t.ends, extended |-> t.extended,
          uses |-> t.uses, usage |-> t.usage, features |-> t.features]
  BY DEF Trial
<1>3. t2 = [status |-> "extended", ends |-> e, extended |-> t.extended,
          uses |-> t.uses, usage |-> t.usage, features |-> t.features]
  <2> HIDE DEF t1
  <2> QED BY <1>2
<1>4. t3 = [status |-> "extended", ends |-> e, extended |-> x,
          uses |-> t.uses, usage |-> t.usage, features |-> t.features]
  <2> HIDE DEF t1, t2
  <2> QED BY <1>3
<1>5. t4 = [status |-> "extended", ends |-> e, extended |-> x,
          uses |-> u, usage |-> t.usage, features |-> t.features]
  <2> HIDE DEF t1, t2, t3
  <2> QED BY <1>4
<1> HIDE DEF t4
<1> QED BY <1>1, <1>5 DEF e, x, u

LEMMA ExtensionExplained ==
  ASSUME NEW t, NEW r, Explained(t, r), t.uses < MaxExtensions, NEW d \in 0 .. MaxExtensionDays
  PROVE  Explained(Extended(t, d), r) /\ Extended(t, d).ends >= t.ends
<1>1. /\ t \in Trial /\ r \in Nat /\ t.ends \in Nat /\ t.extended \in Nat /\ t.uses \in Nat
      /\ t.usage \in Nat /\ t.features \in Nat
  BY DEF Explained, Trial
<1>2. d \in Nat /\ d <= Longest
  BY LongestIsLongest
<1> DEFINE e == [status |-> "extended", ends |-> t.ends + d, extended |-> t.extended + d,
                 uses |-> t.uses + 1, usage |-> t.usage, features |-> t.features]
<1>3. Extended(t, d) = e
  BY <1>1, ExtendedFields
<1>4. e \in Trial
  BY <1>1, <1>2 DEF Trial, Open
<1>5. /\ e.ends = t.ends + d /\ e.extended = t.extended + d /\ e.uses = t.uses + 1
  OBVIOUS
<1> HIDE DEF e
<1>6. ReferralDays * r \in Nat
  BY <1>1, LongestIsLongest
<1>7. e.ends = TrialDays + e.extended + ReferralDays * r
  <2>1. t.ends = TrialDays + t.extended + ReferralDays * r
    BY DEF Explained
  <2> DEFINE given == ReferralDays * r
  <2> HIDE DEF given
  <2>2. given \in Nat /\ t.ends = TrialDays + t.extended + given
    BY <1>6, <2>1 DEF given
  <2>3. e.ends = TrialDays + e.extended + given
    BY <1>1, <1>2, <1>5, <2>2, LongestIsLongest
  <2> QED BY <2>3 DEF given
<1>8. e.ends <= TrialDays + e.uses * Longest
  <2>1. t.uses * Longest \in Nat /\ (t.uses + 1) * Longest = t.uses * Longest + Longest
    BY <1>1, OneMore, LongestIsLongest
  <2>2. t.ends <= TrialDays + t.uses * Longest
    BY DEF Explained
  <2> QED BY <1>1, <1>2, <1>5, <2>1, <2>2, LongestIsLongest
<1>9. r <= e.uses /\ e.uses <= MaxExtensions /\ e.ends >= t.ends
  BY <1>1, <1>2, <1>5, LongestIsLongest DEF Explained
<1> QED BY <1>1, <1>3, <1>4, <1>7, <1>8, <1>9 DEF Explained

LEMMA RewardExplained ==
  ASSUME NEW t, NEW r, Explained(t, r), t.uses < MaxExtensions
  PROVE  LET e == [t EXCEPT !.ends = @ + ReferralDays, !.uses = @ + 1]
         IN  Explained(e, r + 1) /\ e.ends >= t.ends
<1>1. /\ t \in Trial /\ r \in Nat /\ t.ends \in Nat /\ t.extended \in Nat /\ t.uses \in Nat
  BY DEF Explained, Trial
<1> DEFINE e == [t EXCEPT !.ends = @ + ReferralDays, !.uses = @ + 1]
<1>2. /\ e \in Trial /\ e.ends = t.ends + ReferralDays /\ e.extended = t.extended
      /\ e.uses = t.uses + 1
  <2> DEFINE ends == t.ends + ReferralDays
             uses == t.uses + 1
             q == [status |-> t.status, ends |-> ends, extended |-> t.extended,
                   uses |-> uses, usage |-> t.usage, features |-> t.features]
  <2>1. e = q
    <3> DEFINE e1 == [t EXCEPT !.ends = ends]
               e2 == [e1 EXCEPT !.uses = uses]
    <3>1. e = e2
      OBVIOUS
    <3> HIDE DEF e, ends, uses
    <3>2. e1 = [status |-> t.status, ends |-> ends, extended |-> t.extended,
                uses |-> t.uses, usage |-> t.usage, features |-> t.features]
      BY <1>1 DEF Trial
    <3>3. e2 = q
      <4> HIDE DEF e1
      <4> QED BY <3>2
    <3> QED BY <3>1, <3>3
  <2>2. ends \in Nat /\ uses \in Nat
    BY <1>1, LongestIsLongest
  <2> HIDE DEF ends, uses
  <2>3. q \in Trial
    BY <1>1, <2>2 DEF Trial
  <2>4. q.ends = ends /\ q.extended = t.extended /\ q.uses = uses
    OBVIOUS
  <2> HIDE DEF e, q
  <2> QED BY <2>1, <2>3, <2>4 DEF ends, uses
<1> HIDE DEF e
<1>3. ReferralDays * r \in Nat /\ ReferralDays * (r + 1) = ReferralDays * r + ReferralDays
  BY <1>1, OneMore, LongestIsLongest
<1>4. e.ends = TrialDays + e.extended + ReferralDays * (r + 1)
  <2>1. t.ends = TrialDays + t.extended + ReferralDays * r
    BY DEF Explained
  <2> DEFINE given == ReferralDays * r
  <2>2. ReferralDays * (r + 1) = given + ReferralDays
    BY <1>3
  <2> HIDE DEF given
  <2>3. given \in Nat /\ t.ends = TrialDays + t.extended + given
    BY <1>3, <2>1 DEF given
  <2>4. e.ends = TrialDays + e.extended + (given + ReferralDays)
    BY <1>1, <1>2, <2>3, LongestIsLongest
  <2> QED BY <2>2, <2>4
<1>5. e.ends <= TrialDays + e.uses * Longest
  <2>1. t.uses * Longest \in Nat /\ (t.uses + 1) * Longest = t.uses * Longest + Longest
    BY <1>1, OneMore, LongestIsLongest
  <2>2. t.ends <= TrialDays + t.uses * Longest
    BY DEF Explained
  <2> QED BY <1>1, <1>2, <2>1, <2>2, LongestIsLongest
<1>6. r + 1 <= e.uses /\ e.uses <= MaxExtensions /\ e.ends >= t.ends /\ r + 1 \in Nat
  BY <1>1, <1>2, LongestIsLongest DEF Explained
<1> QED BY <1>2, <1>4, <1>5, <1>6 DEF Explained, e

LEMMA TrialPreserved == TrialInv /\ TrialNext => TrialInv'
<1> SUFFICES ASSUME TrialInv, TrialNext PROVE TrialInv'
  OBVIOUS
<1>0. /\ trial \in Trial /\ trial.ends \in Nat /\ offers \subseteq Nat
      /\ Explained(trial, rewards)
  BY DEF TrialInv, Explained, Trial
<1>1. CASE UNCHANGED trialVars
  BY <1>1 DEF TrialInv, Explained, trialVars
<1>2. ASSUME NEW t, Explained(t, rewards), t.ends >= trial.ends, trial' = t,
             UNCHANGED <<offers, rewards>>
      PROVE  TrialInv'
  <2>1. t.ends \in Nat
    BY <1>2 DEF Explained, Trial
  <2>2. Explained(trial, rewards)'
    BY <1>2 DEF Explained
  <2>3. \A end \in offers : end <= t.ends
    BY <1>0, <1>2, <2>1 DEF TrialInv
  <2> QED BY <1>0, <1>2, <2>2, <2>3 DEF TrialInv
<1>3. CASE RecordTrialUsage
  <2>1. PICK n \in {1, EngagedUsage} :
          trial' = [trial EXCEPT !.usage = IF @ + n < EngagedUsage THEN @ + n ELSE EngagedUsage]
    BY <1>3 DEF RecordTrialUsage
  <2> DEFINE u == IF trial.usage + n < EngagedUsage THEN trial.usage + n ELSE EngagedUsage
  <2>2. u \in Nat
    BY <1>0, LongestIsLongest DEF Trial
  <2>3. trial' = [trial EXCEPT !.usage = u]
    BY <2>1
  <2> HIDE DEF u
  <2>4. Explained([trial EXCEPT !.usage = u], rewards) /\ [trial EXCEPT !.usage = u].ends = trial.ends
    BY <1>0, <2>2 DEF Explained, Trial
  <2>5. UNCHANGED <<offers, rewards>>
    BY <1>3 DEF RecordTrialUsage
  <2>6. PICK t : t = [trial EXCEPT !.usage = u]
    OBVIOUS
  <2>7. t.ends >= trial.ends
    BY <1>0, <2>4, <2>6
  <2> QED BY <1>2, <2>3, <2>4, <2>5, <2>6, <2>7
<1>10. CASE RecordFeatureExplored
  <2> DEFINE u == IF trial.features < EngagedFeatures THEN trial.features + 1 ELSE trial.features
  <2>1. u \in Nat
    BY <1>0 DEF Trial
  <2>2. trial' = [trial EXCEPT !.features = u]
    BY <1>10 DEF RecordFeatureExplored
  <2> HIDE DEF u
  <2>3. Explained([trial EXCEPT !.features = u], rewards) /\ [trial EXCEPT !.features = u].ends = trial.ends
    BY <1>0, <2>1 DEF Explained, Trial
  <2>4. UNCHANGED <<offers, rewards>>
    BY <1>10 DEF RecordFeatureExplored
  <2>5. PICK t : t = [trial EXCEPT !.features = u]
    OBVIOUS
  <2>6. t.ends >= trial.ends
    BY <1>0, <2>3, <2>5
  <2> QED BY <1>2, <2>2, <2>3, <2>4, <2>5, <2>6
<1>4. CASE ExtendTrial \/ AutoExtend
  <2>1. PICK d \in 0 .. MaxExtensionDays : trial' = Extended(trial, d)
    BY <1>4, LongestIsLongest DEF ExtendTrial, AutoExtend
  <2>2. trial.uses < MaxExtensions /\ UNCHANGED <<offers, rewards>>
    BY <1>4 DEF ExtendTrial, AutoExtend
  <2>3. Explained(Extended(trial, d), rewards) /\ Extended(trial, d).ends >= trial.ends
    BY <1>0, <2>2, ExtensionExplained
  <2> QED BY <1>2, <2>1, <2>2, <2>3
<1>5. CASE CreateIncentive
  <2>1. UNCHANGED <<trial, rewards>> /\ offers' = offers \cup {trial.ends}
    BY <1>5 DEF CreateIncentive
  <2>2. Explained(trial, rewards)'
    BY <1>0, <2>1 DEF Explained
  <2>3. offers' \subseteq Nat /\ \A end \in offers' : end <= trial'.ends
    <3>1. trial.ends <= trial.ends /\ \A end \in offers : end <= trial.ends
      BY <1>0 DEF TrialInv
    <3> QED BY <1>0, <2>1, <3>1
  <2> QED BY <2>2, <2>3 DEF TrialInv
<1>6. ASSUME NEW st \in {"converted", "abandoned"}, trial' = [trial EXCEPT !.status = st],
             UNCHANGED <<offers, rewards>>
      PROVE  TrialInv'
  <2>1. /\ Explained([trial EXCEPT !.status = st], rewards)
        /\ [trial EXCEPT !.status = st].ends = trial.ends
    BY <1>0 DEF Explained, Trial, Open
  <2>2. PICK t : t = [trial EXCEPT !.status = st]
    OBVIOUS
  <2>3. t.ends >= trial.ends
    BY <1>0, <2>1, <2>2
  <2> QED BY <1>2, <1>6, <2>1, <2>2, <2>3
<1>7. CASE ConvertTrial \/ DetectAbandoned
  BY <1>6, <1>7 DEF ConvertTrial, DetectAbandoned
<1>8. CASE CreateReferral
  BY <1>8 DEF CreateReferral, TrialInv, Explained
<1>9. CASE CompleteReferral
  <2>1. CASE trial.uses < MaxExtensions
    <3> DEFINE e == [trial EXCEPT !.ends = @ + ReferralDays, !.uses = @ + 1]
    <3>1. Explained(e, rewards + 1) /\ e.ends >= trial.ends
      BY <1>0, <2>1, RewardExplained
    <3>2. trial' = e /\ rewards' = rewards + 1 /\ offers' = offers
      BY <1>9, <2>1 DEF CompleteReferral
    <3> HIDE DEF e
    <3>3. e.ends \in Nat
      BY <3>1 DEF Explained, Trial
    <3>4. \A end \in offers : end <= e.ends
      BY <1>0, <3>1, <3>3 DEF TrialInv
    <3>5. Explained(trial, rewards)'
      BY <3>1, <3>2 DEF Explained
    <3> QED BY <1>0, <3>2, <3>4, <3>5 DEF TrialInv
  <2>2. CASE ~(trial.uses < MaxExtensions)
    BY <1>9, <2>2 DEF CompleteReferral, TrialInv, Explained
  <2> QED BY <2>1, <2>2
<1> QED BY <1>1, <1>3, <1>4, <1>5, <1>7, <1>8, <1>9, <1>10 DEF TrialNext

LEMMA TrialInvariant == Spec => []TrialInv
<1>1. Init => TrialInv
  <2> SUFFICES ASSUME Init PROVE TrialInv
    OBVIOUS
  <2>1. /\ trial = [status |-> "active", ends |-> TrialDays, extended |-> 0, uses |-> 0,
                    usage |-> 0, features |-> 0]
        /\ offers = {} /\ rewards = 0
    BY DEF Init, TrialInit
  <2>2. trial \in Trial /\ trial.ends = TrialDays /\ trial.extended = 0 /\ trial.uses = 0
    BY <2>1, LongestIsLongest DEF Trial, Open
  <2>3. ReferralDays * 0 = 0 /\ 0 * Longest = 0
    BY LongestIsLongest
  <2> QED BY <2>1, <2>2, <2>3, LongestIsLongest DEF TrialInv, Explained
<1>2. TrialInv /\ [Next]_vars => TrialInv'
  <2> SUFFICES ASSUME TrialInv, [Next]_vars PROVE TrialInv'
    OBVIOUS
  <2>1. CASE part = "trials" /\ Next
    BY <2>1, TrialPreserved DEF Next
  <2>2. CASE UNCHANGED trialVars
    BY <2>2 DEF TrialInv, Explained, trialVars
  <2>3. part # "trials" \/ ~Next => UNCHANGED trialVars
    BY DEF Next, Still, vars
  <2> QED BY <2>1, <2>2, <2>3
<1> QED BY <1>1, <1>2, PTL DEF Spec

(* The end of a trial is its first days, the days of its extensions and    *)
(* those of its rewards, no order of which exceeds max_extensions full     *)
(* extensions; and no incentive outlasts the trial (trials/engine.py).     *)
THEOREM TrialsAreExplained == Spec => []TrialEndExplained
<1>1. TrialInv => TrialEndExplained
  <2> SUFFICES ASSUME TrialInv PROVE TrialEndExplained
    OBVIOUS
  <2>1. trial.uses \in Nat /\ trial.ends \in Nat /\ trial.uses <= MaxExtensions
    BY DEF TrialInv, Explained, Trial
  <2>2. trial.uses * Longest \in Nat /\ MaxExtensions * Longest \in Nat
        /\ trial.uses * Longest <= MaxExtensions * Longest
    BY <2>1, LongestIsLongest
  <2>3. trial.ends <= TrialDays + MaxExtensions * Longest
    BY <2>1, <2>2, LongestIsLongest DEF TrialInv, Explained
  <2> QED BY <2>3 DEF TrialInv, Explained, TrialEndExplained, Longest
<1> QED BY <1>1, TrialInvariant, PTL

-----------------------------------------------------------------------------
(* Loyalty: what has been claimed are the milestones up to the longest     *)
(* tenure, so one that is passed again is not rewarded again; and among    *)
(* the thresholds a spend meets there is a highest.                        *)
BonusRecord == [upgrades : Nat, tenure : [Milestones -> Nat]]

TierFits(l, s) ==
  s >= 0 => s >= Thresholds[l] /\ \A k \in Levels : k > l => s < Thresholds[k]

LoyaltyInv ==
  /\ level \in Levels /\ spend \in Int
  /\ tenure \in Nat /\ longest \in Nat /\ tenure <= longest
  /\ claimed = {m \in Milestones : m <= longest}
  /\ bonuses \in BonusRecord
  /\ \A m \in Milestones : bonuses.tenure[m] = IF m <= longest THEN 1 ELSE 0
  /\ TierFits(level, spend)

LEMMA LevelsAreNumbered ==
  /\ Len(Thresholds) \in Nat /\ Levels = 1 .. Len(Thresholds) /\ 1 \in Levels
  /\ \A l \in Levels : Thresholds[l] \in Nat
<1>1. Thresholds \in Seq(Nat) /\ Thresholds # <<>>
  BY LoyaltyAssumption
<1>2. Len(Thresholds) \in Nat /\ Levels = 1 .. Len(Thresholds)
  BY <1>1, LenProperties DEF Levels
<1>3. Len(Thresholds) # 0
  BY <1>1, EmptySeq
<1> QED BY <1>1, <1>2, <1>3, ElementOfSeq

(* A set of numbers with a bound has a greatest. *)
LEMMA Greatest ==
  ASSUME NEW n \in Nat, NEW set \in SUBSET (1 .. n), NEW one \in set
  PROVE  \E l \in set : \A k \in set : k <= l
<1> DEFINE below == {p \in Nat \X Nat : p[1] < p[2]}
           gaps == {n - l : l \in set}
<1>1. IsWellFoundedOn(below, Nat)
  BY NatLessThanWellFounded DEF OpToRel
<1>2. gaps \in SUBSET Nat /\ n - one \in gaps
  OBVIOUS
<1>3. PICK g \in gaps : \A h \in gaps : ~(<<h, g>> \in below)
  <2> HIDE DEF gaps, below
  <2> QED BY <1>1, <1>2, WFMin
<1>4. PICK l \in set : g = n - l
  OBVIOUS
<1>5. ASSUME NEW k \in set PROVE k <= l
  <2>1. n - k \in gaps /\ n - k \in Nat /\ g \in Nat /\ k \in Int /\ l \in Int
    BY <1>4
  <2>2. ~(n - k < g)
    BY <1>3, <2>1
  <2> QED BY <1>4, <2>1, <2>2
<1> QED BY <1>5

(* The tier a spend earns. *)
LEMMA TierIsEarned ==
  ASSUME NEW s \in Int, NEW old \in Levels
  PROVE  LevelAt(s, old) \in Levels /\ TierFits(LevelAt(s, old), s)
<1> DEFINE met == {l \in Levels : s >= Thresholds[l]}
<1>1. CASE met = {}
  <2>1. ~(s >= Thresholds[1]) /\ LevelAt(s, old) = old
    BY <1>1, LevelsAreNumbered DEF LevelAt
  <2>2. ~(s >= 0)
    BY <2>1, LoyaltyAssumption
  <2> QED BY <2>1, <2>2 DEF TierFits
<1>2. CASE met # {}
  <2>1. LevelAt(s, old) = CHOOSE l \in met : \A k \in met : k <= l
    BY <1>2 DEF LevelAt
  <2>2. \E l \in met : \A k \in met : k <= l
    <3>1. met \in SUBSET (1 .. Len(Thresholds)) /\ Len(Thresholds) \in Nat
      BY LevelsAreNumbered
    <3>2. PICK one : one \in met
      BY <1>2
    <3> HIDE DEF met
    <3> QED BY <3>1, <3>2, Greatest
  <2>3. LevelAt(s, old) \in met /\ \A k \in met : k <= LevelAt(s, old)
    BY <2>1, <2>2
  <2>4. PICK top : top = LevelAt(s, old)
    OBVIOUS
  <2>5. ASSUME NEW k \in Levels, k > top PROVE s < Thresholds[k]
    <3>1. k \in Int /\ top \in Int /\ Thresholds[k] \in Int
      BY <2>3, <2>4, LevelsAreNumbered
    <3>2. k \notin met
      BY <2>3, <2>4, <2>5, <3>1
    <3> QED BY <3>1, <3>2
  <2> QED BY <2>3, <2>4, <2>5 DEF TierFits
<1> QED BY <1>1, <1>2

LEMMA LoyaltyPreserved == LoyaltyInv /\ LoyaltyNext => LoyaltyInv'
<1> SUFFICES ASSUME LoyaltyInv, LoyaltyNext PROVE LoyaltyInv'
  OBVIOUS
<1>1. ASSUME NEW a \in Spends, RecordSpend(a) PROVE LoyaltyInv'
  <2>1. spend' \in Int
    BY <1>1, LoyaltyAssumption DEF RecordSpend, LoyaltyInv
  <2>2. level' \in Levels /\ TierFits(level', spend')
    BY <1>1, <2>1, TierIsEarned DEF RecordSpend, LoyaltyInv
  <2>3. bonuses' \in BonusRecord /\ bonuses'.tenure = bonuses.tenure
    <3>1. bonuses' = bonuses \/ bonuses' = [bonuses EXCEPT !.upgrades = @ + 1]
      BY <1>1 DEF RecordSpend
    <3>2. bonuses \in BonusRecord
      BY DEF LoyaltyInv
    <3> QED BY <3>1, <3>2 DEF BonusRecord
  <2>4. UNCHANGED <<tenure, claimed, longest>>
    BY <1>1 DEF RecordSpend
  <2> QED BY <2>1, <2>2, <2>3, <2>4 DEF LoyaltyInv, TierFits
<1>2. ASSUME NEW months \in 0 .. MaxTenure, UpdateTenure(months) PROVE LoyaltyInv'
  <2> DEFINE passed == Passed(tenure, months)
             counts == [m \in Milestones |->
                          IF m \in passed THEN bonuses.tenure[m] + 1 ELSE bonuses.tenure[m]]
  <2>1. /\ months \in Nat /\ tenure \in Nat /\ longest \in Nat /\ tenure <= longest
        /\ Milestones \subseteq Nat
        /\ bonuses \in BonusRecord /\ bonuses.tenure \in [Milestones -> Nat]
    BY LoyaltyAssumption DEF LoyaltyInv, BonusRecord
  <2>2. \A m \in Milestones : m \in passed <=> longest < m /\ m <= months
    BY <2>1 DEF Passed, LoyaltyInv
  <2>3. /\ longest' \in Nat /\ longest <= longest' /\ months <= longest'
        /\ longest' \in {longest, months}
    BY <1>2, <2>1 DEF UpdateTenure
  <2>4. passed \subseteq Milestones
    BY DEF Passed
  <2>5. claimed' = {m \in Milestones : m <= longest'}
    <3>1. claimed' = claimed \cup passed
      BY <1>2 DEF UpdateTenure
    <3>2. \A m \in Milestones : m \in claimed <=> m <= longest
      BY DEF LoyaltyInv
    <3>3. claimed \subseteq Milestones
      BY DEF LoyaltyInv
    <3> HIDE DEF passed
    <3>4. \A m \in Milestones : m \in claimed' <=> m <= longest'
      BY <2>1, <2>2, <2>3, <3>1, <3>2
    <3> QED BY <2>4, <3>1, <3>3, <3>4
  <2>6. bonuses' = [bonuses EXCEPT !.tenure = counts]
    BY <1>2 DEF UpdateTenure
  <2> HIDE DEF passed
  <2>7. counts \in [Milestones -> Nat]
    BY <2>1
  <2>8. \A m \in Milestones : counts[m] = IF m <= longest' THEN 1 ELSE 0
    <3>1. \A m \in Milestones : bonuses.tenure[m] = IF m <= longest THEN 1 ELSE 0
      BY DEF LoyaltyInv
    <3>2. ASSUME NEW m \in Milestones PROVE counts[m] = IF m <= longest' THEN 1 ELSE 0
      <4>1. m \in Nat /\ (m \in passed <=> longest < m /\ m <= months)
        BY <2>1, <2>2
      <4>2. bonuses.tenure[m] = IF m <= longest THEN 1 ELSE 0
        BY <3>1
      <4>3. counts[m] = IF m \in passed THEN bonuses.tenure[m] + 1 ELSE bonuses.tenure[m]
        OBVIOUS
      <4> HIDE DEF counts
      <4>4. CASE m <= longest
        BY <2>1, <2>3, <4>1, <4>2, <4>3, <4>4
      <4>5. CASE longest < m /\ m <= months
        BY <2>1, <2>3, <4>1, <4>2, <4>3, <4>5
      <4>6. CASE longest < m /\ ~(m <= months)
        BY <2>1, <2>3, <4>1, <4>2, <4>3, <4>6
      <4> QED BY <2>1, <4>1, <4>4, <4>5, <4>6
    <3> QED BY <3>2
  <2> HIDE DEF counts
  <2>9. bonuses' \in BonusRecord /\ bonuses'.tenure = counts
    BY <2>1, <2>6, <2>7 DEF BonusRecord
  <2>10. UNCHANGED <<level, spend>> /\ tenure' = months
    BY <1>2 DEF UpdateTenure
  <2> QED BY <2>1, <2>3, <2>5, <2>8, <2>9, <2>10 DEF LoyaltyInv, TierFits
<1> QED BY <1>1, <1>2 DEF LoyaltyNext

(* The other engines leave the membership alone. *)
LEMMA LoyaltyInvariant == Spec => []LoyaltyInv
<1>1. Init => LoyaltyInv
  <2> SUFFICES ASSUME Init PROVE LoyaltyInv
    OBVIOUS
  <2>1. /\ level = 1 /\ spend = 0 /\ tenure = 0 /\ claimed = {} /\ longest = 0
        /\ bonuses = [upgrades |-> 0, tenure |-> [m \in Milestones |-> 0]]
    BY DEF Init, LoyaltyInit
  <2>2. \A m \in Milestones : m \in Nat /\ m # 0
    BY LoyaltyAssumption
  <2>3. bonuses \in BonusRecord /\ \A m \in Milestones : bonuses.tenure[m] = 0
    BY <2>1 DEF BonusRecord
  <2>4. TierFits(level, spend)
    <3>1. \A k \in Levels : k > 1 => 0 < Thresholds[k]
      BY LevelsAreNumbered, LoyaltyAssumption
    <3> QED BY <2>1, <3>1, LoyaltyAssumption DEF TierFits
  <2>5. claimed = {m \in Milestones : m <= longest}
    BY <2>1, <2>2
  <2>6. \A m \in Milestones : bonuses.tenure[m] = IF m <= longest THEN 1 ELSE 0
    BY <2>1, <2>2, <2>3
  <2> QED BY <2>1, <2>3, <2>4, <2>5, <2>6, LevelsAreNumbered DEF LoyaltyInv
<1>2. LoyaltyInv /\ [Next]_vars => LoyaltyInv'
  <2> SUFFICES ASSUME LoyaltyInv, [Next]_vars PROVE LoyaltyInv'
    OBVIOUS
  <2>1. CASE part = "loyalty" /\ Next
    BY <2>1, LoyaltyPreserved DEF Next
  <2>2. CASE UNCHANGED loyaltyVars
    BY <2>2 DEF LoyaltyInv, TierFits, loyaltyVars
  <2>3. part # "loyalty" \/ ~Next => UNCHANGED loyaltyVars
    BY DEF Next, Still, vars
  <2> QED BY <2>1, <2>2, <2>3
<1> QED BY <1>1, <1>2, PTL DEF Spec

(* Every milestone up to the longest tenure reported is rewarded once,     *)
(* however tenure is corrected, and the tier is the one a spend that is    *)
(* not negative earns (upsell/loyalty.py).                                 *)
THEOREM LoyaltyIsFair == Spec => []LoyaltyFair
<1>1. LoyaltyInv => LoyaltyFair
  BY DEF LoyaltyInv, TierFits, LoyaltyFair
<1> QED BY <1>1, LoyaltyInvariant, PTL

-----------------------------------------------------------------------------
(* What has ended stays ended.                                             *)

(* Sales are numbered in the order of their creation. *)
SoldInv == sold \in Nat /\ DOMAIN sales \subseteq 1 .. sold

LEMMA SoldInvariant == Spec => []SoldInv
<1>1. Init => SoldInv
  BY DEF Init, RevenueInit, SoldInv
<1>2. SoldInv /\ [Next]_vars => SoldInv'
  <2> SUFFICES ASSUME SoldInv, [Next]_vars PROVE SoldInv'
    OBVIOUS
  <2>1. CASE UNCHANGED revenueVars
    BY <2>1 DEF SoldInv, revenueVars
  <2>2. ASSUME NEW p \in SalePrices, NEW m \in Methods, RecordSale(p, m) PROVE SoldInv'
    <3>1. sold' = sold + 1 /\ DOMAIN sales' \subseteq DOMAIN sales \cup {sold'}
      BY <2>2 DEF RecordSale, Enforced
    <3> QED BY <3>1 DEF SoldInv
  <2>3. ASSUME sold' = sold, DOMAIN sales' = DOMAIN sales PROVE SoldInv'
    BY <2>3 DEF SoldInv
  <2>4. CASE part = "revenue" /\ RevenueNext
    BY <2>1, <2>2, <2>3, <2>4
       DEF RevenueNext, RecognizeDeferred, RecognizeUsage, RefundSale
  <2>5. UNCHANGED revenueVars \/ (part = "revenue" /\ RevenueNext)
    BY DEF Next, Still, vars
  <2> QED BY <2>1, <2>4, <2>5
<1> QED BY <1>1, <1>2, PTL DEF Spec

LEMMA RevenueIsKept ==
  ASSUME RevenueInv, SoldInv, RevenueNext
  PROVE  RevenueKept
<1>1. ASSUME sales' = sales PROVE RevenueKept
  BY <1>1 DEF RevenueKept
<1>2. ASSUME NEW p \in SalePrices, NEW m \in Methods, RecordSale(p, m) PROVE RevenueKept
  <2> DEFINE q == [i \in DOMAIN sales \cup {sold'} |-> IF i = sold' THEN Sold(p, m) ELSE sales[i]]
  <2>1. sales' = Enforced(q) /\ sold' = sold + 1
    BY <1>2 DEF RecordSale
  <2>2. \A i \in DOMAIN sales : i \in DOMAIN q /\ q[i] = sales[i]
    BY <2>1 DEF SoldInv
  <2> HIDE DEF q
  <2>3. \A i \in DOMAIN q : /\ i \in DOMAIN Enforced(q) => Enforced(q)[i] = q[i]
                            /\ i \notin DOMAIN Enforced(q) => q[i].status = "refunded"
    BY DEF Enforced, RefundedIn
  <2> QED BY <2>1, <2>2, <2>3 DEF RevenueKept
<1>3. ASSUME DOMAIN sales' = DOMAIN sales,
             \A i \in DOMAIN sales : sales[i].status \in {"recognized", "refunded"} => sales'[i] = sales[i]
      PROVE  RevenueKept
  BY <1>3 DEF RevenueKept
<1>4. ASSUME NEW asOf \in Time, RecognizeDeferred(asOf) PROVE RevenueKept
  BY <1>3, <1>4 DEF RecognizeDeferred, Unsettled
<1>5. ASSUME NEW f \in 0 .. Period, RecognizeUsage(f) PROVE RevenueKept
  BY <1>3, <1>5 DEF RecognizeUsage, Unsettled
<1>6. ASSUME NEW i \in DOMAIN sales, RefundSale(i) PROVE RevenueKept
  <2> DEFINE s == sales[i]
             z == [amount |-> s.amount, method |-> s.method, start |-> s.start,
                   recognized |-> 0, deferred |-> 0, status |-> "refunded"]
  <2>1. s \in SaleRecord /\ Balanced(s)
    BY DEF RevenueInv
  <2>2. /\ DOMAIN sales' = DOMAIN sales
        /\ \A j \in DOMAIN sales : sales'[j] = IF j = i THEN z ELSE sales[j]
    BY <1>6, <2>1, SaleFields DEF RefundSale
  <2>3. s.status = "refunded" => s = z
    BY <2>1 DEF SaleRecord, Balanced
  <2>4. z.status = "refunded"
    OBVIOUS
  <2> HIDE DEF z
  <2> QED BY <2>2, <2>3, <2>4 DEF RevenueKept
<1> QED BY <1>1, <1>2, <1>4, <1>5, <1>6 DEF RevenueNext, revenueVars

LEMMA TrialStaysConverted ==
  ASSUME trial \in Trial, TrialNext, trial.status = "converted", trial'.status # "converted"
  PROVE  via' = "extend" /\ trial'.uses > trial.uses
<1>1. ASSUME NEW days PROVE Extended(trial, days).uses = trial.uses + 1
  BY ExtendedFields
<1>2. trial.uses \in Nat
  BY DEF Trial
<1>3. CASE ExtendTrial \/ AutoExtend
  BY <1>1, <1>2, <1>3 DEF ExtendTrial, AutoExtend
<1>4. CASE RecordTrialUsage \/ RecordFeatureExplored
  <2>1. trial'.status = trial.status
    BY <1>4 DEF RecordTrialUsage, RecordFeatureExplored, Trial
  <2> QED BY <2>1
<1>5. CASE CompleteReferral
  <2>1. trial'.status = trial.status
    BY <1>5 DEF CompleteReferral, Trial
  <2> QED BY <2>1
<1>6. CASE ConvertTrial
  <2>1. trial'.status = "converted"
    BY <1>6 DEF ConvertTrial, Trial
  <2> QED BY <2>1
<1> QED BY <1>3, <1>4, <1>5, <1>6
        DEF TrialNext, trialVars, CreateIncentive, DetectAbandoned, CreateReferral, Open

LEMMA PauseStaysResumed ==
  ASSUME RetentionInv, RetentionNext, NEW i \in DOMAIN pauses, pauses[i].status = "resumed"
  PROVE  pauses'[i].status = "resumed"
<1>1. pauses \in Seq(PauseRecord) /\ DOMAIN pauses = 1 .. Len(pauses) /\ Len(pauses) \in Nat
  BY LenProperties DEF RetentionInv
<1>2. ASSUME NEW p, pauses' = Append(pauses, p) PROVE pauses'[i] = pauses[i]
  BY <1>1, <1>2
<1>3. ASSUME NEW d \in 0 .. MaxPauseDays + 1, Pause(d) PROVE pauses'[i] = pauses[i]
  BY <1>2, <1>3 DEF Pause
<1>4. ASSUME NEW j \in DOMAIN pauses, Resume(j) PROVE pauses'[i].status = "resumed"
  <2>1. pauses[i] \in PauseRecord
    BY <1>1, ElementOfSeq
  <2> DEFINE p == [pauses[j] EXCEPT !.status = "resumed", !.resumed = now]
  <2>2. pauses' = [pauses EXCEPT ![j] = p]
    BY <1>1, <1>4 DEF Resume
  <2>3. j = i => p.status = "resumed"
    BY <2>1 DEF PauseRecord
  <2> HIDE DEF p
  <2> QED BY <1>1, <2>2, <2>3
<1>5. ASSUME pauses' = pauses PROVE pauses'[i].status = "resumed"
  BY <1>5
<1> QED BY <1>3, <1>4, <1>5
        DEF RetentionNext, retentionVars, Assess, CreateGrace, ConvertGrace, CreateCampaign,
            ConvertCampaign

(* A settled contract, a promotion that is no longer active, a resumed     *)
(* pause, recognised or refunded revenue stay what they are, and a         *)
(* converted trial is open again only by an extension, whatever the        *)
(* engines are asked to do next.                                           *)
THEOREM EndingsAreFinal == Spec => FinalStays
<1>1. LedgerInv /\ LimitInv /\ TrialInv /\ SoldInv /\ [Next]_vars => [Final]_vars
  <2> SUFFICES ASSUME LedgerInv, LimitInv, TrialInv, SoldInv, Next PROVE Final
    OBVIOUS
  <2>1. RevenueKept
    <3>1. UNCHANGED sales \/ RevenueNext
      BY DEF Next, Still, revenueVars
    <3> QED BY <3>1, RevenueIsKept DEF LedgerInv, RevenueKept
  <2>2. /\ contract \in {"completed", "breached"} => contract' \in {contract, "cancelled"}
        /\ contract = "cancelled" => contract' = contract
    <3>1. UNCHANGED contract \/ CommitmentNext
      BY DEF Next, Still, commitmentVars
    <3> QED BY <3>1 DEF CommitmentNext, commitmentVars, RecordValue, CheckStatus, GenerateTrueUp,
                        CancelContract, Checked
  <2>3. promo # "active" => promo' # "active"
    <3>1. UNCHANGED promo \/ PromotionNext
      BY DEF Next, Still, promotionVars
    <3> QED BY <3>1 DEF PromotionNext, promotionVars, ApplyDiscount, PromoActive,
                        DisablePromotion, UpdateStatuses
  <2>4. trial.status = "converted" /\ trial'.status # "converted" =>
          via' = "extend" /\ trial'.uses > trial.uses
    <3>1. UNCHANGED trial \/ TrialNext
      BY DEF Next, Still, trialVars
    <3> QED BY <3>1, TrialStaysConverted DEF TrialInv, Explained
  <2>5. \A i \in DOMAIN pauses : pauses[i].status = "resumed" => pauses'[i].status = "resumed"
    <3>1. UNCHANGED pauses \/ RetentionNext
      BY DEF Next, Still, retentionVars
    <3> QED BY <3>1, PauseStaysResumed DEF LimitInv
  <2> QED BY <2>1, <2>2, <2>3, <2>4, <2>5 DEF Final
<1> QED BY <1>1, LedgerInitially, LedgerPreserved, LimitInitially, LimitPreserved, TrialInvariant,
           SoldInvariant, PTL DEF Spec, FinalStays
-----------------------------------------------------------------------------
(* Types.  Most of them are in the invariants above; a lemma per engine    *)
(* has what its steps add: times within the clock's range, statuses, and   *)
(* the bounds of the counters.                                             *)

(* The end of the credits is set by a purchase, to a time.                 *)
LEMMA CreditTypes ==
  now \in Time /\ creditsEnd \in Nat \cup {Never} /\ CreditNext => creditsEnd' \in Nat \cup {Never}
<1> SUFFICES ASSUME now \in Time, creditsEnd \in Nat \cup {Never}, CreditNext
             PROVE  creditsEnd' \in Nat \cup {Never}
  OBVIOUS
<1>1. ASSUME NEW p \in Packages, Purchase(p) PROVE creditsEnd' \in Nat \cup {Never}
  <2>1. p.valid \in Nat /\ now \in Nat
    BY PackagesAssumption DEF Time
  <2>2. creditsEnd' = creditsEnd \/ creditsEnd' = now + p.valid
    BY <1>1 DEF Purchase
  <2> QED BY <2>1, <2>2
<1> QED BY <1>1 DEF CreditNext, creditVars, Consume, Reserve, Release, Refund, CheckExpiry

(* A true-up asks a shortfall times its rate. *)
LEMMA CommitmentTypes ==
  ASSUME contract \in Statuses, trueUps \subseteq Nat, actual \in Nat, CommitmentNext
  PROVE  contract' \in Statuses /\ trueUps' \subseteq Nat
<1>1. TrueUpAmount \in Nat
  BY CommitmentAssumption DEF TrueUpAmount, Fulfilled
<1>2. Checked \in Statuses
  BY DEF Checked, Statuses
<1> QED BY <1>1, <1>2 DEF CommitmentNext, commitmentVars, RecordValue, CheckStatus,
                           GenerateTrueUp, CancelContract, Statuses

(* A discounted price is a price. *)
LEMMA PromotionTypes ==
  ASSUME PromotionTypeOK, PromotionNext
  PROVE  PromotionTypeOK'
<1> USE DEF PromotionTypeOK
<1>1. ASSUME NEW price \in Prices, ApplyDiscount(price) PROVE PromotionTypeOK'
  <2>1. price \in Nat /\ discount.value \in Nat
        /\ discount.kind \in {"percentage", "fixed", "credits"}
    BY PromotionAssumption
  <2>2. price * discount.value \in Nat
    BY <2>1
  <2>3. Reduced(price) \in Nat
    BY <2>1, <2>2 DEF Reduced
  <2>4. charged' \subseteq [before : Prices, after : Nat]
    BY <1>1, <2>3 DEF ApplyDiscount
  <2> QED BY <1>1, <2>4 DEF ApplyDiscount, PromoActive
<1> QED BY <1>1 DEF PromotionNext, promotionVars, DisablePromotion, UpdateStatuses

(* A bucket was filled and refilled at times of the clock. *)
LEMMA RateTypes ==
  ASSUME now \in Time, RateTypeOK, RateInv', RateNext
  PROVE  RateTypeOK'
<1> USE DEF RateTypeOK
<1>1. CASE Tick /\ UNCHANGED rateVars
  BY <1>1 DEF rateVars
<1>2. ASSUME NEW w \in Windows, NEW t \in Tiers, CheckRate(w, t) PROVE RateTypeOK'
  <2> DEFINE b == Bucket(w, t)
             n == Refilled(b)
             a == IF n >= 1 THEN [b EXCEPT !.tokens = n - 1, !.last = now, !.granted = @ + 1]
                  ELSE [b EXCEPT !.tokens = n, !.last = now]
  <2>1. b \in [cap : Nat, rate : Nat, tokens : Nat, last : Time, born : Time, granted : Nat]
    BY RateAssumption DEF Bucket
  <2>2. a.last = now /\ a.born = b.born
    <3> HIDE DEF b, n
    <3> QED BY <2>1
  <2>3. buckets' = [buckets EXCEPT ![w] = a] /\ checks' \in 0 .. MaxChecks
    BY <1>2, RateAssumption DEF CheckRate
  <2> HIDE DEF a, b
  <2>4. buckets'[w] = a /\ \A v \in Windows : v # w => buckets'[v] = buckets[v]
    BY <2>3
  <2>5. buckets' \in [Windows -> Buckets]
    BY DEF RateInv
  <2>6. \A v \in Windows : buckets'[v].last \in Time /\ buckets'[v].born \in Time
    <3>1. b.born \in Time
      BY <2>1
    <3> QED BY <2>2, <2>4, <3>1
  <2>7. \A v \in Windows : buckets'[v] \in
          [cap : Nat, rate : Nat, tokens : Nat, last : Time, born : Time, granted : Nat]
    BY <2>5, <2>6 DEF Buckets
  <2> QED BY <2>3, <2>5, <2>7
<1>3. CASE ResetLimits
  BY <1>3, MaxTimeAssumption DEF ResetLimits, NoBucket, Time
<1> QED BY <1>1, <1>2, <1>3 DEF RateNext

(* Usage counts up to where a trial is engaged. *)
LEMMA TrialTypes ==
  ASSUME TrialTypeOK, TrialInv', TrialNext
  PROVE  TrialTypeOK'
<1>0. /\ MaxExtensions \in Nat /\ EngagedUsage \in Nat /\ EngagedFeatures \in Nat
      /\ MaxExtensionDays \in Nat
  BY TrialAssumption
<1>1. /\ trial' \in Trial /\ trial'.uses <= MaxExtensions /\ offers' \subseteq Nat
      /\ rewards' \in Nat /\ rewards' <= trial'.uses
  BY DEF TrialInv, Explained
<1>2. rewards' \in 0 .. MaxExtensions /\ trial'.uses \in 0 .. MaxExtensions
  BY <1>0, <1>1 DEF Trial
<1>3. trial \in Trial /\ trial.usage \in 0 .. EngagedUsage /\ trial.features \in 0 .. EngagedFeatures
  BY <1>0 DEF TrialTypeOK, Trial
<1>4. trial'.usage \in 0 .. EngagedUsage /\ trial'.features \in 0 .. EngagedFeatures
  <2>1. CASE UNCHANGED trial
    BY <1>3, <2>1
  <2>2. CASE RecordTrialUsage
    BY <1>0, <1>3, <2>2 DEF RecordTrialUsage, Trial
  <2>6. CASE RecordFeatureExplored
    BY <1>0, <1>3, <2>6 DEF RecordFeatureExplored, Trial
  <2>3. CASE ExtendTrial \/ AutoExtend
    <3>1. PICK d : trial' = Extended(trial, d)
      BY <2>3 DEF ExtendTrial, AutoExtend
    <3> QED BY <1>3, <3>1, ExtendedFields
  <2>4. CASE ConvertTrial \/ DetectAbandoned
    BY <1>3, <2>4 DEF ConvertTrial, DetectAbandoned, Trial
  <2>5. CASE CompleteReferral
    BY <1>3, <2>5 DEF CompleteReferral, Trial
  <2> QED BY <2>1, <2>2, <2>3, <2>4, <2>5, <2>6
          DEF TrialNext, trialVars, CreateIncentive, CreateReferral
<1>5. referral' \in {"none", "pending", "converted"} /\ via' \in {"none", "extend", "convert", "sweep"}
  BY DEF TrialTypeOK, TrialNext, trialVars, RecordTrialUsage, RecordFeatureExplored, ExtendTrial, AutoExtend,
         CreateIncentive, ConvertTrial, DetectAbandoned, CreateReferral, CompleteReferral
<1> QED BY <1>1, <1>2, <1>4, <1>5 DEF TrialTypeOK, Trial

(* What the type of a sale says beyond SaleRecord is where its amounts lie.*)
LEMMA SalesAreRecords == \A s \in Sale : s \in SaleRecord
<1>1. SalePrices \subseteq Nat /\ Time \subseteq Int /\ Nat \subseteq Int
  BY RevenueAssumption DEF Time
<1> QED BY <1>1 DEF Sale, SaleRecord

(* What is earned of a sale, and what is not yet, are amounts. *)
LEMMA EarnedIsSale ==
  ASSUME NEW s \in Sale, NEW whole \in Nat \ {0}, NEW some \in 0 .. whole,
         NEW up \in BOOLEAN \X BOOLEAN
  PROVE  Earned(s, some, whole, up) \in Sale
<1> DEFINE r == Rounded(s.amount * some, whole, up[1])
           f == Rounded(s.amount * (whole - some), whole, up[2])
           stat == IF some = whole THEN "recognized" ELSE "deferred_partial"
<1>1. s.amount \in Nat /\ s.amount \in SalePrices /\ up[1] \in BOOLEAN /\ up[2] \in BOOLEAN
      /\ some \in Nat /\ whole - some \in Nat
  <2>1. s.amount \in SalePrices
    BY DEF Sale
  <2>2. SalePrices \subseteq Nat
    BY RevenueAssumption
  <2>3. up[1] \in BOOLEAN /\ up[2] \in BOOLEAN
    OBVIOUS
  <2>4. some \in Nat /\ whole - some \in Nat
    OBVIOUS
  <2> QED BY <2>1, <2>2, <2>3, <2>4
<1>2. s.amount * some \in Nat /\ s.amount * (whole - some) \in Nat
  BY <1>1
<1>3. ASSUME NEW n \in Nat, NEW b \in BOOLEAN PROVE Rounded(n, whole, b) \in Nat
  <2>1. 2 * n + whole - (IF b THEN 0 ELSE 1) \in Nat /\ 2 * whole \in Nat \ {0}
    OBVIOUS
  <2> QED BY <2>1 DEF Rounded
<1>4. r \in Nat /\ f \in Nat
  BY <1>1, <1>2, <1>3
<1>5. s \in SaleRecord
  BY SalesAreRecords
<1>6. Earned(s, some, whole, up) =
        [amount |-> s.amount, method |-> s.method, start |-> s.start,
         recognized |-> r, deferred |-> f, status |-> stat]
  <2> HIDE DEF r, f, stat
  <2> QED BY <1>5, SaleFields DEF Earned, r, f, stat
<1>7. stat \in {"recognized", "deferred_partial"}
  OBVIOUS
<1> HIDE DEF r, f, stat
<1> QED BY <1>1, <1>4, <1>6, <1>7 DEF Sale

(* Sales stay sales. *)
LEMMA RevenueTypes ==
  ASSUME now \in Time, RevenueTypeOK, RevenueNext
  PROVE  sold' \in 0 .. MaxSales /\ \A i \in DOMAIN sales' : sales'[i] \in Sale
<1>1. Period \in Nat \ {0} /\ SalePrices \subseteq Nat /\ MaxSales \in Nat
      /\ sold \in 0 .. MaxSales /\ \A i \in DOMAIN sales : sales[i] \in Sale
  BY RevenueAssumption DEF RevenueTypeOK
<1>2. CASE Tick /\ UNCHANGED revenueVars
  BY <1>1, <1>2 DEF revenueVars
<1>3. ASSUME NEW p \in SalePrices, NEW m \in Methods, RecordSale(p, m)
      PROVE  sold' \in 0 .. MaxSales /\ \A i \in DOMAIN sales' : sales'[i] \in Sale
  <2>1. Sold(p, m) \in Sale
    BY <1>1 DEF Sold, Sale
  <2> DEFINE q == [i \in DOMAIN sales \cup {sold'} |-> IF i = sold' THEN Sold(p, m) ELSE sales[i]]
  <2>2. \A i \in DOMAIN q : q[i] \in Sale
    BY <1>1, <2>1
  <2>3. sales' = Enforced(q) /\ sold' \in 0 .. MaxSales
    BY <1>1, <1>3 DEF RecordSale
  <2> HIDE DEF q
  <2>4. DOMAIN Enforced(q) \subseteq DOMAIN q
        /\ \A i \in DOMAIN Enforced(q) : Enforced(q)[i] = q[i]
    BY DEF Enforced
  <2> QED BY <2>2, <2>3, <2>4
<1>4. ASSUME NEW asOf \in Time, RecognizeDeferred(asOf)
      PROVE  sold' = sold /\ \A i \in DOMAIN sales' : sales'[i] \in Sale
  <2> DEFINE elapsed(i) == IF asOf - sales[i].start < Period THEN asOf - sales[i].start ELSE Period
  <2>1. PICK up \in [SalePrices -> BOOLEAN \X BOOLEAN] :
          sales' = [i \in DOMAIN sales |->
                      IF Unsettled(sales[i], "deferred") /\ elapsed(i) >= 0
                      THEN Earned(sales[i], elapsed(i), Period, up[sales[i].amount]) ELSE sales[i]]
    BY <1>4 DEF RecognizeDeferred
  <2>2. ASSUME NEW i \in DOMAIN sales PROVE sales'[i] \in Sale
    <3>1. sales[i] \in Sale /\ sales[i].start \in Int /\ up[sales[i].amount] \in BOOLEAN \X BOOLEAN
      <4>1. sales[i] \in Sale
        BY <1>1, <2>2
      <4>2. sales[i].start \in Int /\ sales[i].amount \in SalePrices
        BY <4>1 DEF Sale, Time
      <4>3. up[sales[i].amount] \in BOOLEAN \X BOOLEAN
        BY <2>1, <4>2
      <4> QED BY <4>1, <4>2, <4>3
    <3>2. CASE Unsettled(sales[i], "deferred") /\ elapsed(i) >= 0
      <4>1. elapsed(i) \in 0 .. Period
        <5> DEFINE e == asOf - sales[i].start
        <5>1. e \in Int /\ Period \in Nat
          BY <1>1, <1>4, <3>1, MaxTimeAssumption DEF Time
        <5>2. elapsed(i) = IF e < Period THEN e ELSE Period
          OBVIOUS
        <5>3. elapsed(i) >= 0
          BY <3>2
        <5> HIDE DEF e, elapsed
        <5> QED BY <5>1, <5>2, <5>3
      <4>2. sales'[i] = Earned(sales[i], elapsed(i), Period, up[sales[i].amount])
        BY <2>1, <3>2
      <4> HIDE DEF elapsed
      <4> QED BY <1>1, <3>1, <4>1, <4>2, EarnedIsSale
    <3>3. CASE ~(Unsettled(sales[i], "deferred") /\ elapsed(i) >= 0)
      BY <2>1, <3>1, <3>3
    <3> QED BY <3>2, <3>3
  <2> QED BY <1>4, <2>1, <2>2 DEF RecognizeDeferred
<1>5. ASSUME NEW fraction \in 0 .. Period, RecognizeUsage(fraction)
      PROVE  sold' = sold /\ \A i \in DOMAIN sales' : sales'[i] \in Sale
  <2>1. PICK up \in [SalePrices -> BOOLEAN \X BOOLEAN] :
          sales' = [i \in DOMAIN sales |->
                      IF Unsettled(sales[i], "usage_based")
                      THEN Earned(sales[i], fraction, Period, up[sales[i].amount]) ELSE sales[i]]
    BY <1>5 DEF RecognizeUsage
  <2>2. ASSUME NEW i \in DOMAIN sales PROVE sales'[i] \in Sale
    <3>1. sales[i] \in Sale /\ up[sales[i].amount] \in BOOLEAN \X BOOLEAN
      BY <1>1, <2>1 DEF Sale
    <3> QED BY <1>1, <2>1, <3>1, EarnedIsSale
  <2> QED BY <1>5, <2>1, <2>2 DEF RecognizeUsage
<1>6. ASSUME NEW i \in DOMAIN sales, RefundSale(i)
      PROVE  sold' = sold /\ \A j \in DOMAIN sales' : sales'[j] \in Sale
  <2> DEFINE s == sales[i]
             z == [amount |-> s.amount, method |-> s.method, start |-> s.start,
                   recognized |-> 0, deferred |-> 0, status |-> "refunded"]
  <2>1. s \in Sale /\ s \in SaleRecord
    BY <1>1, SalesAreRecords
  <2>2. [s EXCEPT !.recognized = 0, !.deferred = 0, !.status = "refunded"] = z /\ z \in Sale
    BY <2>1, SaleFields DEF Sale
  <2>3. /\ DOMAIN sales' = DOMAIN sales /\ sold' = sold
        /\ \A j \in DOMAIN sales : sales'[j] = IF j = i THEN z ELSE sales[j]
    BY <1>6, <2>2 DEF RefundSale
  <2> HIDE DEF z
  <2> QED BY <1>1, <2>2, <2>3
<1> QED BY <1>1, <1>2, <1>3, <1>4, <1>5, <1>6 DEF RevenueNext

(* An event is a check that found usage over the limit. *)
LEMMA OverageTypes == OverageTypeOK /\ OverageInv' /\ OverageNext => OverageTypeOK'
<1> SUFFICES ASSUME OverageTypeOK, OverageInv', OverageNext PROVE OverageTypeOK'
  OBVIOUS
<1>1. ASSUME NEW t \in DOMAIN UsageLimits, NEW a \in Attempts, CheckOverage(t, a)
      PROVE  OverageTypeOK'
  <2>1. UsageLimits[t] \in Nat /\ usage + a \in Nat /\ MaxAttempts \in Nat
    BY OverageAssumption DEF OverageTypeOK
  <2>2. asked' \in [limit : Nat, total : Nat] /\ UNCHANGED policy
    BY <1>1, <2>1 DEF CheckOverage
  <2>3. attempts' = attempts + 1 /\ attempts < MaxAttempts /\ events' \in {events, events + 1}
    BY <1>1 DEF CheckOverage, OverageTypeOK
  <2> QED BY <2>1, <2>2, <2>3 DEF OverageTypeOK, OverageInv
<1>2. ASSUME NEW p \in {"hard_cap", "burst"}, SetPolicy(p) PROVE OverageTypeOK'
  BY <1>2 DEF SetPolicy, OverageTypeOK
<1>3. CASE ClearEvents
  BY <1>3, OverageAssumption DEF ClearEvents, OverageTypeOK
<1> QED BY <1>1, <1>2, <1>3 DEF OverageNext

(* One element more. *)
LEMMA OneElementMore ==
  ASSUME NEW S, NEW x, IsFiniteSet(S), NEW n \in Nat, Cardinality(S) <= n
  PROVE  IsFiniteSet(S \cup {x}) /\ Cardinality(S \cup {x}) <= n + 1
<1>1. /\ IsFiniteSet(S \cup {x})
      /\ Cardinality(S \cup {x}) \in {Cardinality(S), Cardinality(S) + 1}
  BY FS_AddElement
<1>2. Cardinality(S) \in Nat
  BY FS_CardinalityType
<1> QED BY <1>1, <1>2

(* A score is at most 100. *)
LEMMA ScoreIsPercent ==
  ASSUME NEW s \in Signal
  PROVE  Score(s) \in 0 .. 100
<1>1. s.trend \in Int /\ s.idle \in Nat /\ s.tickets \in Nat /\ s.adoption \in Int /\ s.failures \in Nat
  BY DEF Signal
<1>2. Weight(s) \in Nat
  BY <1>1 DEF Weight
<1> QED BY <1>2 DEF Score

(* A risk counts the three thresholds a score reaches. *)
LEMMA RiskLevels == \A n \in 0 .. 100 : Risk(n) \in 0 .. 3
<1> SUFFICES ASSUME NEW n \in 0 .. 100 PROVE Risk(n) \in 0 .. 3
  OBVIOUS
<1> DEFINE all == {30, 50, 70}
           reached == {threshold \in all : n >= threshold}
<1>1. IsFiniteSet(all) /\ Cardinality(all) <= 3
  <2>1. IsFiniteSet({30}) /\ Cardinality({30}) <= 1
    <3>1. IsFiniteSet({30}) /\ Cardinality({30}) = 1
      BY FS_Singleton, Zenon
    <3> QED BY <3>1
  <2>2. IsFiniteSet({30} \cup {50}) /\ Cardinality({30} \cup {50}) <= 1 + 1
    BY <2>1, OneElementMore, 1 \in Nat, Zenon
  <2>3. IsFiniteSet({30} \cup {50} \cup {70}) /\ Cardinality({30} \cup {50} \cup {70}) <= (1 + 1) + 1
    BY <2>2, OneElementMore, 1 + 1 \in Nat, Zenon
  <2>4. {30} \cup {50} \cup {70} = all
    OBVIOUS
  <2> QED BY <2>3, <2>4
<1>2. reached \subseteq all
  OBVIOUS
<1>3. IsFiniteSet(reached) /\ Cardinality(reached) <= 3
  BY <1>1, <1>2, FS_Subset, FS_CardinalityType
<1> QED BY <1>3, FS_CardinalityType DEF Risk

(* Pauses, offers and assessments are made at times of the clock. *)
LEMMA RetentionTypes ==
  ASSUME now \in Time, RetentionTypeOK, RetentionNext
  PROVE  RetentionTypeOK'
<1> DEFINE Entry == [status : {"active", "resumed"}, from : Time, until : Nat, resumed : Time]
<1>0. MaxPauseDays \in Nat /\ GraceDays \in Nat /\ CampaignDays \in Nat /\ now \in Nat
  BY RetentionAssumption DEF Time
<1> USE DEF RetentionTypeOK
<1>1. CASE Tick /\ UNCHANGED retentionVars
  BY <1>1 DEF retentionVars
<1>2. ASSUME NEW s \in Signals, Assess(s) PROVE RetentionTypeOK'
  <2>1. s \in Signal
    BY RetentionAssumption
  <2>3. Score(s) \in 0 .. 100
    BY <2>1, ScoreIsPercent
  <2>4. Risk(Score(s)) \in 0 .. 3
    BY <2>3, RiskLevels, Zenon
  <2>5. assessed' \in [signals : Signals, score : 0 .. 100, risk : 0 .. 3]
    BY <1>2, <2>3, <2>4 DEF Assess
  <2>6. UNCHANGED <<pauses, grace, campaign>>
    BY <1>2 DEF Assess
  <2> QED BY <2>5, <2>6
<1>3. ASSUME NEW d \in 0 .. MaxPauseDays + 1, Pause(d) PROVE RetentionTypeOK'
  <2>1. PausedFor(d) \in Nat
    BY <1>0 DEF PausedFor
  <2>2. PICK p : p = [status |-> "active", from |-> now, until |-> now + PausedFor(d), resumed |-> now]
    OBVIOUS
  <2>3. p \in Entry
    BY <1>0, <2>1, <2>2
  <2>4. pauses' = Append(pauses, p) /\ UNCHANGED <<grace, campaign, assessed>>
    BY <1>3, <2>2 DEF Pause
  <2> HIDE DEF Entry
  <2>5. pauses' \in Seq(Entry)
    BY <2>3, <2>4 DEF Entry
  <2> QED BY <2>4, <2>5 DEF Entry
<1>4. ASSUME NEW i \in DOMAIN pauses, Resume(i) PROVE RetentionTypeOK'
  <2> DEFINE p == [pauses[i] EXCEPT !.status = "resumed", !.resumed = now]
  <2>0. pauses \in Seq(Entry)
    OBVIOUS
  <2>1. pauses \in Seq(Entry) /\ pauses[i] \in Entry
    <3> HIDE DEF Entry
    <3> QED BY <2>0
  <2>2. p \in Entry
    BY <2>1
  <2>3. pauses' = [pauses EXCEPT ![i] = p] /\ UNCHANGED <<grace, campaign, assessed>>
    BY <1>4 DEF Resume
  <2> HIDE DEF p, Entry
  <2>4. pauses' \in Seq(Entry)
    BY <2>1, <2>2, <2>3
  <2> QED BY <2>3, <2>4 DEF Entry
<1>5. ASSUME NEW d \in 0 .. MaxPauseDays + 1, CreateGrace(d) PROVE RetentionTypeOK'
  BY <1>0, <1>5 DEF CreateGrace
<1>6. CASE ConvertGrace
  BY <1>6 DEF ConvertGrace
<1>7. CASE CreateCampaign
  BY <1>0, <1>7 DEF CreateCampaign
<1>8. CASE ConvertCampaign
  BY <1>8 DEF ConvertCampaign
<1> QED BY <1>1, <1>2, <1>3, <1>4, <1>5, <1>6, <1>7, <1>8 DEF RetentionNext
(* What is known already, of the next state too. *)
Known == CreditInv /\ LimitInv /\ LedgerInv /\ TrialInv /\ LoyaltyInv /\ SoldInv

(* Each engine starts within its type. *)
LEMMA TypesBegin == Init => TypeOK
<1> SUFFICES ASSUME Init PROVE TypeOK
  OBVIOUS
<1> USE DEF Init
<1>1. part \in Parts /\ now \in Time
  BY MaxTimeAssumption DEF Time
<1>2. CreditTypeOK /\ CommitmentTypeOK /\ PromotionTypeOK
  BY <1>1 DEF CreditInit, CreditTypeOK, CommitmentInit, CommitmentTypeOK, Statuses,
              PromotionInit, PromotionTypeOK
<1>3. RateTypeOK
  BY RateAssumption, MaxTimeAssumption DEF RateInit, RateTypeOK, NoBucket, Time
<1>4. TrialTypeOK
  BY TrialAssumption DEF TrialInit, TrialTypeOK, Open
<1>5. RevenueTypeOK
  BY RevenueAssumption DEF RevenueInit, RevenueTypeOK
<1>6. LoyaltyTypeOK
  BY LevelsAreNumbered, LoyaltyAssumption DEF LoyaltyInit, LoyaltyTypeOK
<1>7. OverageTypeOK
  BY OverageAssumption DEF OverageInit, OverageTypeOK
<1>8. RetentionTypeOK
  BY DEF RetentionInit, RetentionTypeOK
<1> QED BY <1>1, <1>2, <1>3, <1>4, <1>5, <1>6, <1>7, <1>8 DEF TypeOK

(* Each call keeps the type of its engine, given the invariants in Known. *)
LEMMA TypesPreserved == TypeOK /\ Known /\ Known' /\ [Next]_vars => TypeOK'
<1> SUFFICES ASSUME TypeOK, Known, Known', [Next]_vars PROVE TypeOK'
  OBVIOUS
<1>1. part' = part /\ part \in Parts
  BY DEF Next, vars, TypeOK
<1>2. now \in Time /\ now' \in Time
  <2>1. now \in Time
    BY DEF TypeOK, CreditTypeOK
  <2>2. now' = now \/ Tick
    BY DEF Next, vars, CreditNext, Purchase, Consume, Reserve, Release, Refund, CheckExpiry,
           CommitmentNext, RecordValue, CheckStatus, GenerateTrueUp, CancelContract,
           PromotionNext, ApplyDiscount, DisablePromotion, UpdateStatuses,
           RateNext, CheckRate, ResetLimits,
           TrialNext, RecordTrialUsage, RecordFeatureExplored, ExtendTrial, AutoExtend, CreateIncentive, ConvertTrial,
           DetectAbandoned, CreateReferral, CompleteReferral,
           RevenueNext, RecordSale, RecognizeDeferred, RecognizeUsage, RefundSale,
           RetentionNext, Assess, Pause, CreateGrace, Resume, ConvertGrace, CreateCampaign,
           ConvertCampaign
  <2> QED BY <2>1, <2>2, MaxTimeAssumption DEF Tick, Time
<1>3. /\ CreditNext \/ UNCHANGED creditVars
      /\ CommitmentNext \/ UNCHANGED commitmentVars
      /\ PromotionNext \/ UNCHANGED promotionVars
      /\ RateNext \/ UNCHANGED rateVars
      /\ TrialNext \/ UNCHANGED trialVars
      /\ RevenueNext \/ UNCHANGED revenueVars
      /\ LoyaltyNext \/ UNCHANGED loyaltyVars
      /\ OverageNext \/ UNCHANGED overageVars
      /\ RetentionNext \/ UNCHANGED retentionVars
  BY DEF Next, Still, vars
<1>4. CreditTypeOK'
  <2>1. creditsEnd' \in Nat \cup {Never}
    BY <1>2, <1>3, CreditTypes DEF TypeOK, CreditTypeOK, creditVars
  <2> QED BY <1>2, <2>1 DEF Known, CreditInv, CreditTypeOK
<1>5. CommitmentTypeOK'
  <2>1. contract' \in Statuses /\ trueUps' \subseteq Nat
    BY <1>3, CommitmentTypes DEF TypeOK, CommitmentTypeOK, commitmentVars
  <2> QED BY <2>1 DEF Known, LedgerInv, CommitmentInv, CommitmentTypeOK
<1>6. PromotionTypeOK'
  BY <1>3, PromotionTypes DEF TypeOK, PromotionTypeOK, promotionVars
<1>7. RateTypeOK'
  BY <1>2, <1>3, RateTypes DEF TypeOK, RateTypeOK, rateVars, Known, LimitInv
<1>8. TrialTypeOK'
  BY <1>3, TrialTypes DEF TypeOK, TrialTypeOK, trialVars, Known
<1>9. RevenueTypeOK'
  <2>1. sold' \in 0 .. MaxSales /\ \A i \in DOMAIN sales' : sales'[i] \in Sale
    BY <1>2, <1>3, RevenueTypes DEF TypeOK, RevenueTypeOK, revenueVars
  <2> QED BY <2>1 DEF RevenueTypeOK, Known, SoldInv
<1>10. LoyaltyTypeOK'
  <2>1. tenure' \in 0 .. MaxTenure /\ longest' \in 0 .. MaxTenure
    BY <1>3 DEF TypeOK, LoyaltyTypeOK, LoyaltyNext, RecordSpend, UpdateTenure, loyaltyVars
  <2> QED BY <2>1 DEF LoyaltyTypeOK, Known, LoyaltyInv, BonusRecord
<1>11. OverageTypeOK'
  BY <1>3, OverageTypes DEF TypeOK, OverageTypeOK, overageVars, Known, LedgerInv
<1>12. RetentionTypeOK'
  BY <1>2, <1>3, RetentionTypes DEF TypeOK, RetentionTypeOK, retentionVars
<1> QED BY <1>1, <1>4, <1>5, <1>6, <1>7, <1>8, <1>9, <1>10, <1>11, <1>12 DEF TypeOK

(* Every engine's state has the shape its class gives it, for every value  *)
(* of the parameters (pricing/, trials/, churn/, upsell/, compliance/).    *)
THEOREM TypesAlwaysHold == Spec => []TypeOK
<1>1. Spec => []Known
  BY CreditInvariant, LimitInitially, LimitPreserved, LedgerInitially, LedgerPreserved,
     TrialInvariant, LoyaltyInvariant, SoldInvariant, PTL DEF Spec, Known
<1> QED BY <1>1, TypesBegin, TypesPreserved, PTL DEF Spec
=============================================================================
