------------------------------ MODULE RateLimits ------------------------------
(***************************************************************************)
(* TieredRateLimiter (pricing/rate_limits.py): the two token buckets of a  *)
(* licence.  A bucket is created by the first check with the limits of the *)
(* tier that check names, and keeps them until it is reset: later checks   *)
(* under another tier draw on the same bucket.                             *)
(***************************************************************************)
EXTENDS Clock

CONSTANTS
  Windows,      \* "rpm" and "burst"
  TierCapacity, \* capacity of a new bucket, [tier -> [window -> Nat]]
  TierRefill,   \* tokens refilled per tick, likewise
  MaxChecks     \* bound on the checks

Tiers == DOMAIN TierCapacity

ASSUME RateAssumption ==
  /\ TierCapacity \in [Tiers -> [Windows -> Nat \ {0}]]
  /\ TierRefill \in [Tiers -> [Windows -> Nat]]
  /\ MaxChecks \in Nat

NoBucket == [cap |-> 0, rate |-> 0, tokens |-> 0, last |-> 0, born |-> 0, granted |-> 0]

VARIABLES
  buckets,  \* one _TokenBucket per window, with its history: born, granted
  checks    \* checks so far (for the bound)

rateVars == <<buckets, checks>>

RateTypeOK ==
  /\ buckets \in [Windows -> [cap : Nat, rate : Nat, tokens : Nat, last : Time,
                              born : Time, granted : Nat]]
  /\ checks \in 0 .. MaxChecks

RateInit == buckets = [w \in Windows |-> NoBucket] /\ checks = 0

(* _get_bucket *)
Bucket(w, tier) ==
  IF buckets[w] # NoBucket THEN buckets[w]
  ELSE [cap |-> TierCapacity[tier][w], rate |-> TierRefill[tier][w],
        tokens |-> TierCapacity[tier][w], last |-> now, born |-> now, granted |-> 0]

RefilledUncapped(b) == b.tokens + (now - b.last) * b.rate

(* the refill of _TokenBucket.consume *)
Refilled(b) ==
  LET full == b.tokens + (now - b.last) * b.rate
  IN IF full < b.cap THEN full ELSE b.cap

(* check_rate_limit and check_burst: a refused request takes no token. *)
CheckRate(w, tier) ==
  /\ checks < MaxChecks /\ checks' = checks + 1
  /\ LET b == Bucket(w, tier)
         n == Refilled(b)
     IN buckets' = [buckets EXCEPT ![w] =
          IF n >= 1 THEN [b EXCEPT !.tokens = n - 1, !.last = now, !.granted = @ + 1]
          ELSE [b EXCEPT !.tokens = n, !.last = now]]
  /\ UNCHANGED now

ResetLimits == buckets' = [w \in Windows |-> NoBucket] /\ UNCHANGED <<now, checks>>

RateNext ==
  \/ Tick /\ UNCHANGED rateVars
  \/ \E w \in Windows, t \in Tiers : CheckRate(w, t)
  \/ ResetLimits

RateSpec == RateInit /\ [][RateNext]_<<now, rateVars>>

---------------------------------------------------------------------------
(* From its first check to its reset a licence is granted at most one      *)
(* bucket of requests plus the refill of the time since, at the rates of   *)
(* the tier of that first check, whatever tiers the later checks name; and *)
(* a full bucket never holds more than its capacity after a quiet period.  *)
GrantsWithinRate ==
  \A w \in Windows :
    LET b == buckets[w] IN
      /\ b.tokens + b.granted <= b.cap + b.rate * (b.last - b.born)
      /\ b.tokens <= b.cap
=============================================================================
