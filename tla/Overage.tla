-------------------------------- MODULE Overage --------------------------------
(***************************************************************************)
(* OverageBillingEngine (pricing/overage.py) for one licence and metric,   *)
(* with a caller that asks before it counts usage and obeys should_block.  *)
(* Overage is charged at one rate per unit; a limit of 0 is unlimited.     *)
(***************************************************************************)
EXTENDS Naturals

CONSTANTS
  UsageLimits,  \* limit of each tier: [tier -> Nat]
  Attempts,     \* units a caller asks for
  Rate,         \* overage rate
  MaxAttempts   \* bound on the checks

ASSUME OverageAssumption ==
  /\ UsageLimits \in [DOMAIN UsageLimits -> Nat]
  /\ Attempts \subseteq Nat \ {0} /\ Rate \in Nat /\ MaxAttempts \in Nat

VARIABLES
  usage,     \* units the caller counted
  policy,    \* the policy that holds for the metric
  billed,    \* subtotal of an invoice over all events
  events,    \* number of events
  attempts,  \* checks so far (for the bound)
  asked      \* history: tier of the last check and the usage it asked for

overageVars == <<usage, policy, billed, events, attempts, asked>>

OverageTypeOK ==
  /\ usage \in Nat /\ billed \in Nat
  /\ events \in 0 .. attempts /\ attempts \in 0 .. MaxAttempts
  /\ policy \in {"hard_cap", "soft_cap", "burst", "notify_only"}
  /\ asked \in [limit : Nat, total : Nat]

OverageInit ==
  /\ usage = 0 /\ policy = "soft_cap" /\ billed = 0 /\ events = 0 /\ attempts = 0
  /\ asked = [limit |-> 0, total |-> 0]

Over(limit, total) == IF limit > 0 /\ total > limit THEN total - limit ELSE 0

(* check_overage(current_usage, additional): the event charges the whole   *)
(* overage of the period, not what this request adds to it, and is kept    *)
(* when the caller is told to block.                                       *)
CheckOverage(tier, more) ==
  LET limit == UsageLimits[tier]
      over == Over(limit, usage + more)
  IN /\ attempts < MaxAttempts /\ attempts' = attempts + 1
     /\ billed' = billed + over * Rate
     /\ events' = events + (IF over > 0 THEN 1 ELSE 0)
     /\ usage' = IF over > 0 /\ policy = "hard_cap" THEN usage ELSE usage + more
     /\ asked' = [limit |-> limit, total |-> usage + more]
     /\ UNCHANGED policy

SetPolicy(p) ==
  /\ policy' = p
  /\ UNCHANGED <<usage, billed, events, attempts, asked>>

ClearEvents ==
  /\ billed' = 0 /\ events' = 0 /\ usage' = 0
  /\ asked' = [limit |-> 0, total |-> 0]
  /\ UNCHANGED <<policy, attempts>>

OverageNext ==
  \/ \E t \in DOMAIN UsageLimits, a \in Attempts : CheckOverage(t, a)
  \/ \E p \in {"hard_cap", "burst"} : SetPolicy(p)
  \/ ClearEvents

OverageSpec == OverageInit /\ [][OverageNext]_overageVars

---------------------------------------------------------------------------
(* Whatever tier and policy were in force meanwhile, the invoice covers    *)
(* every unit above the limit last asked about; it is exact when one event *)
(* makes it up, and higher when more do (overage.py:104-120).              *)
OverageCovered ==
  LET owed == Over(asked.limit, asked.total) * Rate IN
    /\ billed >= owed
    /\ usage > asked.limit /\ asked.limit > 0 => billed >= (usage - asked.limit) * Rate
    /\ events = 1 /\ owed > 0 => billed = owed
=============================================================================
