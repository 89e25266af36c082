----------------------------- MODULE Composition -----------------------------
(***************************************************************************)
(* compose_customer_entitlements (licensing/composition.py) for one        *)
(* feature and one agent of a customer's licences, next to what each       *)
(* licence grants on its own (licensing/agent_entitlements.py).  The query *)
(* that loads the licences states no order.                                *)
(***************************************************************************)
EXTENDS Lists, Integers

CONSTANTS
  MaxLicences,  \* licences a customer holds in the model
  Limits,       \* limits a feature may have
  TokenLimits,  \* token limits an agent may have
  TierRanks     \* ranks of model tiers

ASSUME CompositionAssumption ==
  /\ MaxLicences \in Nat \ {0} /\ Limits \subseteq Nat /\ TokenLimits \subseteq Nat
  /\ TierRanks \subseteq Nat /\ TierRanks # {}

(* A value: [is |-> "bool" | "num" | "tier" | "none", n]; a boolean is 0   *)
(* or 1, as in Python's sums, a tier its rank.                             *)
Val(is, n) == [is |-> is, n |-> n]
NoVal == Val("none", 0)
Numeric(v) == v.is \in {"bool", "num"}

(* What a product and its licence say of the feature: the strategy the     *)
(* product names, the effective enabled flag, and the effective limit, if  *)
(* either has one (no value: unlimited).                                   *)
Strategies == {"unset", "sum", "max", "union", "other"}
FeatureDefs ==
  [compose : Strategies, limited : {FALSE}, value : {Val("bool", 0), Val("bool", 1)}] \cup
  [compose : Strategies, limited : {TRUE}, value : {Val("num", n) : n \in Limits} \cup {NoVal}]

(* The agent's fields after {**product, **licence}; "absent" when neither  *)
(* has the field.                                                          *)
AgentDefs ==
  [enabled : {"absent", "yes", "no"}, tokens : {Val("num", n) : n \in TokenLimits} \cup {NoVal}, tier : TierRanks]

VARIABLE held  \* the customer's licences, in the order the query returned them

CompositionTypeOK ==
  /\ Len(held) \in 1 .. MaxLicences
  /\ \A i \in DOMAIN held : held[i] \in [feature : FeatureDefs, agent : AgentDefs]

SomeFeature == CHOOSE f \in FeatureDefs : TRUE
SomeAgent == CHOOSE a \in AgentDefs : TRUE

(* The feature and the agent are composed independently of one another:    *)
(* each licence brings a new definition of one of them.                    *)
LicenceDefs == [feature : FeatureDefs, agent : {SomeAgent}] \cup [feature : {SomeFeature}, agent : AgentDefs]

CompositionInit == \E l \in LicenceDefs : held = <<l>>

CompositionNext ==
  /\ Len(held) < MaxLicences
  /\ \E l \in LicenceDefs : held' = Append(held, l)

(* _get_compose_strategy with the default a limit gives. *)
StrategyOf(f) ==
  IF f.compose # "unset" THEN f.compose ELSE IF f.limited THEN "max" ELSE "union"

(* Of the values at some positions: their sum, the first of the greatest,  *)
(* the first.                                                              *)
Sum(s, at) == SumOf([i \in 1 .. Len(s) |-> IF i \in at THEN s[i].n ELSE 0])
FirstOf(at) == CHOOSE i \in at : \A j \in at : i <= j
Greatest(s, at) == s[FirstOf({i \in at : \A j \in at : s[j].n <= s[i].n})]

(* _apply_strategy on a non-empty list. *)
Combine(strategy, values) ==
  LET every == DOMAIN values
      numbers == {i \in every : Numeric(values[i])}
      present == {i \in every : values[i].is # "none"}
  IN IF strategy = "sum"
       THEN IF numbers = {} THEN NoVal ELSE Val("num", Sum(values, numbers))
     ELSE IF strategy = "max"
       THEN IF \A i \in every : values[i].is = "tier" THEN Greatest(values, every)
            ELSE IF numbers = {} THEN NoVal ELSE Greatest(values, numbers)
     ELSE IF strategy = "union"
       THEN IF \A i \in every : values[i].is = "bool" THEN Greatest(values, every)
            ELSE IF present = {} THEN NoVal ELSE values[FirstOf(present)]
     ELSE values[1]

(* The composed feature: the strategy is that of the first licence. *)
ComposedFeature(s) ==
  Combine(StrategyOf(s[1].feature), [i \in DOMAIN s |-> s[i].feature.value])

(* The composed agent: enabled if any licence says so, enabled if none     *)
(* says anything; token limits add up.                                     *)
ComposedAgent(s) ==
  LET said == {s[i].agent.enabled : i \in DOMAIN s} \ {"absent"}
  IN [enabled |-> "yes" \in said \/ said = {},
      tokens |-> Combine("sum", [i \in DOMAIN s |-> s[i].agent.tokens]),
      tier |-> Combine("max", [i \in DOMAIN s |-> Val("tier", s[i].agent.tier)])]

(* resolve_agent_entitlements for one licence. *)
GrantsAgent(l) == l.agent.enabled # "no"

---------------------------------------------------------------------------
Permuted == {p \in [DOMAIN held -> DOMAIN held] : \A i, j \in DOMAIN held : i # j => p[i] # p[j]}
Orders == {[i \in DOMAIN held |-> held[p[i]]] : p \in Permuted}

(* The products name one strategy, known to the code; and unless it adds   *)
(* up, all values are flags, or all are limits and the greatest counts.    *)
Agreed ==
  \E st \in {"sum", "max", "union"} : \A i \in DOMAIN held :
    /\ StrategyOf(held[i].feature) = st
    /\ st = "union" => held[i].feature.value.is = "bool"
    /\ st = "max" => held[i].feature.limited = held[1].feature.limited

(* Whatever order the query returns the licences in, the composed agent is *)
(* the same, and so is the composed feature if the products agree; then    *)
(* no finite limit and no flag of a licence is lost; and the composed      *)
(* agent is enabled exactly when one of the licences enables it, unless a  *)
(* licence leaves the flag out while another disables it.                  *)
ComposeSound ==
  /\ \A s \in Orders : ComposedAgent(s) = ComposedAgent(held)
  /\ Agreed =>
       /\ \A s \in Orders : ComposedFeature(s) = ComposedFeature(held)
       /\ \A i \in DOMAIN held : Numeric(held[i].feature.value) =>
            ComposedFeature(held).n >= held[i].feature.value.n
  /\ LET grants == \E i \in DOMAIN held : GrantsAgent(held[i])
         e == ComposedAgent(held).enabled
     IN /\ e => grants
        /\ grants /\ ~e => \E i \in DOMAIN held : held[i].agent.enabled = "absent"
=============================================================================
