-------------------------------- MODULE Pricing --------------------------------
(***************************************************************************)
(* What usage costs: the price models of UsageBasedPricingEngine           *)
(* (pricing/engine.py) over one table of tiers, and the estimate of        *)
(* FeatureUsageMeter (pricing/metering.py) over the readings of one meter  *)
(* and licence.  Usage is counted in half units, as it may be fractional;  *)
(* prices are whole, so that rounding to cents changes nothing.            *)
(***************************************************************************)
EXTENDS Lists, SequencesExt, Integers

CONSTANTS
  TierTables,   \* plan.tiers a plan may have: sequences of [lo, hi, price, fee]; hi = 0: None
  Readings,     \* values of a reading, in half units
  MeterDefs,    \* definitions a meter may have: [aggregation, rate, free]
  MaxReadings   \* bound on the readings

TierRow == [lo : Nat, hi : Nat, price : Nat, fee : Nat]

ASSUME PricingAssumption ==
  /\ TierTables \subseteq Seq(TierRow) \ {<<>>}
  /\ Readings \subseteq Nat /\ MaxReadings \in Nat
  /\ MeterDefs \subseteq [aggregation : {"sum", "max", "last", "p95"}, rate : Nat, free : Nat]

VARIABLES
  tiers,     \* the registered plan's tiers
  meter,     \* _meters, the one meter
  readings   \* _readings of the billing period, oldest first

pricingVars == <<tiers, meter, readings>>

PricingTypeOK ==
  /\ tiers \in TierTables /\ meter \in MeterDefs
  /\ Len(readings) <= MaxReadings /\ \A i \in DOMAIN readings : readings[i] \in Readings

PricingInit == tiers \in TierTables /\ meter \in MeterDefs /\ readings = <<>>

---------------------------------------------------------------------------
(* PricingTier.contains *)
Contains_(t, n) == t.lo <= n /\ (t.hi = 0 \/ n <= t.hi)

(* _calc_tiered: the first tier that holds the whole units, or the last    *)
(* one; its price for all units, and its fee.                              *)
TierFor(table, units) ==
  LET hits == {i \in DOMAIN table : Contains_(table[i], units \div 2)}
  IN IF hits = {} THEN Len(table) ELSE CHOOSE i \in hits : \A j \in hits : i <= j

Tiered(table, units) ==
  IF units = 0 THEN 0
  ELSE LET t == table[TierFor(table, units)] IN units * t.price + 2 * t.fee

(* _calc_volume: the last tier whose minimum is reached, or the first one. *)
VolumeTier(table, units) ==
  LET hits == {i \in DOMAIN table : units >= 2 * table[i].lo}
  IN IF hits = {} THEN 1 ELSE CHOOSE i \in hits : \A j \in hits : j <= i

Volume(table, units) == units * table[VolumeTier(table, units)].price

(* _calc_graduated: tier after tier takes what its width holds, and its   *)
(* fee, as long as something is left.                                      *)
WidthShort(t) == 2 * (t.hi - t.lo)
Width(t) == 2 * (t.hi - t.lo + 1)

Taken(t, left) == IF left <= 0 THEN 0 ELSE IF t.hi = 0 \/ left < Width(t) THEN left ELSE Width(t)

(* What the first i tiers leave. *)
LeftAfter(table, units) ==
  LET left[i \in 0 .. Len(table)] ==
        IF i = 0 THEN units ELSE left[i - 1] - Taken(table[i], left[i - 1])
  IN left

Charge(t, left) == IF left <= 0 THEN 0 ELSE Taken(t, left) * t.price + 2 * t.fee

Graduated(table, units) ==
  LET left == LeftAfter(table, units)
  IN SumOf([i \in 1 .. Len(table) |-> Charge(table[i], left[i - 1])])

(* aggregate: what the readings of the period come to, and their charge.   *)
(* The average is left out.                                                *)
Largest(s) == CHOOSE v \in {s[i] : i \in DOMAIN s} : \A i \in DOMAIN s : s[i] <= v
Percentile(s, p) ==
  LET sorted == SortSeq(s, LAMBDA a, b : a < b)
      index == (Len(s) * p) \div 100
  IN sorted[IF index < Len(s) THEN index + 1 ELSE Len(s)]

Aggregated(m, s) ==
  IF s = <<>> THEN 0
  ELSE CASE m.aggregation = "sum" -> SumOf(s) [] m.aggregation = "max" -> Largest(s)
         [] m.aggregation = "last" -> s[Len(s)] [] m.aggregation = "p95" -> Percentile(s, 95)

Estimate(m, s) == IF Aggregated(m, s) > m.free THEN (Aggregated(m, s) - m.free) * m.rate ELSE 0

---------------------------------------------------------------------------
RecordReading(v) ==
  /\ Len(readings) < MaxReadings /\ readings' = Append(readings, v)
  /\ UNCHANGED <<tiers, meter>>

(* define_meter and register_plan replace what was defined before. *)
DefineMeter(m) == meter' = m /\ UNCHANGED <<tiers, readings>>
RegisterPlan(t) == tiers' = t /\ UNCHANGED <<meter, readings>>

PricingNext ==
  \/ \E v \in Readings : RecordReading(v)
  \/ \E m \in MeterDefs : DefineMeter(m)
  \/ \E t \in TierTables : RegisterPlan(t)

---------------------------------------------------------------------------
Units == SumOf(readings)

(* The tables the engine's tests use: the first tier begins with the first *)
(* unit, each begins where the one before it ends, and only the last one   *)
(* may have no end.                                                        *)
Contiguous(t) ==
  /\ t[1].lo = 1 /\ \A i \in 1 .. Len(t) - 1 : t[i].hi >= t[i].lo /\ t[i + 1].lo = t[i].hi + 1
  /\ t[Len(t)].hi = 0 \/ t[Len(t)].hi >= t[Len(t)].lo

(* Graduated prices by definition: every half unit at the price of the     *)
(* tier its unit is in, nothing beyond the last tier, and the fee of every *)
(* tier that is reached.                                                   *)
PriceAt(t, unit) ==
  LET hits == {i \in DOMAIN t : Contains_(t[i], unit)}
  IN IF hits = {} THEN 0 ELSE t[CHOOSE i \in hits : TRUE].price

UnitPrices(t, units) == SumOf([k \in 1 .. units |-> PriceAt(t, (k + 1) \div 2)])
Fees(t, units) ==
  SumOf([i \in 1 .. Len(t) |-> IF units > 2 * (t[i].lo - 1) THEN 2 * t[i].fee ELSE 0])

(* Over contiguous tiers the graduated price is the sum over the units,    *)
(* and a tiered price is the volume price and a fee, except below the      *)
(* first whole unit, which the tiered price takes for the last tier.       *)
PricingSound ==
  Contiguous(tiers) =>
    /\ Graduated(tiers, Units) = UnitPrices(tiers, Units) + Fees(tiers, Units)
    /\ Units >= 2 => Tiered(tiers, Units) = Volume(tiers, Units) + 2 * tiers[VolumeTier(tiers, Units)].fee
    /\ Units = 1 => TierFor(tiers, Units) = Len(tiers)

(* Another reading never lowers a graduated price, and lowers a volume     *)
(* price only where it reaches another tier; it lowers no estimate of      *)
(* summed or maximal readings.                                             *)
PricesRise ==
  \A v \in Readings :
    /\ Contiguous(tiers) =>
         /\ Graduated(tiers, Units + v) >= Graduated(tiers, Units)
         /\ Volume(tiers, Units + v) < Volume(tiers, Units) =>
              VolumeTier(tiers, Units + v) > VolumeTier(tiers, Units)
    /\ meter.aggregation \in {"sum", "max"} =>
         Estimate(meter, Append(readings, v)) >= Estimate(meter, readings)
=============================================================================
