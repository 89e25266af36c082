----------------------------- MODULE MCOperations -----------------------------
(***************************************************************************)
(* The components around the licence core that share no state with one     *)
(* another: every behaviour belongs to one of them (part), in every order  *)
(* of its operations, while the others stay as they began.                 *)
(***************************************************************************)
EXTENDS ClientCalls, OfflineLease, OfflineCache, HealthProbe, NexusBreaker, StripeQueue,
        UsageMetering, Investigations, Recovery, SchemaMigration, Composition,
        KeyRotation, FraudSignals, Pricing

VARIABLE part  \* the component this behaviour is of

vars == <<part, now, clientVars, leaseVars, offlineCacheVars, healthVars, nexusVars, stripeVars,
          meteringVars, caseVars, recoveryVars, schemaVars, held,
          rotationVars, fraudVars, pricingVars>>

Parts == {"calls", "lease", "offline", "health", "nexus", "stripe",
          "metering", "cases", "recovery", "schema", "composition",
          "rotation", "fraud", "pricing"}

MCLicenceData == {[used |-> 3, limit |-> 2, overdue |-> 0, strange |-> 0, over |-> 1],
                  [used |-> 5, limit |-> 2, overdue |-> 2, strange |-> 4, over |-> 0]}


Tier(lo, hi, price, fee) == [lo |-> lo, hi |-> hi, price |-> price, fee |-> fee]
MCFlatTable == <<Tier(1, 0, 2, 0)>>
MCTierTables == {MCFlatTable, <<Tier(1, 2, 5, 0), Tier(3, 5, 3, 4), Tier(6, 0, 1, 0)>>,
                 <<Tier(1, 3, 4, 1), Tier(4, 6, 2, 0)>>, <<Tier(0, 2, 5, 0), Tier(3, 0, 3, 0)>>}
MCSumMeter == [aggregation |-> "sum", rate |-> 2, free |-> 3]
MCMeterDefs == {MCSumMeter} \cup
               {[aggregation |-> a, rate |-> 3, free |-> 1] : a \in {"sum", "max", "last", "p95"}}

(* A part whose beginnings differ begins in one way when another is run.   *)
Init ==
  /\ part \in Parts /\ now = 0
  /\ part # "lease" => configured = CHOOSE k \in LeaseKeys : TRUE
  /\ part # "health" => engine = TRUE
  /\ part # "schema" => before = [t \in Tables |-> NoTable] /\ after = before
  /\ part # "composition" => held = <<[feature |-> SomeFeature, agent |-> SomeAgent]>>
  /\ part # "pricing" => tiers = MCFlatTable /\ meter = MCSumMeter
  /\ ClientInit /\ LeaseInit /\ OfflineCacheInit /\ HealthInit /\ NexusInit /\ StripeInit
  /\ UsageInit /\ CasesInit /\ RecoveryInit /\ SchemaInit /\ CompositionInit
  /\ RotationInit /\ FraudInit /\ PricingInit

Still(p, v) == IF part = p THEN TRUE ELSE UNCHANGED v

Next ==
  /\ UNCHANGED part
  /\ \/ part = "calls" /\ ClientNext /\ UNCHANGED now
     \/ part = "lease" /\ LeaseNext
     \/ part = "offline" /\ OfflineCacheNext
     \/ part = "health" /\ HealthNext /\ UNCHANGED now
     \/ part = "nexus" /\ NexusNext /\ UNCHANGED now
     \/ part = "stripe" /\ StripeNext /\ UNCHANGED now
     \/ part = "metering" /\ UsageNext /\ UNCHANGED now
     \/ part = "cases" /\ CasesNext /\ UNCHANGED now
     \/ part = "recovery" /\ RecoveryNext /\ UNCHANGED now
     \/ part = "schema" /\ SchemaNext /\ UNCHANGED now
     \/ part = "composition" /\ CompositionNext /\ UNCHANGED now
     \/ part = "rotation" /\ RotationNext /\ UNCHANGED now
     \/ part = "fraud" /\ FraudNext /\ UNCHANGED now
     \/ part = "pricing" /\ PricingNext /\ UNCHANGED now
  /\ Still("calls", clientVars) /\ Still("lease", leaseVars) /\ Still("offline", offlineCacheVars)
  /\ Still("health", healthVars) /\ Still("nexus", nexusVars) /\ Still("stripe", stripeVars)
  /\ Still("metering", meteringVars) /\ Still("cases", caseVars) /\ Still("recovery", recoveryVars)
  /\ Still("schema", schemaVars) /\ Still("composition", held)
  /\ Still("rotation", rotationVars) /\ Still("fraud", fraudVars)
  /\ Still("pricing", pricingVars)

Spec == Init /\ [][Next]_vars

---------------------------------------------------------------------------
(* Every variable of every component keeps its type; a counter that the    *)
(* code clamps, such as the remainder of a metric, is never negative.      *)
TypeOK ==
  /\ part \in Parts
  /\ ClientTypeOK /\ LeaseTypeOK /\ OfflineCacheTypeOK
  /\ HealthTypeOK /\ NexusTypeOK /\ StripeTypeOK
  /\ UsageTypeOK /\ CasesTypeOK /\ RecoveryTypeOK /\ SchemaTypeOK /\ CompositionTypeOK
  /\ RotationTypeOK /\ FraudTypeOK /\ PricingTypeOK

(* A part that is not run stays as it began, and so do its properties.     *)
Of(p, property) == part = p => property

(* Whatever the order of its steps, a component that waits for others -    *)
(* for a server, a database, a task it cancels, a reviewer, a migration -  *)
(* says and keeps what its history accounts for: answers of retried calls  *)
(* and of leases, health, Stripe events, cases, migrated keys.             *)
ProtocolsHold ==
  /\ Of("calls", UsageAccounted /\ AnswerStands)  \* client.py over the activation and usage routers
  /\ Of("lease", LeaseBounded)        \* client.py, keygen/lease.py
  /\ Of("health", HealthEarned)       \* common/health.py
  /\ Of("stripe", EventsAccounted)    \* background.py, StripeWebhookProcessor
  /\ Of("cases", CasesSound)          \* compliance/investigation.py
  /\ Of("rotation", RotationSound)    \* keygen/, compliance/key_evolution.py

(* What is kept as a list, or computed from one, is what a plain           *)
(* definition says: offline results, usage rows, their sums and anomalies, *)
(* recovery tasks, fraud signals and generated migrations.                 *)
ListsHold ==
  /\ Of("offline", OfflineCacheSound) \* offline/cache.py
  /\ Of("metering", MeteringSound)    \* usage/service.py, anomaly/
  /\ Of("recovery", RecoverySound)    \* compliance/recovery.py
  /\ Of("fraud", FraudSound)          \* compliance/fraud_detection.py
  /\ Of("schema", MigrationSound)     \* compliance/schema_migration.py

(* What a component says and keeps is what its history accounts for.       *)
ComponentsHold == ProtocolsHold /\ ListsHold

(* Composed entitlements and prices are what a plain definition says, and  *)
(* another reading lowers no graduated price or estimate.                  *)
ResultsHold ==
  /\ Of("composition", ComposeSound)  \* licensing/composition.py
  /\ Of("pricing", PricingSound /\ PricesRise)  \* pricing/

(* No step undoes what only certain steps may undo: the circuit breaker    *)
(* closes by an answer alone (nexus_client.py), and a closed case changes  *)
(* by an escalation alone (compliance/investigation.py).                   *)
NothingUndone == [][Of("nexus", BreakerStep) /\ Of("cases", CaseStep)]_vars
=============================================================================
