----------------------------- MODULE HealthProbe -----------------------------
(***************************************************************************)
(* DatabaseHealthMonitor (common/health.py): the periodic probe and the    *)
(* one a caller asks for (check_now) share a status and may be in flight   *)
(* at the same time; the engine may be closed under either.                *)
(***************************************************************************)
EXTENDS Integers

CONSTANTS
  Threshold,  \* unhealthy_threshold
  MaxProbes   \* bound on the probes

ASSUME HealthAssumption == Threshold \in Nat \ {0} /\ MaxProbes \in Nat

Probers == {"loop", "caller"}

VARIABLES
  monitoring, \* _running
  engine,     \* is _db_manager.engine not None?
  probing,    \* probers whose SELECT 1 is in flight
  health,     \* ConnectionHealthStatus
  \* History.
  ended,      \* probes that ended by an answer or an error of the database
  blind,      \* a probe found no engine since the last success
  misses      \* failures of the database and its engine since the last success

healthVars == <<monitoring, engine, probing, health, ended, blind, misses>>

HealthTypeOK ==
  /\ monitoring \in BOOLEAN /\ engine \in BOOLEAN /\ probing \subseteq Probers
  /\ health \in [healthy : BOOLEAN, consecutive : Nat, checks : 0 .. MaxProbes, failures : Nat]
  /\ ended \in 0 .. MaxProbes /\ blind \in BOOLEAN /\ misses \in Nat

HealthInit ==
  /\ monitoring = FALSE /\ engine \in BOOLEAN /\ probing = {}
  /\ health = [healthy |-> TRUE, consecutive |-> 0, checks |-> 0, failures |-> 0]
  /\ ended = 0 /\ blind = FALSE /\ misses = 0

(* start does nothing when the loop runs; stop cancels its probe, whose    *)
(* check stays counted.                                                    *)
StartMonitor ==
  /\ ~monitoring /\ monitoring' = TRUE
  /\ UNCHANGED <<engine, probing, health, ended, blind, misses>>

StopMonitor ==
  /\ monitoring /\ monitoring' = FALSE /\ probing' = probing \ {"loop"}
  /\ UNCHANGED <<engine, health, ended, blind, misses>>

(* _run_check up to its await. *)
BeginProbe(p) ==
  /\ p \notin probing /\ (p = "loop" => monitoring)
  /\ IF engine
       THEN /\ health.checks < MaxProbes
            /\ health' = [health EXCEPT !.checks = @ + 1]
            /\ probing' = probing \cup {p} /\ UNCHANGED blind
       ELSE /\ health' = [health EXCEPT !.healthy = FALSE]
            /\ blind' = TRUE /\ UNCHANGED probing
  /\ UNCHANGED <<monitoring, engine, ended, misses>>

FailedAfter(h, before) ==
  [h EXCEPT !.consecutive = before + 1, !.failures = @ + 1,
            !.healthy = IF before + 1 >= Threshold THEN FALSE ELSE @]

(* The query answers.  The pool is read afterwards: without an engine that *)
(* raises, and the probe counts as a failure after it counted as a success.*)
ProbeAnswers(p) ==
  /\ p \in probing /\ probing' = probing \ {p} /\ ended' = ended + 1
  /\ blind' = FALSE
  /\ LET ok == [health EXCEPT !.consecutive = 0, !.healthy = TRUE]
     IN health' = IF engine THEN ok ELSE FailedAfter(ok, 0)
  /\ misses' = IF engine THEN 0 ELSE 1
  /\ UNCHANGED <<monitoring, engine>>

ProbeFails(p) ==
  /\ p \in probing /\ probing' = probing \ {p} /\ ended' = ended + 1
  /\ health' = FailedAfter(health, health.consecutive) /\ misses' = misses + 1
  /\ UNCHANGED <<monitoring, engine, blind>>

(* DatabaseManager.init and close. *)
EngineChanges ==
  /\ engine' = ~engine
  /\ UNCHANGED <<monitoring, probing, health, ended, blind, misses>>

HealthNext ==
  \/ StartMonitor \/ StopMonitor \/ EngineChanges
  \/ \E p \in Probers : BeginProbe(p) \/ ProbeAnswers(p) \/ ProbeFails(p)

---------------------------------------------------------------------------
(* The database is reported unhealthy only after Threshold failures with   *)
(* no answer between them, or when a probe met no engine; it is reported   *)
(* healthy after Threshold failures never; and no probe is counted as a    *)
(* failure that was not started.                                           *)
HealthEarned ==
  /\ ~health.healthy => blind \/ misses >= Threshold
  /\ health.healthy => ~blind /\ misses < Threshold
  /\ health.failures <= ended /\ ended + (IF "caller" \in probing THEN 1 ELSE 0) <= health.checks
=============================================================================
