---------------------------- MODULE NexusBreaker ----------------------------
(***************************************************************************)
(* NexusClient (nexus_client.py): every call but the health checks is      *)
(* refused once MaxFailures failures were counted, and only a success      *)
(* resets the count.  Async calls overlap: some were sent before the       *)
(* breaker opened.                                                         *)
(***************************************************************************)
EXTENDS Integers

CONSTANTS
  MaxFailures,  \* _max_failures
  MaxOpen       \* bound on the calls in flight

ASSUME BreakerAssumption == MaxFailures \in Nat \ {0} /\ MaxOpen \in Nat \ {0}

VARIABLES
  failures,  \* _failures
  flying,    \* calls in flight
  checking,  \* health checks in flight
  lastCall   \* the last step: "refused", "sent", "ok", "failed", "parse", "health", "unhealthy", "none"

nexusVars == <<failures, flying, checking, lastCall>>

Steps == {"none", "refused", "sent", "ok", "failed", "parse", "health", "unhealthy"}

NexusTypeOK ==
  /\ failures \in Nat /\ flying \in 0 .. MaxOpen /\ checking \in 0 .. 1 /\ lastCall \in Steps

NexusInit == failures = 0 /\ flying = 0 /\ checking = 0 /\ lastCall = "none"

IsAvailable == failures < MaxFailures

(* generate, search_knowledge, add_knowledge, list_models and the sync     *)
(* forms: refused without being sent while the breaker is open.            *)
Call ==
  /\ flying < MaxOpen
  /\ IF IsAvailable THEN flying' = flying + 1 /\ lastCall' = "sent"
     ELSE lastCall' = "refused" /\ UNCHANGED flying
  /\ UNCHANGED <<failures, checking>>

CallSucceeds ==
  /\ flying > 0 /\ flying' = flying - 1
  /\ failures' = 0 /\ lastCall' = "ok"
  /\ UNCHANGED checking

CallFails ==
  /\ flying > 0 /\ flying' = flying - 1
  /\ failures' = failures + 1 /\ lastCall' = "failed"
  /\ UNCHANGED checking

(* The status is fine and the async body is not JSON: reset, then counted. *)
CallUnparseable ==
  /\ flying > 0 /\ flying' = flying - 1
  /\ failures' = 1 /\ lastCall' = "parse"
  /\ UNCHANGED checking

StartHealth ==
  /\ checking = 0 /\ checking' = 1 /\ lastCall' = "sent"
  /\ failures < MaxFailures + MaxOpen + 2
  /\ UNCHANGED <<failures, flying>>

(* Likewise a health check whose body does not parse resets the count and  *)
(* adds one.                                                               *)
EndHealth ==
  /\ checking = 1 /\ checking' = 0
  /\ \/ failures' \in {0, 1} /\ lastCall' = "health"
     \/ failures' = failures + 1 /\ lastCall' = "unhealthy"
  /\ UNCHANGED flying

NexusNext ==
  Call \/ CallSucceeds \/ CallFails \/ CallUnparseable \/ StartHealth \/ EndHealth

---------------------------------------------------------------------------
(* The breaker never closes by waiting or by a refused call: only a health *)
(* check that succeeds closes it, or a call that was in flight when it     *)
(* opened.                                                                 *)
BreakerStep ==
  /\ ~IsAvailable => flying' <= flying
  /\ ~IsAvailable /\ failures' < MaxFailures =>
       (flying' = flying - 1 /\ lastCall' \in {"ok", "parse"}) \/ lastCall' = "health"
=============================================================================
