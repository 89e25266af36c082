---------------------------- MODULE OfflineLease ----------------------------
(***************************************************************************)
(* validate of the client SDK (client.py) with its fallback: the lease of  *)
(* the last online approval, kept in memory and in a file, answers when    *)
(* the server cannot be reached.  The file outlives the process; the       *)
(* process that reads it may be configured with another licence key.       *)
(***************************************************************************)
EXTENDS Clock

CONSTANTS
  LeaseKeys,  \* licence keys the client is configured with
  LeaseTtl,   \* lease_ttl of the server
  CacheAge    \* how old a lease the server's response cache may hand out

ASSUME LeaseAssumption == LeaseTtl \in Nat /\ CacheAge \in 0 .. LeaseTtl

Never == -1
NoLease == [key |-> "none", until |-> Never]
Leases == [key : LeaseKeys \cup {"none"}, until : Never .. MaxTime + LeaseTtl]

VARIABLES
  configured, \* license_key of the running client
  lease,      \* _cached_lease
  file,       \* what the lease file holds; NoLease: absent or unreadable
  valid,      \* does the server approve the licence? [LeaseKeys -> BOOLEAN]
  offline,    \* the last answer given from the lease, and when, since the last online one
  \* History.
  approved,   \* when an online answer last approved a licence and held a lease
  process     \* the same, for the running process only

leaseVars == <<configured, lease, file, valid, offline, approved, process>>

NoOffline == [code |-> "none", at |-> Never, key |-> "none"]

LeaseTypeOK ==
  /\ configured \in LeaseKeys /\ lease \in Leases /\ file \in Leases
  /\ valid \in [LeaseKeys -> BOOLEAN]
  /\ offline \in [code : {"none", "OFFLINE_VALID", "LEASE_EXPIRED", "NO_LEASE"},
                  at : Never .. MaxTime, key : LeaseKeys \cup {"none"}]
  /\ approved \in [LeaseKeys -> Never .. MaxTime] /\ process \in Never .. MaxTime

LeaseInit ==
  /\ configured \in LeaseKeys /\ lease = NoLease /\ file = NoLease
  /\ valid = [k \in LeaseKeys |-> TRUE] /\ offline = NoOffline
  /\ approved = [k \in LeaseKeys |-> Never] /\ process = Never

(* create_lease, when the response was built: age ticks ago if the server  *)
(* answered from its cache.                                                *)
LeaseOf(key, age) == [key |-> key, until |-> now - age + LeaseTtl]

(* validate, answered online with an approval and a lease: the lease is    *)
(* kept, then written; an OSError leaves the file as it was.  A refusal,   *)
(* and an approval without a lease, leave the old lease alone.             *)
ApprovedOnline(age) ==
  /\ valid[configured] /\ age <= now
  /\ lease' = LeaseOf(configured, age)
  /\ file' \in {lease', file}
  /\ approved' = [approved EXCEPT ![configured] = IF now - age > @ THEN now - age ELSE @]
  /\ process' = now - age
  /\ offline' = NoOffline
  /\ UNCHANGED <<now, configured, valid>>

(* The process dies while the file is being written: what is left is not   *)
(* JSON.                                                                   *)
TornWrite ==
  /\ valid[configured]
  /\ lease' = NoLease /\ file' = NoLease /\ process' = Never
  /\ approved' = [approved EXCEPT ![configured] = now]
  /\ offline' = NoOffline
  /\ UNCHANGED <<now, configured, valid>>

(* _validate_from_cache, after CONNECTION_ERROR and from validate_offline. *)
OfflineAnswerUnexpiring ==
  [code |-> IF lease = NoLease THEN "NO_LEASE" ELSE "OFFLINE_VALID",
   at |-> now, key |-> lease.key]

OfflineAnswer ==
  [code |-> IF lease = NoLease THEN "NO_LEASE"
            ELSE IF now >= lease.until THEN "LEASE_EXPIRED" ELSE "OFFLINE_VALID",
   at |-> now, key |-> lease.key]

ValidateFromCache ==
  /\ offline' = OfflineAnswer
  /\ UNCHANGED <<now, configured, lease, file, valid, approved, process>>

(* __init__ with _load_persisted_lease. *)
RestartClient(key) ==
  /\ configured' = key /\ lease' = file /\ process' = Never /\ offline' = NoOffline
  /\ UNCHANGED <<now, file, valid, approved>>

LicenceChanges(key) ==
  /\ valid' = [valid EXCEPT ![key] = ~@]
  /\ UNCHANGED <<now, configured, lease, file, offline, approved, process>>

LeaseNext ==
  \/ Tick /\ UNCHANGED leaseVars
  \/ \E age \in 0 .. CacheAge : ApprovedOnline(age)
  \/ TornWrite \/ ValidateFromCache
  \/ \E key \in LeaseKeys : RestartClient(key) \/ LicenceChanges(key)

---------------------------------------------------------------------------
(* An answer from the lease approves only a licence the server approved    *)
(* less than LeaseTtl earlier (the licence the lease names, which a        *)
(* restart may have separated from the one configured); and a client that  *)
(* was approved in this process is not refused before that time is over.   *)
LeaseBounded ==
  /\ offline.code = "OFFLINE_VALID" =>
       /\ offline.key \in LeaseKeys /\ approved[offline.key] # Never
       /\ offline.at < approved[offline.key] + LeaseTtl
  /\ offline.code \in {"LEASE_EXPIRED", "NO_LEASE"} =>
       process = Never \/ offline.at >= process + LeaseTtl
=============================================================================
