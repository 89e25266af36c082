---------------------------- MODULE OfflineCache ----------------------------
(***************************************************************************)
(* OfflineLicenseCache (offline/cache.py): validation results kept for     *)
(* when the service cannot be reached, in the order of their last use.     *)
(* The integrity seal holds as long as nothing outside writes entries, and *)
(* is left out.                                                            *)
(***************************************************************************)
EXTENDS Clock, Lists, FiniteSets

CONSTANTS
  KeyHashes,   \* keys of cached licences
  OfflineTtl,  \* ttl_seconds
  CacheSize    \* max_size

ASSUME OfflineCacheAssumption == KeyHashes # {} /\ OfflineTtl \in Nat /\ CacheSize \in Nat \ {0}

Standing == {"active", "suspended"}  \* suspended stands for revoked and expired, too
Nothing == [status |-> "none", ends |-> 0, at |-> 0]
Results == [status : Standing, ends : 0 .. MaxTime + 1, at : Time]

VARIABLES
  entries,  \* _store, the least recently used first
  reply,    \* the last offline answer: [key, code], until something else happens
  \* History.
  usedAfter,\* the keys stored or hit since the last store or hit of a key
  newest    \* the last result stored for a key and not invalidated since

offlineCacheVars == <<entries, reply, usedAfter, newest>>

Codes == {"none", "MISS", "EXPIRED", "REFUSED", "OK"}

OfflineCacheTypeOK ==
  /\ \A i \in DOMAIN entries :
       entries[i].key \in KeyHashes /\ entries[i].exp \in 0 .. MaxTime + OfflineTtl
       /\ entries[i].val \in Results
  /\ reply \in [key : KeyHashes, code : Codes]
  /\ usedAfter \in [KeyHashes -> SUBSET KeyHashes]
  /\ newest \in [KeyHashes -> Results \cup {Nothing}]

OfflineCacheInit ==
  /\ entries = <<>> /\ usedAfter = [k \in KeyHashes |-> {}]
  /\ reply = [key |-> CHOOSE k \in KeyHashes : TRUE, code |-> "none"]
  /\ newest = [k \in KeyHashes |-> Nothing]

NoReply == [reply EXCEPT !.code = "none"]
Used(k) == [j \in KeyHashes |-> IF j = k THEN {} ELSE usedAfter[j] \cup {k}]

(* cache_validation, with from_validation_result. *)
CacheValidation(k, status, ends) ==
  LET r == [status |-> status, ends |-> ends, at |-> now]
  IN /\ entries' = Put(entries, k, r, now + OfflineTtl, CacheSize)
     /\ usedAfter' = Used(k) /\ newest' = [newest EXCEPT ![k] = r] /\ reply' = NoReply
     /\ UNCHANGED now

(* What validate_offline answers: ends = MaxTime + 1 never comes.          *)
OfflineCode(k) ==
  IF ~Hit(entries, k, now) THEN "MISS"
  ELSE LET r == EntryOf(entries, k).val
       IN IF r.ends < now THEN "EXPIRED" ELSE IF r.status # "active" THEN "REFUSED" ELSE "OK"

(* An entry that has run out is deleted, a refused one stays where it is,  *)
(* an approved one becomes the most recently used.                         *)
AnswerOffline(k) ==
  /\ reply' = [key |-> k, code |-> OfflineCode(k)]
  /\ entries' = IF OfflineCode(k) \in {"EXPIRED", "REFUSED"} THEN entries ELSE Got(entries, k, now)
  /\ usedAfter' = IF OfflineCode(k) = "OK" THEN Used(k) ELSE usedAfter
  /\ UNCHANGED <<now, newest>>

InvalidateOffline(k) ==
  /\ entries' = Without(entries, k)
  /\ newest' = [newest EXCEPT ![k] = Nothing] /\ reply' = NoReply
  /\ UNCHANGED <<now, usedAfter>>

ClearOffline ==
  /\ entries' = <<>> /\ newest' = [k \in KeyHashes |-> Nothing] /\ reply' = NoReply
  /\ UNCHANGED <<now, usedAfter>>

CleanupOffline ==
  /\ entries' = Kept(entries, {entries[i] : i \in {j \in DOMAIN entries : now <= entries[j].exp}})
  /\ reply' = NoReply
  /\ UNCHANGED <<now, usedAfter, newest>>

OfflineCacheNext ==
  \/ Tick /\ reply' = NoReply /\ UNCHANGED <<entries, usedAfter, newest>>
  \/ \E k \in KeyHashes :
       \/ \E s \in Standing, e \in {now, MaxTime + 1} : CacheValidation(k, s, e)
       \/ AnswerOffline(k) \/ InvalidateOffline(k)
  \/ ClearOffline \/ CleanupOffline

---------------------------------------------------------------------------
(* An offline approval is that of the newest result of the key, which was  *)
(* an approval not older than OfflineTtl; and a result in its time is      *)
(* missed only when CacheSize other keys were used after it.               *)
OfflineCacheSound ==
  /\ reply.code = "OK" =>
       LET r == newest[reply.key]
       IN r.status = "active" /\ now <= r.at + OfflineTtl /\ now <= r.ends
  /\ reply.code = "MISS" /\ newest[reply.key] # Nothing =>
       \/ now > newest[reply.key].at + OfflineTtl
       \/ Cardinality(usedAfter[reply.key]) >= CacheSize
  /\ Len(entries) <= CacheSize
=============================================================================
