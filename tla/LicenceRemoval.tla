--------------------------- MODULE LicenceRemoval ---------------------------
(***************************************************************************)
(* What becomes of the data derived from a licence when it is changed and  *)
(* removed: the composed entitlements of its customer, cached for a minute,*)
(* and the rows of other tables that refer to it.  The writers are the API,*)
(* LicenseCleanupService and HardDeleteProcessor.                          *)
(***************************************************************************)
EXTENDS Lists, LicenceTable

CONSTANTS
  EntTTL,     \* lifetime of the composed entitlements (60 s)
  Retention,  \* retention_days of HardDeleteProcessor
  Batch       \* batch_size of HardDeleteProcessor

ASSUME RemovalAssumption == EntTTL \in Nat /\ Retention \in Nat /\ Batch \in Nat \ {0}

VARIABLES
  ecache,     \* the entitlement cache: the customer's entry
  composing,  \* compositions that have read the rows and not yet cached the answer
  rows,       \* which kinds of dependent rows exist, per licence
  fk,         \* whether the database enforces its foreign keys
  changed,    \* history: when a licence last began or ceased to be composed
  removed     \* history: who deleted the row of a licence

removalVars == <<ecache, composing, rows, fk, changed, removed>>

(* "owned" are entitlements, machines and audit events, which the hard-    *)
(* delete pass removes; "history" are usage records and anomalies, which   *)
(* nothing removes.                                                        *)
Kinds == {"owned", "history"}

RemovalTypeOK ==
  /\ TableTypeOK
  /\ Len(ecache) <= 1
  /\ \A i \in DOMAIN ecache : /\ ecache[i].val \in SUBSET Licences
                              /\ ecache[i].exp \in 0 .. MaxTime + EntTTL
  /\ composing \subseteq [by : Requests, of : SUBSET Licences, at : 0 .. MaxTime]
  /\ rows \in [Licences -> SUBSET Kinds] /\ fk \in BOOLEAN
  /\ changed \in [Licences -> 0 .. MaxTime]
  /\ removed \in [Licences -> {"nobody", "processor", "cleanup"}]

RemovalInit ==
  /\ TableInit
  /\ ecache = <<>> /\ composing = {}
  /\ rows \in [Licences -> {{"owned"}, Kinds}]
  /\ fk \in BOOLEAN
  /\ changed = [l \in Licences |-> 0]
  /\ removed = [l \in Licences |-> "nobody"]

Noted == changed' = [l \in Licences |-> IF Active(l)' # Active(l) THEN now ELSE changed[l]]

Gone(set) == [l \in Licences |-> IF l \in set THEN [lic[l] EXCEPT !.here = FALSE] ELSE lic[l]]

(* An edit commits.  What it flushed and published before is seen by       *)
(* neither the table's readers nor this cache: the ids update_license and  *)
(* soft_delete_license publish on the bus are not keys of it.              *)
Change(l) == (Edited(l) \/ Lapsed(l)) /\ Noted /\ UNCHANGED <<ecache, composing, rows, fk, removed>>

Cached == Hit(ecache, "composed", now)

LookedUpAgain ==
  IF Cached THEN Put(ecache, "composed", EntryOf(ecache, "composed").val, now + EntTTL, 1)
  ELSE Got(ecache, "composed", now)

(* The cache after the lookup get_composed_entitlements begins with. *)
LookedUp == Got(ecache, "composed", now)

ComposeServed ==
  /\ Cached
  /\ ecache' = LookedUp
  /\ UNCHANGED <<tableVars, composing, rows, fk, changed, removed>>

(* A miss: the request reads the customer's active licences ... *)
ComposeRead(r) ==
  /\ ~Cached /\ up
  /\ \A q \in composing : q.by # r
  /\ composing' = composing \cup {[by |-> r, of |-> {l \in Licences : Active(l)}, at |-> now]}
  /\ ecache' = LookedUp
  /\ UNCHANGED <<tableVars, rows, fk, changed, removed>>

(* ... awaits each of their products, and caches what it has composed ...  *)
ComposeStore(q) ==
  /\ q \in composing /\ composing' = composing \ {q}
  /\ ecache' = Put(ecache, "composed", q.of, now + EntTTL, 1)
  /\ UNCHANGED <<tableVars, rows, fk, changed, removed>>

(* ... unless one of its statements fails. *)
ComposeFails(q) ==
  /\ q \in composing /\ composing' = composing \ {q}
  /\ UNCHANGED <<tableVars, ecache, rows, fk, changed, removed>>

(* A composition takes MaxLatency ticks at most from its SELECT on. *)
ComposesInTime == \A q \in composing : now < q.at + MaxLatency

CleanupSoft == SoftlyCleaned /\ Noted /\ UNCHANGED <<ecache, composing, rows, fk, removed>>

(* cleanup under HARD_DELETE deletes the licence row alone; a foreign key  *)
(* that is enforced refuses the flush, and with it the whole cycle.        *)
CleanupHard ==
  /\ up /\ RunOut # {}
  /\ fk => \A l \in RunOut : rows[l] = {}
  /\ lic' = Gone(RunOut)
  /\ removed' = [l \in Licences |-> IF l \in RunOut THEN "cleanup" ELSE removed[l]]
  /\ Noted
  /\ UNCHANGED <<now, up, ecache, composing, rows, fk>>

Eligible == {l \in Licences : /\ lic[l].here /\ lic[l].deleted
                              /\ lic[l].deletedAt + Retention < now}

Batches(set) ==
  {b \in SUBSET set :
     Cardinality(b) = IF Cardinality(set) < Batch THEN Cardinality(set) ELSE Batch}

RowsKept(b) == rows

RowsAfter(b) == [l \in Licences |-> IF l \in b THEN rows[l] \ {"owned"} ELSE rows[l]]

(* HardDeleteProcessor.run_once over one batch: usage records and anomalies*)
(* stay, and a database that enforces their foreign key refuses the batch. *)
HardDelete ==
  /\ up /\ Eligible # {}
  /\ \E b \in Batches(Eligible) :
       /\ fk => \A l \in b : "history" \notin rows[l]
       /\ lic' = Gone(b)
       /\ rows' = RowsAfter(b)
       /\ removed' = [l \in Licences |-> IF l \in b THEN "processor" ELSE removed[l]]
  /\ UNCHANGED <<now, up, ecache, composing, fk, changed>>

RemovalNext ==
  \/ ((Passes /\ ComposesInTime) \/ Turns) /\ UNCHANGED removalVars
  \/ \E l \in Licences : Change(l)
  \/ ComposeServed
  \/ \E r \in Requests : ComposeRead(r)
  \/ \E q \in composing : ComposeStore(q) \/ ComposeFails(q)
  \/ CleanupSoft \/ CleanupHard
  \/ HardDelete

---------------------------------------------------------------------------
(* The composed entitlements disagree with the licence table about a       *)
(* licence for at most one TTL after its last change and the time a        *)
(* request takes from its SELECT to its store (service.py:585-617): the    *)
(* bus never reaches their cache (caching.py:216-236), so nothing but the  *)
(* TTL ends the disagreement, and a composition that was under way when    *)
(* the licence changed begins it anew.                                     *)
ComposedCatchesUp ==
  Cached => \A l \in Licences :
              (l \in EntryOf(ecache, "composed").val) # Active(l)
                => now - changed[l] <= EntTTL + MaxLatency

(* Rows that outlive their licence: with foreign keys enforced there are   *)
(* none; without, the processor leaves usage records and anomalies alone,  *)
(* and only the cleanup's HARD_DELETE policy leaves the rest.              *)
OrphansAreHistory ==
  \A l \in Licences :
    ~lic[l].here => IF fk THEN rows[l] = {}
                    ELSE "owned" \in rows[l] => removed[l] = "cleanup"
=============================================================================
