------------------------------ MODULE Licensing ------------------------------
(***************************************************************************)
(* The licence row, the 30-second validation cache in front of it, and the *)
(* actors that read and write them: LicensingService (validate_license,    *)
(* update_license, soft_delete_license), LicenseExpirationProcessor and    *)
(* the TTLCache of common/caching.py.                                      *)
(*                                                                         *)
(* A request is a process with a database session of its own: it reads a   *)
(* snapshot of the committed row at a SELECT, flushes its UPDATE under the *)
(* database's write lock, and its writes become visible at the commit that *)
(* ends DatabaseManager.get_session.  Every `await' of the handler is a    *)
(* step boundary.  The module has one licence: every query of the code     *)
(* filters by the licence's key or id, so licences do not interact except  *)
(* through evictions from the shared cache (Evict).                        *)
(***************************************************************************)
EXTENDS Naturals

CONSTANTS
  Requests,    \* slots of concurrent API requests
  Sweeper,     \* the task of LicenseExpirationProcessor
  Ops,         \* the operations the requests of this instance run
  Statuses,    \* values an administrator writes in the status column
  Limits,      \* values an administrator writes in machines_limit
  Keep,        \* a field the PATCH body leaves out
  TTL,         \* ticks a validation stays in the cache
  MaxLatency   \* ticks a request or a sweep may stay open

ASSUME TimeAssumption == TTL \in Nat /\ MaxLatency \in Nat
ASSUME LimitsAssumption == Limits \subseteq Nat
ASSUME SweeperAssumption == Sweeper \notin Requests
ASSUME KeepAssumption == Keep \notin Statuses /\ Keep \notin Limits

Procs == Requests \cup {Sweeper}

(* validate_license rejects these three values and lets any other pass. *)
Blocking == {"suspended", "revoked", "expired"}

EditOps == {"update", "delete"}

Row == [status  : Statuses \cup {"active", "expired"},
        deleted : BOOLEAN,   \* is_deleted
        past    : BOOLEAN,   \* expires_at < now
        used    : Nat,       \* machines_used
        limit   : Nat]       \* machines_limit

NoRow == [status |-> "active", deleted |-> FALSE, past |-> FALSE,
          used |-> 0, limit |-> 0]

Edits == [status : Statuses \cup {Keep}, limit : Limits \cup {Keep}]
NoEdit == [status |-> Keep, limit |-> Keep]

(* What the validation cache holds for the licence's key.                  *)
(* `stale' and `overlapped' are history: an administrator's edit was       *)
(* committed since the cached row was read; the entry was stored while an  *)
(* edit was in flight, or after it.                                        *)
Entry == [live : BOOLEAN, age : 0 .. TTL + 1,
          stale : BOOLEAN, overlapped : BOOLEAN]
NoEntry == [live |-> FALSE, age |-> 0, stale |-> FALSE, overlapped |-> FALSE]

(* Where a request is: the await it is suspended at.  "lookup" and         *)
(* "machine" belong to the handlers of module Activation.                  *)
Pcs == {"idle", "load", "resolve", "answer", "find",
        "lookup", "machine", "write", "flushed"}

AllOps == {"none", "validate", "update", "delete", "expire",
           "activate", "deactivate", "heartbeat"}

Request == [pc : Pcs, op : AllOps, edit : Edits, snap : Row,
            stale : BOOLEAN, age : 0 .. MaxLatency]
Idle == [pc |-> "idle", op |-> "none", edit |-> NoEdit, snap |-> NoRow,
         stale |-> FALSE, age |-> 0]

VARIABLES
  lic,     \* the committed licence row
  cache,   \* the validation cache's entry for the licence
  req,     \* the open requests and the sweep
  since    \* history: ticks since the committed row was last valid

licVars == <<lic, cache, req, since>>

-----------------------------------------------------------------------------
Valid(row) == row.status \notin Blocking /\ ~row.deleted /\ ~row.past

(* `since' saturates here, one above the bound BoundedStaleness claims. *)
Horizon == TTL + 2 * MaxLatency + 1

LicInit ==
  /\ lic \in [status : {"active"}, deleted : {FALSE}, past : {FALSE},
              used : {0}, limit : Limits]
  /\ cache = NoEntry
  /\ req = [p \in Procs |-> Idle]
  /\ since = 0

Goto(p, pc) == req' = [req EXCEPT ![p].pc = pc]
Close(p) == req' = [req EXCEPT ![p] = Idle]
Open(p, pc, op, edit) ==
  /\ req[p].pc = "idle"
  /\ req' = [req EXCEPT ![p] = [Idle EXCEPT !.pc = pc, !.op = op, !.edit = edit]]

(* Mutant: TTLCache.get without the expiry check. *)
CachedForever == cache.live

(* TTLCache.get: an entry is served until its TTL has passed. *)
Cached == cache.live /\ cache.age <= TTL

-----------------------------------------------------------------------------
(* validate_license, called by a request whose operation is op             *)

Resume(op) == IF op = "validate" THEN "answer" ELSE "lookup"

(* The cached response is returned with no look at the database. *)
ValidateHit(p, op) ==
  /\ Cached
  /\ Open(p, Resume(op), op, NoEdit)
  /\ UNCHANGED <<lic, cache, since>>

(* A miss; TTLCache.get drops the entry whose time is over. *)
ValidateMiss(p, op) ==
  /\ ~Cached
  /\ Open(p, "load", op, NoEdit)
  /\ cache' = NoEntry
  /\ UNCHANGED <<lic, since>>

(* Mutant: the status and expiry checks are missing. *)
LoadUnchecked(p) ==
  /\ req[p].pc = "load"
  /\ req' = [req EXCEPT ![p].pc = "resolve", ![p].snap = lic]
  /\ UNCHANGED <<lic, cache, since>>

LoadValid(p) ==
  /\ req[p].pc = "load"
  /\ Valid(lic)
  /\ req' = [req EXCEPT ![p].pc = "resolve", ![p].snap = lic]
  /\ UNCHANGED <<lic, cache, since>>

LoadRefused(p) ==
  /\ req[p].pc = "load"
  /\ lic.deleted \/ lic.status \in Blocking
  /\ Close(p)
  /\ UNCHANGED <<lic, cache, since>>

(* Another session has flushed the row and not yet committed. *)
Writes(p) ==
  \/ req[p].op # "update"
  \/ req[p].edit.status \notin {Keep, req[p].snap.status}
  \/ req[p].edit.limit \notin {Keep, req[p].snap.limit}
Locked == \E q \in Procs : req[q].pc = "flushed" /\ Writes(q)

(* status = "expired" is flushed, then LicenseExpiredError rolls it back. *)
LoadPast(p) ==
  /\ req[p].pc = "load"
  /\ ~lic.deleted /\ lic.status \notin Blocking /\ lic.past
  /\ ~Locked
  /\ Close(p)
  /\ UNCHANGED <<lic, cache, since>>

EditInFlight == \E q \in Procs : req[q].pc = "flushed" /\ req[q].op \in EditOps

(* The response is built and cached before the session commits. *)
Fill(p) ==
  /\ req[p].pc = "resolve"
  /\ cache' = [live |-> TRUE, age |-> 0, stale |-> req[p].stale,
               overlapped |-> req[p].stale \/ EditInFlight]
  /\ Goto(p, Resume(req[p].op))
  /\ UNCHANGED <<lic, since>>

Answer(p) ==
  /\ req[p].pc = "answer"
  /\ Close(p)
  /\ UNCHANGED <<lic, cache, since>>

-----------------------------------------------------------------------------
(* update_license and soft_delete_license                                  *)

StartEdit(p, op, edit) ==
  /\ Open(p, "find", op, edit)
  /\ UNCHANGED <<lic, cache, since>>

FindEdited(p) ==
  /\ req[p].pc = "find"
  /\ IF lic.deleted
     THEN Close(p)
     ELSE req' = [req EXCEPT ![p].pc = "write", ![p].snap = lic]
  /\ UNCHANGED <<lic, cache, since>>

(* Mutant: the edit leaves the cached response alone. *)
WriteEditNoInvalidate(p) ==
  /\ req[p].pc = "write" /\ req[p].op \in EditOps
  /\ Writes(p) => ~Locked
  /\ Goto(p, "flushed")
  /\ UNCHANGED <<lic, cache, since>>

(* The flush, and right after it the invalidation of the cached response. *)
WriteEdit(p) ==
  /\ req[p].pc = "write" /\ req[p].op \in EditOps
  /\ Writes(p) => ~Locked
  /\ cache' = NoEntry
  /\ Goto(p, "flushed")
  /\ UNCHANGED <<lic, since>>

(* Mutant: the UPDATE writes every column back as it was loaded. *)
EditedWholeRow(new, old, current) == IF new = Keep THEN old ELSE new

(* The UPDATE names only the columns the session saw change. *)
EditedColumn(new, old, current) == IF new \in {Keep, old} THEN current ELSE new
Edited(p) ==
  LET e == req[p].edit  s == req[p].snap
  IN  IF req[p].op = "delete"
      THEN [lic EXCEPT !.deleted = TRUE]
      ELSE [lic EXCEPT !.status = EditedColumn(e.status, s.status, lic.status),
                       !.limit = EditedColumn(e.limit, s.limit, lic.limit)]

SinceAfter(row) == IF Valid(row) THEN 0 ELSE since

CommitEdit(p) ==
  /\ req[p].pc = "flushed" /\ req[p].op \in EditOps
  /\ lic' = Edited(p)
  /\ since' = SinceAfter(Edited(p))
  /\ cache' = [cache EXCEPT !.stale = cache.live]
  /\ req' = [q \in Procs |->
               IF q = p THEN Idle
               ELSE [req[q] EXCEPT !.stale = (req[q].pc = "resolve")]]

-----------------------------------------------------------------------------
(* LicenseExpirationProcessor.run_once; it leaves the cache alone          *)

(* Mutant: the date comparison is the wrong way round. *)
StartSweepReversed ==
  /\ req[Sweeper].pc = "idle"
  /\ lic.status = "active" /\ ~lic.deleted /\ ~lic.past
  /\ req' = [req EXCEPT ![Sweeper] =
               [Idle EXCEPT !.pc = "write", !.op = "expire", !.snap = lic]]
  /\ UNCHANGED <<lic, cache, since>>

StartSweep ==
  /\ req[Sweeper].pc = "idle"
  /\ lic.status = "active" /\ ~lic.deleted /\ lic.past
  /\ req' = [req EXCEPT ![Sweeper] =
               [Idle EXCEPT !.pc = "write", !.op = "expire", !.snap = lic]]
  /\ UNCHANGED <<lic, cache, since>>

WriteSweep ==
  /\ req[Sweeper].pc = "write"
  /\ ~Locked
  /\ Goto(Sweeper, "flushed")
  /\ UNCHANGED <<lic, cache, since>>

CommitSweep ==
  /\ req[Sweeper].pc = "flushed"
  /\ lic' = [lic EXCEPT !.status = "expired"]
  /\ Close(Sweeper)
  /\ UNCHANGED <<cache, since>>

-----------------------------------------------------------------------------
(* What befalls the process                                                *)

(* A database error, a lock timeout or a cancelled request: rollback. *)
Abort(p) ==
  /\ req[p].pc # "idle"
  /\ Close(p)
  /\ UNCHANGED <<lic, cache, since>>

(* The entry is the oldest of a full cache, or reset_all_caches runs. *)
Evict ==
  /\ cache.live
  /\ cache' = NoEntry
  /\ UNCHANGED <<lic, req, since>>

(* The process dies: sessions roll back, the caches are gone. *)
Restart ==
  /\ req' = [p \in Procs |-> Idle]
  /\ cache' = NoEntry
  /\ UNCHANGED <<lic, since>>

(* The clock passes expires_at. *)
Expire ==
  /\ ~lic.past
  /\ lic' = [lic EXCEPT !.past = TRUE]
  /\ UNCHANGED <<cache, req, since>>

Tick ==
  /\ \A p \in Procs : req[p].pc # "idle" => req[p].age < MaxLatency
  /\ req' = [p \in Procs |-> IF req[p].pc = "idle" THEN req[p]
                             ELSE [req[p] EXCEPT !.age = @ + 1]]
  /\ cache' = IF Cached THEN [cache EXCEPT !.age = @ + 1] ELSE cache
  /\ since' = IF Valid(lic) \/ since = Horizon THEN since ELSE since + 1
  /\ UNCHANGED lic

-----------------------------------------------------------------------------
LicStep(p) ==
  \/ LoadRefused(p) \/ LoadPast(p) \/ Fill(p) \/ Answer(p)
  \/ FindEdited(p) \/ WriteEdit(p) \/ CommitEdit(p)

StartLic(p) ==
  \/ "validate" \in Ops /\ (ValidateHit(p, "validate") \/ ValidateMiss(p, "validate"))
  \/ "update" \in Ops /\ \E e \in Edits \ {NoEdit} : StartEdit(p, "update", e)
  \/ "delete" \in Ops /\ StartEdit(p, "delete", NoEdit)

Sweep == StartSweep \/ WriteSweep \/ CommitSweep

LicNext ==
  \/ \E p \in Requests : StartLic(p) \/ LoadValid(p) \/ LicStep(p)
  \/ \E p \in Procs : Abort(p)
  \/ Sweep \/ Evict \/ Restart \/ Expire \/ Tick

LicSpec == LicInit /\ [][LicNext]_licVars

(* The sweep's loop never ends, a session that has flushed is committed or *)
(* rolled back in the end, and the database's lock is granted fairly.      *)
LicFairSpec ==
  /\ LicSpec
  /\ WF_licVars(StartSweep) /\ SF_licVars(WriteSweep) /\ WF_licVars(CommitSweep)
  /\ \A p \in Requests : WF_licVars(CommitEdit(p))

(* Type invariant of the licence row, the cache entry, the open requests   *)
(* and the staleness clock.                                                *)
LicTypeOK ==
  /\ lic \in Row
  /\ cache \in Entry
  /\ req \in [Procs -> Request]
  /\ since \in 0 .. Horizon

(* The requests whose caller has been told, or is about to be told, that   *)
(* the licence is valid: a validation ready to answer, an activation past  *)
(* its validate_license call.                                              *)
Approved(p) ==
  \/ req[p].pc = "answer"
  \/ req[p].op = "activate" /\ req[p].pc \in {"lookup", "machine", "write", "flushed"}

(* Whatever the interleaving, a request acts on an approval of             *)
(* validate_license only while the licence was valid in the database at    *)
(* some moment of the last TTL ticks, give or take the time two requests   *)
(* stay open: the one that filled the cache and the one that hit it.       *)
BoundedStaleness ==
  \A p \in Procs : Approved(p) => since <= TTL + 2 * MaxLatency

(* The invalidation of update_license and soft_delete_license runs before  *)
(* the commit; it still removes every response the edit outdates, except   *)
(* one stored by a validation that overlapped the edit.                    *)
StaleOnlyByOverlap == cache.live /\ cache.stale => cache.overlapped

(* A suspension survives concurrent edits of other columns: the status of  *)
(* a suspended licence changes only at the commit of an edit that asked    *)
(* for the new status, or of a sweep that had selected the licence.        *)
SuspensionSticks ==
  [][lic.status = "suspended" /\ lic'.status # "suspended" =>
       \E p \in Procs :
          /\ req[p].pc = "flushed" /\ req'[p].pc = "idle"
          /\ \/ req[p].op = "update" /\ req[p].edit.status = lic'.status
             \/ req[p].op = "expire" /\ lic.past]_licVars

(* A licence that is still active after its expiry date does not stay so:  *)
(* the sweep marks it expired, unless an edit or a deletion comes first,   *)
(* provided passes are not cut short for ever (database failures and       *)
(* crashes come to an end).                                                *)
SweepCutShort == Abort(Sweeper) \/ Restart

ExpiryIsRecorded ==
  <>[][~SweepCutShort]_licVars =>
    ((lic.status = "active" /\ lic.past /\ ~lic.deleted)
       ~> (lic.status # "active" \/ lic.deleted))

(* What the comment "Invalidate caches" of update_license and              *)
(* soft_delete_license promises: once the edit is committed no response    *)
(* computed from the row before it is left in the validation cache.        *)
NoStaleResponse == ~(cache.live /\ cache.age <= TTL /\ cache.stale)
=============================================================================
