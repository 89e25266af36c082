--------------------------- MODULE ActivationProofs ---------------------------
(***************************************************************************)
(* Proofs about modules Licensing and Activation.  Of a licence: types,    *)
(* the bound on how stale an approval of validate_license may be, what the *)
(* invalidation that runs before the commit still guarantees, and what     *)
(* ends a suspension.  Of its seats: types, the agreement of machines_used *)
(* with the machine rows and the seat limit for as long as no request has  *)
(* raced, the authority of an activation, and that rows and counter        *)
(* implement the ledger.                                                   *)
(*                                                                         *)
(* LicInv is inductive, and preserved action by action, each in a lemma of *)
(* its own, so that the licensing steps of Activation's next-state         *)
(* relation cite the same lemmas.  ActInv, inductive for Activation, adds  *)
(* what the session of each open request remembers of the seats, and for   *)
(* how long the memory is right.                                           *)
(***************************************************************************)
EXTENDS Activation, FiniteSetTheorems, TLAPS

-----------------------------------------------------------------------------
(* Licences                                                                *)

(* The clock `since' stands at zero while the licence is valid. *)
ClockInv == Valid(lic) => since = 0

(* Why BoundedStaleness holds.  The row a validation has just read was     *)
(* valid no longer ago than the request is old; a cached response no       *)
(* longer ago than its own age plus the life of the request that stored    *)
(* it; an approval adds the life of the request that acts on it.           *)
FreshInv ==
  /\ Cached => since <= cache.age + MaxLatency
  /\ \A p \in Procs :
       /\ req[p].pc = "resolve" => since <= req[p].age
       /\ Approved(p) => since <= TTL + MaxLatency + req[p].age
       /\ req[p].pc = "find" => req[p].op \in EditOps

(* Why StaleOnlyByOverlap holds: a flush empties the cache, so an entry    *)
(* that lives while an edit is in flight was stored after that flush.  The *)
(* sweep, which leaves the cache alone, is not an edit.                    *)
OverlapInv ==
  /\ StaleOnlyByOverlap
  /\ req[Sweeper].op \notin EditOps
  /\ cache.live /\ EditInFlight => cache.overlapped

LicInv == LicTypeOK /\ ClockInv /\ FreshInv /\ OverlapInv

-----------------------------------------------------------------------------
(* Facts about the constants and about the records the state is made of.   *)

LEMMA Constants ==
  /\ TTL \in Nat /\ MaxLatency \in Nat /\ Horizon \in Nat
  /\ Limits \subseteq Nat
  /\ Requests \subseteq Procs /\ Sweeper \in Procs \ Requests
BY TimeAssumption, LimitsAssumption, SweeperAssumption DEF Procs, Horizon

LEMMA Records ==
  /\ Idle \in Request /\ NoEntry \in Entry /\ NoEdit \in Edits /\ NoRow \in Row
BY Constants DEF Idle, Request, Pcs, AllOps, NoEdit, Edits, NoRow, Row, NoEntry, Entry

(* A request starts from the cached response. *)
LEMMA ValidateHitInv ==
  ASSUME LicInv, NEW p \in Requests, NEW op \in AllOps, ValidateHit(p, op)
  PROVE  LicInv'
<1> USE Constants, Records DEF LicInv
<1>1. LicTypeOK'
  <2>. DEFINE new == [Idle EXCEPT !.pc = Resume(op), !.op = op, !.edit = NoEdit]
  <2>1. new \in Request
    BY DEF Resume, Request, Pcs
  <2>2. req' = [req EXCEPT ![p] = new] /\ UNCHANGED <<lic, cache, since>>
    BY DEF ValidateHit, Open
  <2>. HIDE DEF new
  <2>. QED BY <2>1, <2>2 DEF LicTypeOK
<1>2. ClockInv'
  BY DEF ClockInv, ValidateHit
<1>3. FreshInv'
  BY DEF LicTypeOK, FreshInv, ValidateHit, Open, Resume, Cached, Request, Entry
<1>4. OverlapInv'
  BY DEF LicTypeOK, OverlapInv, StaleOnlyByOverlap, EditInFlight, ValidateHit, Open, Resume, Cached
<1>. QED BY <1>1, <1>2, <1>3, <1>4

(* A miss. *)
LEMMA ValidateMissInv ==
  ASSUME LicInv, NEW p \in Requests, NEW op \in AllOps, ValidateMiss(p, op)
  PROVE  LicInv'
<1> USE Constants, Records DEF LicInv
<1>1. LicTypeOK'
  <2>. DEFINE new == [Idle EXCEPT !.pc = "load", !.op = op, !.edit = NoEdit]
  <2>1. new \in Request
    BY DEF Request, Pcs
  <2>2. req' = [req EXCEPT ![p] = new] /\ UNCHANGED <<lic, since>> /\ cache' = NoEntry
    BY DEF ValidateMiss, Open
  <2>. HIDE DEF new
  <2>. QED BY <2>1, <2>2 DEF LicTypeOK
<1>2. ClockInv'
  BY DEF ClockInv, ValidateMiss
<1>3. FreshInv'
  BY DEF FreshInv, Approved, ValidateMiss, Open, NoEntry, Cached
<1>4. OverlapInv'
  BY DEF OverlapInv, StaleOnlyByOverlap, ValidateMiss, Open, NoEntry, Cached
<1>. QED BY <1>1, <1>2, <1>3, <1>4

(* validate_license reads a row it accepts. *)
LEMMA LoadValidInv ==
  ASSUME LicInv, NEW p \in Requests, LoadValid(p)
  PROVE  LicInv'
<1> USE Constants, Records DEF LicInv
<1>1. LicTypeOK'
  <2>1. [req[p] EXCEPT !.pc = "resolve", !.snap = lic] \in Request
    BY DEF LicTypeOK, Request, Pcs
  <2>2. /\ req' = [req EXCEPT ![p] = [req[p] EXCEPT !.pc = "resolve", !.snap = lic]]
        /\ UNCHANGED <<lic, cache, since>>
    BY DEF LicTypeOK, LoadValid
  <2>. QED BY <2>1, <2>2 DEF LicTypeOK
<1>2. ClockInv'
  BY DEF ClockInv, LoadValid
<1>3. FreshInv'
  BY DEF LicTypeOK, ClockInv, FreshInv, LoadValid, Cached, Request
<1>4. OverlapInv'
  BY DEF LicTypeOK, OverlapInv, StaleOnlyByOverlap, EditInFlight, LoadValid, Cached
<1>. QED BY <1>1, <1>2, <1>3, <1>4

(* validate_license caches its response. *)
LEMMA FillInv ==
  ASSUME LicInv, NEW p \in Requests, Fill(p)
  PROVE  LicInv'
<1> USE Constants, Records DEF LicInv
<1>1. LicTypeOK'
  BY DEF LicTypeOK, Fill, Goto, Resume, Request, Pcs, Entry
<1>2. ClockInv'
  BY DEF LicTypeOK, ClockInv, Fill, Goto, Resume
<1>3. FreshInv'
  BY DEF LicTypeOK, FreshInv, Fill, Goto, Resume, Request
<1>4. OverlapInv'
  <2>. /\ req \in [Procs -> Request] /\ UNCHANGED <<lic, since>>
       /\ req' = [req EXCEPT ![p].pc = Resume(req[p].op)]
       /\ cache'.stale = req[p].stale
       /\ cache'.overlapped = (req[p].stale \/ EditInFlight)
    BY DEF LicTypeOK, Fill, Goto
  <2>1. EditInFlight' => EditInFlight
    BY DEF EditInFlight, Resume
  <2>2. (req[Sweeper].op)' = req[Sweeper].op
    BY DEF Request
  <2>. QED BY <2>1, <2>2 DEF OverlapInv, StaleOnlyByOverlap
<1>. QED BY <1>1, <1>2, <1>3, <1>4

(* A request ends and leaves nothing behind: a refusal, an answer, a rollback. *)
LEMMA CloseInv ==
  ASSUME LicInv, NEW p \in Procs, Close(p), UNCHANGED <<lic, cache, since>>
  PROVE  LicInv'
<1> USE Constants, Records DEF LicInv
<1>1. LicTypeOK'
  BY DEF LicTypeOK, Close
<1>2. ClockInv'
  BY DEF LicTypeOK, ClockInv, Close
<1>3. FreshInv'
  BY DEF FreshInv, Approved, Close, Cached, Idle
<1>4. OverlapInv'
  BY DEF OverlapInv, StaleOnlyByOverlap, EditInFlight, Close, Cached, EditOps, Idle
<1>. QED BY <1>1, <1>2, <1>3, <1>4

(* update_license or soft_delete_license begins. *)
LEMMA StartEditInv ==
  ASSUME LicInv, NEW p \in Requests, NEW op \in EditOps, NEW e \in Edits, StartEdit(p, op, e)
  PROVE  LicInv'
<1> USE Constants, Records DEF LicInv
<1>1. LicTypeOK'
  <2>. DEFINE new == [Idle EXCEPT !.pc = "find", !.op = op, !.edit = e]
  <2>1. new \in Request
    BY DEF EditOps, Request, Pcs, AllOps
  <2>2. req' = [req EXCEPT ![p] = new] /\ UNCHANGED <<lic, cache, since>>
    BY DEF StartEdit, Open
  <2>. HIDE DEF new
  <2>. QED BY <2>1, <2>2 DEF LicTypeOK
<1>2. ClockInv'
  BY DEF ClockInv, StartEdit
<1>3. FreshInv'
  BY DEF FreshInv, Approved, StartEdit, Open, Cached
<1>4. OverlapInv'
  BY DEF OverlapInv, StaleOnlyByOverlap, EditInFlight, StartEdit, Open, Cached
<1>. QED BY <1>1, <1>2, <1>3, <1>4

(* get_license_by_id of an edit. *)
LEMMA FindEditedInv ==
  ASSUME LicInv, NEW p \in Requests, FindEdited(p)
  PROVE  LicInv'
<1> USE Constants, Records DEF LicInv
<1>1. LicTypeOK'
  <2>1. CASE lic.deleted
    BY <2>1 DEF LicTypeOK, FindEdited, Close
  <2>2. CASE ~lic.deleted
    <3>1. [req[p] EXCEPT !.pc = "write", !.snap = lic] \in Request
      BY DEF LicTypeOK, Request, Pcs
    <3>2. req' = [req EXCEPT ![p] = [req[p] EXCEPT !.pc = "write", !.snap = lic]]
      BY <2>2 DEF LicTypeOK, FindEdited
    <3>. QED BY <3>1, <3>2 DEF LicTypeOK, FindEdited
  <2>. QED BY <2>1, <2>2
<1>2. ClockInv'
  BY DEF ClockInv, FindEdited
<1>3. FreshInv'
  BY DEF LicTypeOK, FreshInv, Approved, FindEdited, Close, Cached, EditOps, Idle, Request
<1>4. OverlapInv'
  <2>1. \A q \in Procs : req'[q].pc = "flushed" => req'[q] = req[q]
    BY DEF LicTypeOK, FindEdited, Close, Idle, Request
  <2>2. EditInFlight' => EditInFlight
    BY <2>1 DEF EditInFlight
  <2>3. req'[Sweeper] = req[Sweeper]
    BY DEF LicTypeOK, FindEdited, Close
  <2>. QED BY <2>2, <2>3 DEF OverlapInv, StaleOnlyByOverlap, FindEdited
<1>. QED BY <1>1, <1>2, <1>3, <1>4

(* The flush of an edit and its invalidation. *)
LEMMA WriteEditInv ==
  ASSUME LicInv, NEW p \in Requests, WriteEdit(p)
  PROVE  LicInv'
<1> USE Constants, Records DEF LicInv
<1>1. LicTypeOK'
  BY DEF LicTypeOK, WriteEdit, Goto, Idle, Request, Pcs
<1>2. ClockInv'
  BY DEF LicTypeOK, ClockInv, WriteEdit, Goto, Idle
<1>3. FreshInv'
  BY DEF FreshInv, Approved, WriteEdit, Goto, NoEntry, Cached
<1>4. OverlapInv'
  BY DEF OverlapInv, StaleOnlyByOverlap, WriteEdit, Goto, NoEntry, Cached
<1>. QED BY <1>1, <1>2, <1>3, <1>4

(* The commit of an edit. *)
LEMMA CommitEditInv ==
  ASSUME LicInv, NEW p \in Requests, CommitEdit(p)
  PROVE  LicInv'
<1> USE Constants, Records DEF LicInv
<1>1. LicTypeOK'
  <2>1. Edited(p) \in Row
    BY DEF LicTypeOK, Edited, EditedColumn, Row, Request, Edits
  <2>2. SinceAfter(Edited(p)) \in 0 .. Horizon
    BY DEF LicTypeOK, SinceAfter
  <2>3. [cache EXCEPT !.stale = cache.live] \in Entry
    BY DEF LicTypeOK, Entry
  <2>4. \A q \in Procs : [req[q] EXCEPT !.stale = (req[q].pc = "resolve")] \in Request
    BY DEF LicTypeOK, Request
  <2>5. req' \in [Procs -> Request]
    BY <2>4 DEF CommitEdit
  <2>. QED BY <2>1, <2>2, <2>3, <2>5 DEF LicTypeOK, CommitEdit
<1>2. ClockInv'
  BY DEF ClockInv, CommitEdit, Edited, EditedColumn, SinceAfter
<1>3. FreshInv'
  BY DEF LicTypeOK, FreshInv, Approved, CommitEdit, Edited, EditedColumn, SinceAfter, Cached, Idle, Request, Entry
<1>4. OverlapInv'
  BY DEF LicTypeOK, OverlapInv, StaleOnlyByOverlap, EditInFlight, CommitEdit, Edited, EditedColumn, SinceAfter, Cached, Idle
<1>. QED BY <1>1, <1>2, <1>3, <1>4

(* The expiration pass selects the licence. *)
LEMMA StartSweepInv ==
  ASSUME LicInv, StartSweep
  PROVE  LicInv'
<1> USE Constants, Records DEF LicInv
<1>1. LicTypeOK'
  BY DEF LicTypeOK, StartSweep, Request, Pcs, AllOps
<1>2. ClockInv'
  BY DEF LicTypeOK, ClockInv, StartSweep
<1>3. FreshInv'
  BY DEF FreshInv, Approved, StartSweep, Cached
<1>4. OverlapInv'
  BY DEF OverlapInv, StaleOnlyByOverlap, EditInFlight, StartSweep, Cached, EditOps
<1>. QED BY <1>1, <1>2, <1>3, <1>4

(* The expiration pass flushes. *)
LEMMA WriteSweepInv ==
  ASSUME LicInv, WriteSweep
  PROVE  LicInv'
<1> USE Constants, Records DEF LicInv
<1>1. LicTypeOK'
  BY DEF LicTypeOK, WriteSweep, Goto, Idle, Request, Pcs
<1>2. ClockInv'
  BY DEF LicTypeOK, ClockInv, WriteSweep, Goto, Idle
<1>3. FreshInv'
  BY DEF FreshInv, Approved, WriteSweep, Goto, Cached
<1>4. OverlapInv'
  BY DEF OverlapInv, StaleOnlyByOverlap, EditInFlight, WriteSweep, Goto, Cached
<1>. QED BY <1>1, <1>2, <1>3, <1>4

(* The expiration pass commits. *)
LEMMA CommitSweepInv ==
  ASSUME LicInv, CommitSweep
  PROVE  LicInv'
<1> USE Constants, Records DEF LicInv
<1>1. LicTypeOK'
  BY DEF LicTypeOK, CommitSweep, Close, Row
<1>2. ClockInv'
  BY DEF LicTypeOK, ClockInv, CommitSweep, Close, Blocking, Valid
<1>3. FreshInv'
  BY DEF FreshInv, Approved, CommitSweep, Close, Blocking, Cached, Valid, Idle
<1>4. OverlapInv'
  BY DEF OverlapInv, StaleOnlyByOverlap, EditInFlight, CommitSweep, Close, Cached, EditOps, Idle
<1>. QED BY <1>1, <1>2, <1>3, <1>4

(* The cache drops its entry. *)
LEMMA EvictInv ==
  ASSUME LicInv, Evict
  PROVE  LicInv'
<1> USE Constants, Records DEF LicInv
<1>1. LicTypeOK'
  BY DEF LicTypeOK, Evict
<1>2. ClockInv'
  BY DEF LicTypeOK, ClockInv, Evict
<1>3. FreshInv'
  BY DEF FreshInv, Approved, Evict, NoEntry, Cached
<1>4. OverlapInv'
  BY DEF OverlapInv, StaleOnlyByOverlap, Evict, NoEntry, Cached
<1>. QED BY <1>1, <1>2, <1>3, <1>4

(* The process restarts. *)
LEMMA RestartInv ==
  ASSUME LicInv, Restart
  PROVE  LicInv'
<1> USE Constants, Records DEF LicInv
<1>1. LicTypeOK'
  BY DEF LicTypeOK, Restart
<1>2. ClockInv'
  BY DEF LicTypeOK, ClockInv, Restart
<1>3. FreshInv'
  BY DEF FreshInv, Approved, Restart, NoEntry, Cached, Idle
<1>4. OverlapInv'
  BY DEF OverlapInv, StaleOnlyByOverlap, Restart, NoEntry, Cached, EditOps, Idle
<1>. QED BY <1>1, <1>2, <1>3, <1>4

(* The licence passes its expiry date. *)
LEMMA ExpireInv ==
  ASSUME LicInv, Expire
  PROVE  LicInv'
<1> USE Constants, Records DEF LicInv
<1>1. LicTypeOK'
  BY DEF LicTypeOK, Expire, Row
<1>2. ClockInv'
  BY DEF LicTypeOK, ClockInv, Expire, Valid
<1>3. FreshInv'
  BY DEF FreshInv, Approved, Expire, Cached, Valid
<1>4. OverlapInv'
  BY DEF OverlapInv, StaleOnlyByOverlap, EditInFlight, Expire, Cached
<1>. QED BY <1>1, <1>2, <1>3, <1>4

(* Time passes. *)
LEMMA TickInv ==
  ASSUME LicInv, Tick
  PROVE  LicInv'
<1> USE Constants, Records DEF LicInv
<1>1. LicTypeOK'
  <2>1. \A p \in Procs : req'[p] \in Request
    <3>. TAKE p \in Procs
    <3>1. req[p] \in Request /\ req[p].age \in 0 .. MaxLatency
      BY DEF LicTypeOK, Request
    <3>2. CASE req[p].pc = "idle"
      BY <3>1, <3>2 DEF Tick
    <3>3. CASE req[p].pc # "idle"
      <4>1. req'[p] = [req[p] EXCEPT !.age = @ + 1] /\ req[p].age + 1 \in 0 .. MaxLatency
        BY <3>1, <3>3 DEF Tick
      <4>. QED BY <3>1, <4>1 DEF Request
    <3>. QED BY <3>2, <3>3
  <2>2. req' \in [Procs -> Request]
    BY <2>1 DEF Tick
  <2>3. cache' \in Entry
    BY DEF LicTypeOK, Tick, Cached, Entry
  <2>4. since' \in 0 .. Horizon
    BY DEF LicTypeOK, Tick
  <2>. QED BY <2>2, <2>3, <2>4 DEF LicTypeOK, Tick
<1>2. ClockInv'
  BY DEF LicTypeOK, ClockInv, Tick
<1>3. FreshInv'
  BY DEF LicTypeOK, FreshInv, Approved, Tick, Cached, Request, Entry
<1>4. OverlapInv'
  BY DEF LicTypeOK, OverlapInv, StaleOnlyByOverlap, EditInFlight, Tick, Cached
<1>. QED BY <1>1, <1>2, <1>3, <1>4

(* The initial state satisfies the invariant. *)
LEMMA InitInv == LicInit => LicInv
<1> USE Constants, Records
<1>. SUFFICES ASSUME LicInit PROVE LicInv
  OBVIOUS
<1>1. LicTypeOK
  <2>1. lic \in Row
    <3>1. lic \in [status : {"active"}, deleted : {FALSE}, past : {FALSE},
                 used : {0}, limit : Limits]
      BY DEF LicInit
    <3>2. {"active"} \subseteq Statuses \cup {"active", "expired"} /\ {0} \subseteq Nat
      OBVIOUS
    <3>. QED BY <3>1, <3>2 DEF Row
  <2>2. req \in [Procs -> Request]
    BY DEF LicInit
  <2>3. since \in 0 .. Horizon
    BY DEF LicInit
  <2>. QED BY <2>1, <2>2, <2>3 DEF LicInit, LicTypeOK
<1>2. ClockInv /\ FreshInv
  BY DEF LicInit, ClockInv, FreshInv, NoEntry, Idle
<1>3. OverlapInv
  BY DEF LicInit, OverlapInv, StaleOnlyByOverlap, EditOps, NoEntry, Idle
<1>. QED BY <1>1, <1>2, <1>3 DEF LicInv

(* A step that changes nothing preserves the invariant. *)
LEMMA StutterInv == LicInv /\ UNCHANGED licVars => LicInv'
BY DEF licVars, LicInv, LicTypeOK, ClockInv, FreshInv, OverlapInv, Approved,
       Cached, StaleOnlyByOverlap, EditInFlight

(* Every licensing step of an open request preserves the invariant. *)
LEMMA LicStepInv ==
  ASSUME LicInv, NEW p \in Requests, LicStep(p)
  PROVE  LicInv'
<1>1. CASE LoadRefused(p) \/ LoadPast(p) \/ Answer(p)
  <2>. Close(p) /\ UNCHANGED <<lic, cache, since>>
    BY <1>1 DEF LoadRefused, LoadPast, Answer
  <2>. QED BY CloseInv, Constants
<1>2. CASE Fill(p)
  BY <1>2, FillInv
<1>3. CASE FindEdited(p)
  BY <1>3, FindEditedInv
<1>4. CASE WriteEdit(p)
  BY <1>4, WriteEditInv
<1>5. CASE CommitEdit(p)
  BY <1>5, CommitEditInv
<1>. QED BY <1>1, <1>2, <1>3, <1>4, <1>5 DEF LicStep

(* Every first step of a licensing request preserves the invariant. *)
LEMMA StartLicInv ==
  ASSUME LicInv, NEW p \in Requests, StartLic(p)
  PROVE  LicInv'
<1>. /\ "validate" \in AllOps /\ {"update", "delete"} \subseteq EditOps
     /\ NoEdit \in Edits
  BY Records DEF AllOps, EditOps
<1>1. CASE ValidateHit(p, "validate")
  BY <1>1, ValidateHitInv
<1>2. CASE ValidateMiss(p, "validate")
  BY <1>2, ValidateMissInv
<1>3. CASE \E e \in Edits \ {NoEdit} : StartEdit(p, "update", e)
  BY <1>3, StartEditInv
<1>4. CASE StartEdit(p, "delete", NoEdit)
  BY <1>4, StartEditInv
<1>. QED BY <1>1, <1>2, <1>3, <1>4 DEF StartLic

(* What the other actors and the environment do preserves the invariant. *)
LEMMA BackgroundInv ==
  ASSUME LicInv,
         \/ \E p \in Procs : Abort(p)
         \/ Sweep \/ Evict \/ Restart \/ Expire \/ Tick
  PROVE  LicInv'
<1>1. ASSUME NEW p \in Procs, Abort(p) PROVE LicInv'
  BY <1>1, CloseInv DEF Abort
<1>2. CASE Sweep
  BY <1>2, StartSweepInv, WriteSweepInv, CommitSweepInv DEF Sweep
<1>3. CASE Evict
  BY <1>3, EvictInv
<1>4. CASE Restart
  BY <1>4, RestartInv
<1>5. CASE Expire
  BY <1>5, ExpireInv
<1>6. CASE Tick
  BY <1>6, TickInv
<1>. QED BY <1>1, <1>2, <1>3, <1>4, <1>5, <1>6

-----------------------------------------------------------------------------
(* The inductive invariant holds throughout. *)
THEOREM LicInvariant == LicSpec => []LicInv
<1>1. LicInit => LicInv
  BY InitInv
<1>2. LicInv /\ [LicNext]_licVars => LicInv'
  <2>. SUFFICES ASSUME LicInv, [LicNext]_licVars PROVE LicInv'
    OBVIOUS
  <2>1. ASSUME NEW p \in Requests, StartLic(p) \/ LoadValid(p) \/ LicStep(p)
        PROVE  LicInv'
    BY <2>1, StartLicInv, LoadValidInv, LicStepInv
  <2>2. ASSUME \/ \E p \in Procs : Abort(p)
               \/ Sweep \/ Evict \/ Restart \/ Expire \/ Tick
        PROVE  LicInv'
    BY <2>2, BackgroundInv
  <2>3. CASE UNCHANGED licVars
    BY <2>3, StutterInv
  <2>. QED BY <2>1, <2>2, <2>3 DEF LicNext
<1>. QED BY <1>1, <1>2, PTL DEF LicSpec

(* Every variable keeps its type. *)
THEOREM LicTypeCorrect == LicSpec => []LicTypeOK
<1>. LicInv => LicTypeOK
  BY DEF LicInv
<1>. QED BY LicInvariant, PTL

(* No interleaving of validations, edits, sweeps, evictions and crashes    *)
(* lets a request act on an approval older than the bound, whatever the    *)
(* TTL, the latency and the number of requests.                            *)
THEOREM StalenessIsBounded == LicSpec => []BoundedStaleness
<1>. LicInv => BoundedStaleness
  BY Constants DEF LicInv, LicTypeOK, FreshInv, BoundedStaleness, Request
<1>. QED BY LicInvariant, PTL

(* The only outdated responses the invalidation leaves behind are those    *)
(* stored by a validation that overlapped the edit.                        *)
THEOREM OnlyOverlapLeavesStale == LicSpec => []StaleOnlyByOverlap
<1>. LicInv => StaleOnlyByOverlap
  BY DEF LicInv, OverlapInv
<1>. QED BY LicInvariant, PTL

-----------------------------------------------------------------------------
(* What an open pass of the sweep remembers: it selected the licence after *)
(* its expiry, and no edit brings expires_at back.                         *)
SweepInv == req[Sweeper].pc # "idle" => req[Sweeper].op = "expire" /\ lic.past

(* A step that opens or moves a request leaves the sweep's session alone.  *)
LEMMA RequestsLeaveTheSweep ==
  ASSUME LicInv, SweepInv, NEW p \in Requests,
         StartLic(p) \/ LoadValid(p) \/ LicStep(p)
  PROVE  SweepInv'
<1>. USE Constants DEF SweepInv
<1>. req \in [Procs -> Request] /\ p # Sweeper
  BY DEF LicInv, LicTypeOK
<1>1. CASE CommitEdit(p)
  <2>1. lic'.past = lic.past
    BY <1>1 DEF LicInv, LicTypeOK, Row, CommitEdit, Edited
  <2>2. req'[Sweeper] = [req[Sweeper] EXCEPT !.stale = (req[Sweeper].pc = "resolve")]
    BY <1>1 DEF CommitEdit
  <2>. QED BY <2>1, <2>2 DEF Request
<1>2. CASE ~CommitEdit(p)
  <2>. req'[Sweeper] = req[Sweeper] /\ lic' = lic
    BY <1>2 DEF StartLic, LoadValid, LicStep, ValidateHit, ValidateMiss, StartEdit,
                Open, LoadRefused, LoadPast, Fill, Answer, FindEdited, WriteEdit, Goto, Close
  <2>. QED OBVIOUS
<1>. QED BY <1>1, <1>2

(* The sweep, the clock and what ends a session preserve it. *)
LEMMA BackgroundSweepInv ==
  ASSUME LicInv, SweepInv,
         \/ \E p \in Procs : Abort(p)
         \/ Sweep \/ Evict \/ Restart \/ Expire \/ Tick
  PROVE  SweepInv'
<1>. USE Constants DEF SweepInv
<1>. req \in [Procs -> Request] /\ lic \in Row
  BY DEF LicInv, LicTypeOK
<1>1. ASSUME NEW p \in Procs, Abort(p) PROVE SweepInv'
  BY <1>1 DEF Abort, Close, Idle
<1>2. CASE Sweep
  <2>1. CASE StartSweep
    BY <2>1 DEF StartSweep, Idle
  <2>2. CASE WriteSweep
    <3>1. req'[Sweeper].op = req[Sweeper].op /\ lic' = lic
      BY <2>2 DEF WriteSweep, Goto, Request
    <3>. QED BY <2>2, <3>1 DEF WriteSweep
  <2>3. CASE CommitSweep
    BY <2>3 DEF CommitSweep, Close, Idle
  <2>. QED BY <1>2, <2>1, <2>2, <2>3 DEF Sweep
<1>3. CASE Evict \/ Restart
  BY <1>3 DEF Evict, Restart, Idle
<1>4. CASE Expire
  BY <1>4 DEF Expire, Row
<1>5. CASE Tick
  BY <1>5 DEF Tick, Request
<1>. QED BY <1>1, <1>2, <1>3, <1>4, <1>5

(* An edit that changes the status of a suspended licence asked for the    *)
(* new status: a column the session did not see change is not written.     *)
LEMMA EditOfSuspended ==
  ASSUME LicInv, NEW p \in Requests, CommitEdit(p),
         lic.status = "suspended", lic'.status # "suspended"
  PROVE  /\ req[p].pc = "flushed" /\ req'[p].pc = "idle"
         /\ req[p].op = "update" /\ req[p].edit.status = lic'.status
<1>. USE Constants
<1>1. req \in [Procs -> Request] /\ lic \in Row
  BY DEF LicInv, LicTypeOK
<1>2. req[p].pc = "flushed" /\ req[p].op \in EditOps /\ lic' = Edited(p)
  BY DEF CommitEdit
<1>3. req'[p].pc = "idle"
  BY DEF CommitEdit, Idle
<1>4. req[p].op = "update"
  BY <1>1, <1>2 DEF Edited, Row, EditOps
<1>5. req[p].edit.status = lic'.status
  BY <1>1, <1>2, <1>4 DEF Edited, EditedColumn, Row
<1>. QED BY <1>2, <1>3, <1>4, <1>5

(* No step that is neither such a commit nor the sweep's writes a status.  *)
LEMMA StatusKept ==
  ASSUME LicInv, [LicNext]_licVars, ~CommitSweep, \A p \in Requests : ~CommitEdit(p)
  PROVE  lic'.status = lic.status
<1>. lic \in Row
  BY DEF LicInv, LicTypeOK
<1>1. CASE Expire
  BY <1>1 DEF Expire, Row
<1>2. CASE ~Expire
  <2>. lic' = lic
    BY <1>2 DEF LicNext, licVars, StartLic, LoadValid, LicStep, ValidateHit,
                ValidateMiss, StartEdit, LoadRefused, LoadPast, Fill, Answer,
                FindEdited, WriteEdit, Abort, Sweep, StartSweep, WriteSweep, Evict,
                Restart, Tick
  <2>. QED OBVIOUS
<1>. QED BY <1>1, <1>2

(* For every number of requests and every interleaving, only an edit that  *)
(* asks for another status, or the sweep over its old selection, ends a    *)
(* suspension.                                                             *)
THEOREM SuspensionIsKept == LicSpec => SuspensionSticks
<1>1. LicInit => SweepInv
  BY Constants DEF LicInit, SweepInv, Idle
<1>2. LicInv /\ SweepInv /\ [LicNext]_licVars => SweepInv'
  <2>1. LicInv /\ SweepInv /\ UNCHANGED licVars => SweepInv'
    BY DEF SweepInv, licVars
  <2>. QED BY <2>1, RequestsLeaveTheSweep, BackgroundSweepInv DEF LicNext
<1>. DEFINE Sticks ==
       lic.status = "suspended" /\ lic'.status # "suspended" =>
         \E p \in Procs :
            /\ req[p].pc = "flushed" /\ req'[p].pc = "idle"
            /\ \/ req[p].op = "update" /\ req[p].edit.status = lic'.status
               \/ req[p].op = "expire" /\ lic.past
<1>3. LicInv /\ SweepInv /\ [LicNext]_licVars => Sticks
  <2>. SUFFICES ASSUME LicInv, SweepInv, [LicNext]_licVars,
                       lic.status = "suspended", lic'.status # "suspended"
                PROVE  Sticks
    OBVIOUS
  <2>1. ASSUME NEW p \in Requests, CommitEdit(p) PROVE Sticks
    BY <2>1, EditOfSuspended, Constants
  <2>2. CASE CommitSweep
    <3>. req \in [Procs -> Request]
      BY DEF LicInv, LicTypeOK
    <3>. QED BY <2>2, Constants DEF CommitSweep, SweepInv, Close, Idle
  <2>. QED BY <2>1, <2>2, StatusKept
<1>4. LicSpec => []SweepInv
  BY <1>1, <1>2, LicInvariant, PTL DEF LicSpec
<1>. QED BY <1>3, <1>4, LicInvariant, PTL DEF LicSpec, SuspensionSticks

-----------------------------------------------------------------------------
(* Seats                                                                   *)

Writing(p) == req[p].pc \in {"write", "flushed"} /\ req[p].op \in SeatOps

(* The order of a seat request's steps: a session that is at the machines  *)
(* table has loaded the licence, and only an activation writes without     *)
(* having found its machine.                                               *)
CallOK(p) ==
  /\ req[p].pc \in {"idle", "find"} => ~act[p].loaded /\ req[p].op \notin SeatOps
  /\ req[p].op \in SeatOps => \E fp \in Fingerprints : act[p].fp = {fp}
  /\ req[p].pc = "machine" \/ Writing(p) => act[p].loaded
  /\ Writing(p) => act[p].found \/ req[p].op = "activate"

(* Until another request commits a seat change, the session's memory of    *)
(* the counter and of the machine's row is right.                          *)
MemoryOK(p) ==
  act[p].loaded /\ ~act[p].superseded =>
    /\ req[p].snap.used = lic.used
    /\ Writing(p) => (act[p].found <=> act[p].fp \subseteq machines)

(* An activation that adds a row has seen a seat left. *)
RoomOK(p) ==
  /\ act[p].loaded => req[p].snap.limit <= MaxLimit
  /\ Writing(p) /\ Activates(p) => req[p].snap.used < MaxLimit

ProcInv(p) == CallOK(p) /\ MemoryOK(p) /\ RoomOK(p)

SeatInv ==
  /\ TypeOK
  /\ lic.limit <= MaxLimit
  /\ \A p \in Procs : ProcInv(p)
  /\ CounterExactUnlessRaced
  /\ SeatLimitUnlessRaced

ActInv == LicInv /\ SeatInv

-----------------------------------------------------------------------------
(* What a step does to a process it is not a seat step of: it ends the     *)
(* request, opens one that is none of this module's, or leaves what the    *)
(* session remembers as it is.                                             *)
Quiet(q) ==
  \/ req'[q].pc = "idle" /\ req'[q].op \notin SeatOps /\ ~act'[q].loaded
  \/ ~act[q].loaded /\ act'[q] = act[q]
     /\ req'[q].op \notin SeatOps /\ req'[q].pc \notin {"idle", "machine"}
  \/ /\ act'[q] = act[q] /\ req'[q].pc \notin {"idle", "find"}
     /\ req'[q].op = req[q].op /\ req'[q].snap = req[q].snap
     /\ req'[q].pc = "machine" => req[q].pc = "machine"
     /\ Writing(q)' => Writing(q)

LEMMA QuietProc ==
  ASSUME NEW q \in Procs, ProcInv(q), Quiet(q),
         machines' = machines, lic'.used = lic.used
  PROVE  ProcInv(q)'
<1>1. CASE req'[q].pc = "idle" /\ req'[q].op \notin SeatOps /\ ~act'[q].loaded
  BY <1>1 DEF ProcInv, CallOK, MemoryOK, RoomOK, Writing, SeatOps, NoCall
<1>2. CASE /\ ~act[q].loaded /\ act'[q] = act[q]
           /\ req'[q].op \notin SeatOps /\ req'[q].pc \notin {"idle", "machine"}
  BY <1>2 DEF ProcInv, CallOK, MemoryOK, RoomOK, Writing
<1>3. CASE /\ act'[q] = act[q] /\ req'[q].pc \notin {"idle", "find"}
           /\ req'[q].op = req[q].op /\ req'[q].snap = req[q].snap
           /\ req'[q].pc = "machine" => req[q].pc = "machine"
           /\ Writing(q)' => Writing(q)
  BY <1>3 DEF ProcInv, CallOK, MemoryOK, RoomOK, Activates
<1>. QED BY <1>1, <1>2, <1>3 DEF Quiet

(* A process whose session goes on unchanged, or has just been closed.     *)
LEMMA SameIsQuiet ==
  ASSUME NEW q \in Procs, ProcInv(q),
         \/ req'[q] = Idle /\ act'[q] = NoCall
         \/ /\ req'[q].pc = req[q].pc /\ req'[q].op = req[q].op
            /\ req'[q].snap = req[q].snap
            /\ act'[q] = act[q] \/ (req'[q].pc = "idle" /\ act'[q] = NoCall)
  PROVE  Quiet(q)
<1>1. CASE req'[q] = Idle /\ act'[q] = NoCall
  BY <1>1 DEF Quiet, Idle, NoCall, SeatOps
<1>2. CASE /\ req'[q].pc = req[q].pc /\ req'[q].op = req[q].op
           /\ req'[q].snap = req[q].snap
           /\ act'[q] = act[q] \/ (req'[q].pc = "idle" /\ act'[q] = NoCall)
  <2>1. CASE req[q].pc = "idle"
    BY <1>2, <2>1 DEF Quiet, ProcInv, CallOK, NoCall
  <2>2. CASE req[q].pc = "find"
    BY <1>2, <2>2 DEF Quiet, ProcInv, CallOK
  <2>3. CASE req[q].pc \notin {"idle", "find"}
    BY <1>2, <2>3 DEF Quiet, Writing
  <2>. QED BY <2>1, <2>2, <2>3
<1>. QED BY <1>1, <1>2

(* A licensing step that touches the request of p alone. *)
LEMMA OneIsQuiet ==
  ASSUME ActInv, ForgetClosed, NEW p \in Procs, NEW r, req' = [req EXCEPT ![p] = r],
         act'[p] = (IF r.pc = "idle" THEN NoCall ELSE act[p]) => Quiet(p)
  PROVE  \A q \in Procs : Quiet(q)
<1>. SUFFICES ASSUME NEW q \in Procs PROVE Quiet(q)
  OBVIOUS
<1>1. req \in [Procs -> Request] /\ ProcInv(q)
  BY DEF ActInv, LicInv, LicTypeOK, SeatInv
<1>2. act'[q] = IF req'[q].pc = "idle" THEN NoCall ELSE act[q]
  BY DEF ForgetClosed
<1>3. CASE q = p
  BY <1>1, <1>2, <1>3
<1>4. CASE q # p
  <2>. req'[q] = req[q]
    BY <1>1, <1>4
  <2>. QED BY <1>1, <1>2, SameIsQuiet
<1>. QED BY <1>3, <1>4

(* A request that ends forgets its seat part. *)
LEMMA CloseIsQuiet ==
  ASSUME ActInv, ForgetClosed, NEW p \in Procs, Close(p)
  PROVE  \A q \in Procs : Quiet(q)
<1>1. act'[p] = (IF Idle.pc = "idle" THEN NoCall ELSE act[p]) => Quiet(p)
  <2>. req'[p] = Idle
    BY DEF Close, ActInv, LicInv, LicTypeOK
  <2>. QED BY DEF Quiet, Idle, NoCall, SeatOps
<1>. QED BY <1>1, OneIsQuiet DEF Close

(* The first step of a licensing request. *)
LEMMA StartLicQuiet ==
  ASSUME ActInv, ForgetClosed, NEW p \in Requests, StartLic(p)
  PROVE  \A q \in Procs : Quiet(q)
<1>1. PICK pc \in {"answer", "load", "find"}, op \in {"validate", "update", "delete"},
          e \in Edits : Open(p, pc, op, e)
  BY Records DEF StartLic, ValidateHit, ValidateMiss, StartEdit, Resume
<1>. DEFINE new == [Idle EXCEPT !.pc = pc, !.op = op, !.edit = e]
<1>2. p \in Procs /\ ProcInv(p) /\ req \in [Procs -> Request]
  BY Constants DEF ActInv, SeatInv, LicInv, LicTypeOK
<1>3. req[p].pc = "idle" /\ req' = [req EXCEPT ![p] = new]
  BY <1>1 DEF Open
<1>4. new.pc = pc /\ new.op = op
  BY DEF Idle
<1>5. act'[p] = (IF new.pc = "idle" THEN NoCall ELSE act[p]) => Quiet(p)
  <2>. req'[p].pc = pc /\ req'[p].op = op /\ ~act[p].loaded
    BY <1>2, <1>3, <1>4 DEF ProcInv, CallOK
  <2>. QED BY <1>4 DEF Quiet, SeatOps
<1>. HIDE DEF new
<1>. QED BY <1>2, <1>3, <1>5, OneIsQuiet

(* A later step of a licensing request. *)
LEMMA LicStepQuiet ==
  ASSUME ActInv, ForgetClosed, NEW p \in Requests, LicStep(p)
  PROVE  \A q \in Procs : Quiet(q)
<1>. p \in Procs /\ ProcInv(p) /\ req \in [Procs -> Request]
  BY Constants DEF ActInv, SeatInv, LicInv, LicTypeOK
<1>1. CASE LoadRefused(p) \/ LoadPast(p) \/ Answer(p)
  BY <1>1, CloseIsQuiet DEF LoadRefused, LoadPast, Answer
<1>2. CASE Fill(p)
  <2>. DEFINE new == [req[p] EXCEPT !.pc = Resume(req[p].op)]
  <2>1. req' = [req EXCEPT ![p] = new]
    BY <1>2 DEF Fill, Goto
  <2>2. new.pc \in {"answer", "lookup"} /\ new.op = req[p].op /\ new.snap = req[p].snap
    BY DEF Resume, Request
  <2>3. req'[p] = new
    BY <2>1
  <2>. HIDE DEF new
  <2>4. act'[p] = (IF new.pc = "idle" THEN NoCall ELSE act[p]) => Quiet(p)
    BY <2>2, <2>3 DEF Quiet, Writing
  <2>. QED BY <2>1, <2>4, OneIsQuiet
<1>3. CASE FindEdited(p) /\ lic.deleted
  BY <1>3, CloseIsQuiet DEF FindEdited
<1>4. CASE FindEdited(p) /\ ~lic.deleted
  <2>. DEFINE new == [req[p] EXCEPT !.pc = "write", !.snap = lic]
  <2>1. req' = [req EXCEPT ![p] = new] /\ req[p].pc = "find"
    BY <1>4 DEF FindEdited
  <2>2. new.pc = "write" /\ new.op = req[p].op
    BY DEF Request
  <2>3. req'[p] = new
    BY <2>1
  <2>. HIDE DEF new
  <2>4. act'[p] = (IF new.pc = "idle" THEN NoCall ELSE act[p]) => Quiet(p)
    BY <2>1, <2>2, <2>3 DEF Quiet, ProcInv, CallOK
  <2>. QED BY <2>1, <2>4, OneIsQuiet
<1>5. CASE WriteEdit(p)
  <2>. DEFINE new == [req[p] EXCEPT !.pc = "flushed"]
  <2>1. req' = [req EXCEPT ![p] = new] /\ req[p].pc = "write"
    BY <1>5 DEF WriteEdit, Goto
  <2>2. new.pc = "flushed" /\ new.op = req[p].op /\ new.snap = req[p].snap
    BY DEF Request
  <2>3. req'[p] = new
    BY <2>1
  <2>. HIDE DEF new
  <2>4. act'[p] = (IF new.pc = "idle" THEN NoCall ELSE act[p]) => Quiet(p)
    BY <2>1, <2>2, <2>3 DEF Quiet, Writing
  <2>. QED BY <2>1, <2>4, OneIsQuiet
<1>6. CASE CommitEdit(p)
  <2>. SUFFICES ASSUME NEW q \in Procs PROVE Quiet(q)
    OBVIOUS
  <2>1. act'[q] = (IF req'[q].pc = "idle" THEN NoCall ELSE act[q]) /\ ProcInv(q)
    BY DEF ForgetClosed, ActInv, SeatInv
  <2>2. CASE q = p
    <3>. req'[q] = Idle /\ Idle.pc = "idle"
      BY <1>6, <2>2 DEF CommitEdit, Idle
    <3>. QED BY <2>1, SameIsQuiet
  <2>3. CASE q # p
    <3>. req'[q] = [req[q] EXCEPT !.stale = (req[q].pc = "resolve")]
      BY <1>6, <2>3 DEF CommitEdit
    <3>. req'[q].pc = req[q].pc /\ req'[q].op = req[q].op /\ req'[q].snap = req[q].snap
      BY DEF Request
    <3>. QED BY <2>1, SameIsQuiet
  <2>. QED BY <2>2, <2>3
<1>. QED BY <1>1, <1>2, <1>3, <1>4, <1>5, <1>6 DEF LicStep

(* The sweep and the environment. *)
LEMMA BackgroundQuiet ==
  ASSUME ActInv, ForgetClosed,
         \/ \E p \in Procs : Abort(p)
         \/ Sweep \/ Evict \/ Restart \/ Expire \/ Tick
  PROVE  \A q \in Procs : Quiet(q)
<1>. Sweeper \in Procs /\ ProcInv(Sweeper) /\ req \in [Procs -> Request]
  BY Constants DEF ActInv, SeatInv, LicInv, LicTypeOK
<1>1. CASE \E p \in Procs : Abort(p)
  BY <1>1, CloseIsQuiet DEF Abort
<1>2. CASE StartSweep
  <2>. DEFINE new == [Idle EXCEPT !.pc = "write", !.op = "expire", !.snap = lic]
  <2>1. req' = [req EXCEPT ![Sweeper] = new] /\ req[Sweeper].pc = "idle"
    BY <1>2 DEF StartSweep
  <2>2. new.pc = "write" /\ new.op = "expire"
    BY DEF Idle
  <2>3. req'[Sweeper] = new
    BY <2>1
  <2>. HIDE DEF new
  <2>4. act'[Sweeper] = (IF new.pc = "idle" THEN NoCall ELSE act[Sweeper]) => Quiet(Sweeper)
    BY <2>1, <2>2, <2>3 DEF Quiet, ProcInv, CallOK, SeatOps
  <2>. QED BY <2>1, <2>4, OneIsQuiet
<1>3. CASE WriteSweep
  <2>. DEFINE new == [req[Sweeper] EXCEPT !.pc = "flushed"]
  <2>1. req' = [req EXCEPT ![Sweeper] = new] /\ req[Sweeper].pc = "write"
    BY <1>3 DEF WriteSweep, Goto
  <2>2. new.pc = "flushed" /\ new.op = req[Sweeper].op /\ new.snap = req[Sweeper].snap
    BY DEF Request
  <2>3. req'[Sweeper] = new
    BY <2>1
  <2>. HIDE DEF new
  <2>4. act'[Sweeper] = (IF new.pc = "idle" THEN NoCall ELSE act[Sweeper]) => Quiet(Sweeper)
    BY <2>1, <2>2, <2>3 DEF Quiet, Writing
  <2>. QED BY <2>1, <2>4, OneIsQuiet
<1>4. CASE CommitSweep
  BY <1>4, CloseIsQuiet DEF CommitSweep
<1>5. CASE Evict \/ Restart \/ Expire \/ Tick
  <2>. SUFFICES ASSUME NEW q \in Procs PROVE Quiet(q)
    OBVIOUS
  <2>1. act'[q] = (IF req'[q].pc = "idle" THEN NoCall ELSE act[q]) /\ ProcInv(q)
    BY DEF ForgetClosed, ActInv, SeatInv
  <2>2. CASE Evict \/ Expire
    BY <2>1, <2>2, SameIsQuiet DEF Evict, Expire
  <2>3. CASE Restart
    <3>. req'[q] = Idle /\ Idle.pc = "idle"
      BY <2>3 DEF Restart, Idle
    <3>. QED BY <2>1, SameIsQuiet
  <2>4. CASE Tick
    <3>. req'[q] = IF req[q].pc = "idle" THEN req[q] ELSE [req[q] EXCEPT !.age = @ + 1]
      BY <2>4 DEF Tick
    <3>. req'[q].pc = req[q].pc /\ req'[q].op = req[q].op /\ req'[q].snap = req[q].snap
      BY DEF Request
    <3>. QED BY <2>1, SameIsQuiet
  <2>. QED BY <1>5, <2>2, <2>3, <2>4
<1>. QED BY <1>1, <1>2, <1>3, <1>4, <1>5 DEF Sweep

(* A step in which every process is quiet, and the seats are left alone. *)
LEMMA QuietInv ==
  ASSUME ActInv, \A q \in Procs : Quiet(q), LicTypeOK', act' \in [Procs -> Call],
         lic'.used = lic.used, lic'.limit <= MaxLimit, UNCHANGED <<machines, raced>>
  PROVE  SeatInv'
<1>1. \A q \in Procs : ProcInv(q)'
  BY QuietProc DEF ActInv, SeatInv
<1>. QED BY <1>1 DEF ActInv, SeatInv, TypeOK, CounterExactUnlessRaced, SeatLimitUnlessRaced

(* No licensing step moves the counter, or raises the limit beyond reach. *)
LEMMA LicensingSeats ==
  ASSUME ActInv, LicensingStep
  PROVE  lic'.used = lic.used /\ lic'.limit <= MaxLimit
<1>. lic \in Row /\ req \in [Procs -> Request] /\ lic.limit <= MaxLimit
  BY DEF ActInv, LicInv, LicTypeOK, SeatInv
<1>1. ASSUME NEW p \in Requests, CommitEdit(p)
      PROVE  lic'.used = lic.used /\ lic'.limit <= MaxLimit
  <2>. lic' = Edited(p) /\ req[p].edit.limit \in Limits \cup {Keep}
    BY <1>1, Constants DEF CommitEdit, Request, Edits
  <2>. QED BY MaxLimitAssumption DEF Edited, EditedColumn, Row
<1>2. CASE CommitSweep \/ Expire
  BY <1>2 DEF CommitSweep, Expire, Row
<1>3. CASE ~CommitSweep /\ ~Expire /\ ~\E p \in Requests : CommitEdit(p)
  <2>. lic' = lic
    BY <1>3 DEF LicensingStep, StartLic, ValidateHit, ValidateMiss, StartEdit, LicStep,
       LoadRefused, LoadPast, Fill, Answer, FindEdited, WriteEdit, Abort, Sweep, StartSweep,
       WriteSweep, Evict, Restart, Tick
  <2>. QED OBVIOUS
<1>. QED BY <1>1, <1>2, <1>3

(* The licensing steps preserve the whole invariant. *)
LEMMA LicensingStepInv ==
  ASSUME ActInv, LicensingStep
  PROVE  ActInv'
<1>1. act' \in [Procs -> Call] /\ ForgetClosed /\ UNCHANGED <<machines, raced>>
  BY DEF LicensingStep, ForgetClosed, ActInv, SeatInv, TypeOK, NoCall, Call
<1>2. LicInv' /\ \A q \in Procs : Quiet(q)
  <2>1. ASSUME NEW p \in Requests, StartLic(p) PROVE LicInv' /\ \A q \in Procs : Quiet(q)
    BY <1>1, <2>1, StartLicInv, StartLicQuiet DEF ActInv
  <2>2. ASSUME NEW p \in Requests, LicStep(p) PROVE LicInv' /\ \A q \in Procs : Quiet(q)
    BY <1>1, <2>2, LicStepInv, LicStepQuiet DEF ActInv
  <2>3. ASSUME \/ \E p \in Procs : Abort(p)
               \/ Sweep \/ Evict \/ Restart \/ Expire \/ Tick
        PROVE  LicInv' /\ \A q \in Procs : Quiet(q)
    BY <1>1, <2>3, BackgroundInv, BackgroundQuiet DEF ActInv
  <2>. QED BY <2>1, <2>2, <2>3 DEF LicensingStep
<1>. QED BY <1>1, <1>2, LicensingSeats, QuietInv DEF ActInv, LicInv

-----------------------------------------------------------------------------
(* The seat steps, as steps of the licensing part.                         *)

(* A step of p's handler that leaves the licence and the cache alone.      *)
LEMMA HandlerLicInv ==
  ASSUME LicInv, NEW p \in Requests, NEW r \in Request,
         req' = [req EXCEPT ![p] = r], UNCHANGED <<lic, cache, since>>,
         r.pc \in {"lookup", "machine", "write", "flushed"},
         r.pc = "flushed" => r.op \notin EditOps,
         r.op = "activate" => Approved(p) /\ r.age = req[p].age
  PROVE  LicInv'
<1>. p \in Procs /\ req \in [Procs -> Request] /\ p # Sweeper /\ Sweeper \in Procs
  BY Constants DEF LicInv, LicTypeOK
<1>. req'[p] = r /\ \A q \in Procs : q # p => req'[q] = req[q]
  OBVIOUS
<1>1. LicTypeOK'
  BY DEF LicInv, LicTypeOK
<1>2. ClockInv'
  BY DEF LicInv, ClockInv
<1>3. FreshInv'
  BY DEF LicInv, FreshInv, Approved, Cached
<1>4. OverlapInv'
  BY DEF LicInv, OverlapInv, StaleOnlyByOverlap, EditInFlight
<1>. QED BY <1>1, <1>2, <1>3, <1>4 DEF LicInv

(* A step of p's handler changes nothing for the other processes, so that  *)
(* only p's own part is left to show.                                      *)
LEMMA HandlerSeatInv ==
  ASSUME ActInv, NEW p \in Requests, ProcInv(p)', LicTypeOK', act' \in [Procs -> Call],
         \A q \in Procs \ {p} : req'[q] = req[q] /\ act'[q] = act[q],
         UNCHANGED <<lic, machines, raced>>
  PROVE  SeatInv'
<1>1. \A q \in Procs : ProcInv(q)'
  <2>. SUFFICES ASSUME NEW q \in Procs \ {p} PROVE ProcInv(q)'
    OBVIOUS
  <2>. ProcInv(q)
    BY DEF ActInv, SeatInv
  <2>. QED BY SameIsQuiet, QuietProc
<1>. QED BY <1>1 DEF ActInv, SeatInv, TypeOK, CounterExactUnlessRaced, SeatLimitUnlessRaced

(* A handler ends without a write of its own. *)
LEMMA CloseActInv ==
  ASSUME ActInv, NEW p \in Requests, Close(p), ForgetClosed,
         UNCHANGED <<lic, cache, since, machines, raced>>
  PROVE  ActInv'
<1>1. LicInv'
  BY CloseInv, Constants DEF ActInv
<1>2. \A q \in Procs : Quiet(q)
  BY CloseIsQuiet, Constants
<1>3. act' \in [Procs -> Call] /\ lic.limit <= MaxLimit
  BY DEF ForgetClosed, ActInv, SeatInv, TypeOK, NoCall, Call
<1>. QED BY <1>1, <1>2, <1>3, QuietInv DEF ActInv, LicInv

(* activate begins. *)
LEMMA StartActivateInv ==
  ASSUME ActInv, NEW p \in Requests, NEW fp \in Fingerprints, StartActivate(p, fp)
  PROVE  ActInv'
<1>. p \in Procs /\ req \in [Procs -> Request] /\ act \in [Procs -> Call]
  BY Constants DEF ActInv, LicInv, LicTypeOK, SeatInv, TypeOK
<1>1. LicInv'
  BY ValidateHitInv, ValidateMissInv DEF ActInv, StartActivate, AllOps
<1>2. PICK pc \in {"lookup", "load"} : Open(p, pc, "activate", NoEdit)
  BY DEF StartActivate, ValidateHit, ValidateMiss, Resume
<1>3. /\ \A q \in Procs \ {p} : req'[q] = req[q] /\ act'[q] = act[q]
      /\ UNCHANGED <<lic, machines, raced>>
  BY <1>2 DEF StartActivate, ValidateHit, ValidateMiss, Open
<1>4. act'[p] = [NoCall EXCEPT !.fp = {fp}] /\ act' \in [Procs -> Call]
  BY DEF StartActivate, NoCall, Call
<1>5. req'[p].pc = pc /\ req'[p].op = "activate"
  BY <1>2 DEF Open, Idle
<1>6. ProcInv(p)'
  BY <1>4, <1>5 DEF ProcInv, CallOK, MemoryOK, RoomOK, Writing, NoCall
<1>. QED BY <1>1, <1>3, <1>4, <1>6, HandlerSeatInv DEF ActInv, LicInv

(* deactivate or heartbeat begins. *)
LEMMA StartSeatCallInv ==
  ASSUME ActInv, NEW p \in Requests, NEW op \in {"deactivate", "heartbeat"},
         NEW fp \in Fingerprints, StartSeatCall(p, op, fp)
  PROVE  ActInv'
<1>. p \in Procs /\ req \in [Procs -> Request] /\ act \in [Procs -> Call]
  BY Constants DEF ActInv, LicInv, LicTypeOK, SeatInv, TypeOK
<1>. DEFINE new == [Idle EXCEPT !.pc = "lookup", !.op = op, !.edit = NoEdit]
<1>1. new \in Request /\ new.pc = "lookup" /\ new.op = op
  BY Records DEF Request, Pcs, AllOps, Idle
<1>2. req' = [req EXCEPT ![p] = new] /\ UNCHANGED <<lic, cache, since, machines, raced>>
  BY DEF StartSeatCall, Open
<1>. HIDE DEF new
<1>3. LicInv'
  BY <1>1, <1>2, HandlerLicInv DEF ActInv
<1>4. act'[p] = [NoCall EXCEPT !.fp = {fp}] /\ act' \in [Procs -> Call]
  BY DEF StartSeatCall, NoCall, Call
<1>5. ProcInv(p)'
  BY <1>1, <1>2, <1>4 DEF ProcInv, CallOK, MemoryOK, RoomOK, Writing, NoCall
<1>6. \A q \in Procs \ {p} : req'[q] = req[q] /\ act'[q] = act[q]
  BY <1>2 DEF StartSeatCall
<1>. QED BY <1>2, <1>3, <1>4, <1>5, <1>6, HandlerSeatInv DEF ActInv, LicInv

(* The validation of a request loads the row into its session. *)
LEMMA LoadInSessionInv ==
  ASSUME ActInv, NEW p \in Requests, LoadInSession(p)
  PROVE  ActInv'
<1>. /\ p \in Procs /\ req \in [Procs -> Request] /\ act \in [Procs -> Call]
     /\ ProcInv(p) /\ lic.limit <= MaxLimit
  BY Constants DEF ActInv, LicInv, LicTypeOK, SeatInv, TypeOK
<1>1. LicInv'
  BY LoadValidInv DEF ActInv, LoadInSession
<1>2. /\ req'[p].pc = "resolve" /\ req'[p].op = req[p].op /\ req'[p].snap = lic
      /\ UNCHANGED <<lic, machines, raced>>
      /\ \A q \in Procs \ {p} : req'[q] = req[q] /\ act'[q] = act[q]
  BY DEF LoadInSession, LoadValid, Request
<1>3. act'[p].loaded /\ act'[p].fp = act[p].fp /\ act' \in [Procs -> Call]
  BY DEF LoadInSession, Call
<1>4. ProcInv(p)'
  BY <1>2, <1>3 DEF ProcInv, CallOK, MemoryOK, RoomOK, Writing
<1>. QED BY <1>1, <1>2, <1>3, <1>4, HandlerSeatInv DEF ActInv, LicInv

(* get_license_by_key of a seat request. *)
LEMMA LookupInv ==
  ASSUME ActInv, NEW p \in Requests, Lookup(p)
  PROVE  ActInv'
<1>. /\ p \in Procs /\ req \in [Procs -> Request] /\ act \in [Procs -> Call] /\ lic \in Row
     /\ ProcInv(p) /\ lic.limit <= MaxLimit
  BY Constants DEF ActInv, LicInv, LicTypeOK, SeatInv, TypeOK
<1>. DEFINE row == IF act[p].loaded THEN req[p].snap ELSE lic
            new == [req[p] EXCEPT !.pc = "machine", !.snap = row]
<1>1. /\ new \in Request /\ new.pc = "machine" /\ new.op = req[p].op
      /\ new.age = req[p].age /\ new.snap = row
  BY DEF Request, Pcs
<1>2. /\ req' = [req EXCEPT ![p] = new] /\ req[p].pc = "lookup"
      /\ UNCHANGED <<lic, cache, since, machines, raced>>
  BY DEF Lookup
<1>. HIDE DEF new
<1>3. LicInv'
  BY <1>1, <1>2, HandlerLicInv DEF ActInv, Approved
<1>4. /\ act'[p].loaded /\ act'[p].fp = act[p].fp /\ act' \in [Procs -> Call]
      /\ act'[p].superseded = act[p].superseded
  BY DEF Lookup, Call
<1>5. ProcInv(p)'
  BY <1>1, <1>2, <1>4 DEF ProcInv, CallOK, MemoryOK, RoomOK, Writing
<1>6. \A q \in Procs \ {p} : req'[q] = req[q] /\ act'[q] = act[q]
  BY <1>2 DEF Lookup
<1>. QED BY <1>2, <1>3, <1>4, <1>5, <1>6, HandlerSeatInv DEF ActInv, LicInv

(* The SELECT of the machine, and the comparison with the limit. *)
LEMMA SelectInv ==
  ASSUME ActInv, NEW p \in Requests, Select(p)
  PROVE  ActInv'
<1>. /\ p \in Procs /\ req \in [Procs -> Request] /\ act \in [Procs -> Call]
     /\ ProcInv(p)
  BY Constants DEF ActInv, LicInv, LicTypeOK, SeatInv, TypeOK
<1>. DEFINE new == [req[p] EXCEPT !.pc = "write"]
<1>1. /\ new \in Request /\ new.pc = "write" /\ new.op = req[p].op
      /\ new.age = req[p].age /\ new.snap = req[p].snap
  BY DEF Request, Pcs
<1>2. /\ req' = [req EXCEPT ![p] = new] /\ req[p].pc = "machine"
      /\ UNCHANGED <<lic, cache, since, machines, raced>>
  BY DEF Select, Goto
<1>. HIDE DEF new
<1>3. LicInv'
  BY <1>1, <1>2, HandlerLicInv DEF ActInv, Approved
<1>4. /\ act'[p].loaded = act[p].loaded /\ act'[p].fp = act[p].fp
      /\ act'[p].superseded = act[p].superseded
      /\ act'[p].found = Registered(p) /\ act' \in [Procs -> Call]
  BY DEF Select, Call, Registered
<1>5. ProcInv(p)'
  <2>1. CallOK(p)'
    BY <1>1, <1>2, <1>4 DEF Select, ProcInv, CallOK, Writing
  <2>2. MemoryOK(p)'
    BY <1>1, <1>2, <1>4 DEF Select, ProcInv, MemoryOK, Registered
  <2>3. RoomOK(p)'
    <3>. /\ act[p].loaded /\ req[p].snap.limit <= MaxLimit
         /\ req[p].snap.limit \in Nat /\ req[p].snap.used \in Nat
      BY <1>2 DEF ProcInv, CallOK, RoomOK, Request, Row
    <3>. MaxLimit \in Nat
      BY MaxLimitAssumption
    <3>. QED BY <1>1, <1>2, <1>4 DEF Select, RoomOK, Activates, Full
  <2>. QED BY <2>1, <2>2, <2>3 DEF ProcInv
<1>6. \A q \in Procs \ {p} : req'[q] = req[q] /\ act'[q] = act[q]
  BY <1>2 DEF Select
<1>. QED BY <1>2, <1>3, <1>4, <1>5, <1>6, HandlerSeatInv DEF ActInv, LicInv

(* The flush of a seat request. *)
LEMMA WriteSeatInv ==
  ASSUME ActInv, NEW p \in Requests, WriteSeat(p)
  PROVE  ActInv'
<1>. /\ p \in Procs /\ req \in [Procs -> Request] /\ act \in [Procs -> Call]
     /\ ProcInv(p)
  BY Constants DEF ActInv, LicInv, LicTypeOK, SeatInv, TypeOK
<1>. DEFINE new == [req[p] EXCEPT !.pc = "flushed"]
<1>1. /\ new \in Request /\ new.pc = "flushed" /\ new.op = req[p].op
      /\ new.age = req[p].age /\ new.snap = req[p].snap
  BY DEF Request, Pcs
<1>2. /\ req' = [req EXCEPT ![p] = new] /\ req[p].pc = "write" /\ req[p].op \in SeatOps
      /\ UNCHANGED <<lic, cache, since, machines, act, raced>>
  BY DEF WriteSeat, Goto
<1>. HIDE DEF new
<1>3. LicInv'
  BY <1>1, <1>2, HandlerLicInv DEF ActInv, Approved, SeatOps, EditOps
<1>4. ProcInv(p)'
  BY <1>1, <1>2 DEF ProcInv, CallOK, MemoryOK, RoomOK, Writing, Activates
<1>5. \A q \in Procs \ {p} : req'[q] = req[q] /\ act'[q] = act[q]
  BY <1>2
<1>. QED BY <1>2, <1>3, <1>4, <1>5, HandlerSeatInv DEF ActInv, LicInv

-----------------------------------------------------------------------------
(* The commit of a seat change                                             *)

(* An unsuperseded commit moves the counter and the rows together.         *)
LEMMA CommitSeatExact ==
  ASSUME ActInv, NEW p \in Requests, CommitSeat(p), ~raced'
  PROVE  \E fp \in Fingerprints :
           \/ /\ fp \notin machines /\ machines' = machines \cup {fp}
              /\ lic.used < MaxLimit /\ lic'.used = lic.used + 1
           \/ /\ fp \in machines /\ machines' = machines \ {fp}
              /\ lic'.used = lic.used - 1
<1>1. /\ p \in Procs /\ ProcInv(p) /\ req[p] \in Request /\ lic \in Row
      /\ machines \subseteq Fingerprints /\ CounterExactUnlessRaced
  BY Constants DEF ActInv, LicInv, LicTypeOK, SeatInv, TypeOK
<1>2. /\ ~raced /\ ~act[p].superseded /\ Writing(p) /\ lic'.used = SeatCounter(p)
      /\ machines' = IF Activates(p) THEN machines \cup act[p].fp ELSE machines \ act[p].fp
  BY <1>1 DEF CommitSeat, Writing, Row
<1>3. PICK fp \in Fingerprints : act[p].fp = {fp}
  BY <1>1, <1>2 DEF ProcInv, CallOK, Writing
<1>4. /\ act[p].loaded /\ req[p].snap.used = lic.used
      /\ act[p].found <=> fp \in machines
  BY <1>1, <1>2, <1>3 DEF ProcInv, CallOK, MemoryOK
<1>5. CASE Activates(p)
  <2>1. fp \notin machines /\ machines' = machines \cup {fp}
    BY <1>2, <1>3, <1>4, <1>5 DEF Activates
  <2>2. lic.used < MaxLimit /\ lic'.used = lic.used + 1
    BY <1>1, <1>2, <1>4, <1>5 DEF ProcInv, RoomOK, SeatCounter
  <2>. QED BY <2>1, <2>2
<1>6. CASE ~Activates(p)
  <2>1. fp \in machines /\ machines' = machines \ {fp}
    BY <1>1, <1>2, <1>3, <1>4, <1>6 DEF Activates, ProcInv, CallOK
  <2>2. lic.used # 0
    BY <1>1, <1>2, <2>1, FingerprintsAssumption, FS_Subset, FS_EmptySet DEF CounterExactUnlessRaced
  <2>3. lic'.used = lic.used - 1
    BY <1>2, <1>4, <1>6, <2>2 DEF SeatCounter
  <2>. QED BY <2>1, <2>3
<1>. QED BY <1>5, <1>6

(* So it leaves the counter exact, and the machines within the limit.      *)
LEMMA CommitSeatCounts ==
  ASSUME ActInv, NEW p \in Requests, CommitSeat(p), ~raced'
  PROVE  /\ lic'.used = Cardinality(machines')
         /\ Cardinality(machines') <= MaxLimit
<1>1. ~raced /\ machines \subseteq Fingerprints /\ IsFiniteSet(machines)
  BY FingerprintsAssumption, FS_Subset DEF CommitSeat, ActInv, SeatInv, TypeOK
<1>2. /\ lic.used = Cardinality(machines) /\ Cardinality(machines) <= MaxLimit
      /\ Cardinality(machines) \in Nat /\ MaxLimit \in Nat
  BY <1>1, MaxLimitAssumption, FS_CardinalityType
     DEF ActInv, SeatInv, CounterExactUnlessRaced, SeatLimitUnlessRaced
<1>3. PICK fp \in Fingerprints :
        \/ /\ fp \notin machines /\ machines' = machines \cup {fp}
           /\ lic.used < MaxLimit /\ lic'.used = lic.used + 1
        \/ /\ fp \in machines /\ machines' = machines \ {fp}
           /\ lic'.used = lic.used - 1
  BY CommitSeatExact
<1>4. CASE /\ fp \notin machines /\ machines' = machines \cup {fp}
           /\ lic.used < MaxLimit /\ lic'.used = lic.used + 1
  <2>. Cardinality(machines') = Cardinality(machines) + 1
    BY <1>1, <1>4, FS_AddElement
  <2>. QED BY <1>2, <1>4
<1>5. CASE /\ fp \in machines /\ machines' = machines \ {fp}
           /\ lic'.used = lic.used - 1
  <2>. Cardinality(machines') = Cardinality(machines) - 1
    BY <1>1, <1>5, FS_RemoveElement
  <2>. QED BY <1>2, <1>5
<1>. QED BY <1>3, <1>4, <1>5

(* The commit of a seat change. *)
LEMMA CommitSeatInv ==
  ASSUME ActInv, NEW p \in Requests, CommitSeat(p)
  PROVE  ActInv'
<1>1. /\ p \in Procs /\ req \in [Procs -> Request] /\ act \in [Procs -> Call] /\ lic \in Row
      /\ machines \subseteq Fingerprints /\ raced \in BOOLEAN
      /\ lic.limit <= MaxLimit /\ \A q \in Procs : ProcInv(q)
  BY Constants DEF ActInv, LicInv, LicTypeOK, SeatInv, TypeOK
<1>2. SeatCounter(p) \in Nat
  <2>. req[p].snap.used \in Nat /\ lic.used \in Nat
    BY <1>1 DEF Request, Row
  <2>. QED BY DEF SeatCounter
<1>3. /\ lic' = [lic EXCEPT !.used = SeatCounter(p)] /\ lic' \in Row
      /\ lic'.limit = lic.limit /\ (Valid(lic') <=> Valid(lic))
  BY <1>1, <1>2 DEF CommitSeat, Row, Valid
<1>4. /\ req' = [req EXCEPT ![p] = Idle] /\ UNCHANGED <<cache, since>>
  BY DEF CommitSeat, Close
<1>5. LicInv'
  <2>1. LicTypeOK'
    BY <1>3, <1>4, Records DEF ActInv, LicInv, LicTypeOK
  <2>2. ClockInv'
    BY <1>3, <1>4 DEF ActInv, LicInv, ClockInv
  <2>3. FreshInv'
    BY <1>1, <1>4 DEF ActInv, LicInv, FreshInv, Approved, Cached, Idle
  <2>4. OverlapInv'
    BY <1>1, <1>4 DEF ActInv, LicInv, OverlapInv, StaleOnlyByOverlap, EditInFlight, EditOps, Idle
  <2>. QED BY <2>1, <2>2, <2>3, <2>4 DEF LicInv
<1>6. /\ act' = [q \in Procs |-> IF q = p THEN NoCall
                               ELSE [act[q] EXCEPT !.superseded = act[q].loaded]]
      /\ act' \in [Procs -> Call]
  BY <1>1 DEF CommitSeat, NoCall, Call
<1>7. machines' \subseteq Fingerprints /\ raced' \in BOOLEAN
  BY <1>1 DEF CommitSeat, Call
<1>8. ASSUME NEW q \in Procs PROVE ProcInv(q)'
  <2>1. CASE q = p
    BY <1>1, <1>4, <1>6, <2>1 DEF ProcInv, CallOK, MemoryOK, RoomOK, Writing, Idle, NoCall, SeatOps
  <2>2. CASE q # p
    <3>1. /\ req'[q] = req[q] /\ act'[q].loaded = act[q].loaded
          /\ act'[q].fp = act[q].fp /\ act'[q].found = act[q].found
          /\ act'[q].superseded = act[q].loaded
      BY <1>1, <1>4, <1>6, <2>2 DEF Call
    <3>. QED BY <1>1, <3>1 DEF ProcInv, CallOK, MemoryOK, RoomOK, Writing, Activates
  <2>. QED BY <2>1, <2>2
<1>9. CounterExactUnlessRaced' /\ SeatLimitUnlessRaced'
  BY CommitSeatCounts DEF CounterExactUnlessRaced, SeatLimitUnlessRaced
<1>. QED BY <1>1, <1>3, <1>5, <1>6, <1>7, <1>8, <1>9 DEF ActInv, LicInv, SeatInv, TypeOK

-----------------------------------------------------------------------------
(* The invariant holds at the start. *)
LEMMA ActInitInv == Init => ActInv
<1>. SUFFICES ASSUME Init PROVE ActInv
  OBVIOUS
<1>1. LicInv
  BY InitInv DEF Init
<1>2. /\ lic.used = 0 /\ lic.limit <= MaxLimit /\ machines = {} /\ raced = FALSE
      /\ \A p \in Procs : req[p] = Idle /\ act[p] = NoCall
  BY MaxLimitAssumption DEF Init, LicInit
<1>3. TypeOK
  BY <1>1, <1>2 DEF Init, LicInv, TypeOK, NoCall, Call
<1>4. \A p \in Procs : ProcInv(p)
  BY <1>2 DEF ProcInv, CallOK, MemoryOK, RoomOK, Writing, Idle, NoCall, SeatOps
<1>5. CounterExactUnlessRaced /\ SeatLimitUnlessRaced
  BY <1>2, FS_EmptySet, MaxLimitAssumption DEF CounterExactUnlessRaced, SeatLimitUnlessRaced
<1>. QED BY <1>1, <1>2, <1>3, <1>4, <1>5 DEF ActInv, SeatInv

(* Every seat step preserves the invariant. *)
LEMMA SeatStepInv ==
  ASSUME ActInv, NEW p \in Requests, SeatStep(p)
  PROVE  ActInv'
<1>1. CASE LookupMissing(p) \/ SelectRefused(p) \/ WriteConflict(p) \/ CommitTouch(p)
  BY <1>1, CloseActInv DEF LookupMissing, SelectRefused, WriteConflict, CommitTouch
<1>2. CASE LoadInSession(p)
  BY <1>2, LoadInSessionInv
<1>3. CASE Lookup(p)
  BY <1>3, LookupInv
<1>4. CASE Select(p)
  BY <1>4, SelectInv
<1>5. CASE WriteSeat(p)
  BY <1>5, WriteSeatInv
<1>6. CASE CommitSeat(p)
  BY <1>6, CommitSeatInv
<1>. QED BY <1>1, <1>2, <1>3, <1>4, <1>5, <1>6 DEF SeatStep

(* Every step preserves the invariant. *)
LEMMA ActNextInv == ActInv /\ [Next]_vars => ActInv'
<1>. SUFFICES ASSUME ActInv, [Next]_vars PROVE ActInv'
  OBVIOUS
<1>1. ASSUME NEW p \in Requests, NEW fp \in Fingerprints, StartSeat(p, fp) PROVE ActInv'
  BY <1>1, StartActivateInv, StartSeatCallInv DEF StartSeat
<1>2. ASSUME NEW p \in Requests, SeatStep(p) PROVE ActInv'
  BY <1>2, SeatStepInv
<1>3. CASE LicensingStep
  BY <1>3, LicensingStepInv
<1>4. CASE UNCHANGED vars
  <2>1. LicInv'
    BY <1>4, StutterInv DEF ActInv, vars
  <2>2. SeatInv'
    BY <1>4 DEF ActInv, SeatInv, TypeOK, LicTypeOK, ProcInv, CallOK, MemoryOK, RoomOK, Writing,
       Activates, CounterExactUnlessRaced, SeatLimitUnlessRaced, vars, licVars, seatVars
  <2>. QED BY <2>1, <2>2 DEF ActInv
<1>. QED BY <1>1, <1>2, <1>3, <1>4 DEF Next

(* The inductive invariant holds throughout. *)
THEOREM ActInvariant == Spec => []ActInv
BY ActInitInv, ActNextInv, PTL DEF Spec

(* Every variable of the licence, its cache and its seats keeps its type.  *)
THEOREM ActTypeCorrect == Spec => []TypeOK
<1>. ActInv => TypeOK
  BY DEF ActInv, SeatInv
<1>. QED BY ActInvariant, PTL

(* Aborts, conflicts, refusals, heartbeats, edits, sweeps, evictions and   *)
(* crashes, in any order and number, never part machines_used from the     *)
(* rows of the machines table: only a commit over a superseded row can.    *)
THEOREM CounterIsExact == Spec => []CounterExactUnlessRaced
<1>. ActInv => CounterExactUnlessRaced
  BY DEF ActInv, SeatInv
<1>. QED BY ActInvariant, PTL

(* Nor do they ever admit more machines than the limit: the check of the   *)
(* counter is enough wherever the counter is right.                        *)
THEOREM LimitIsKept == Spec => []SeatLimitUnlessRaced
<1>. ActInv => SeatLimitUnlessRaced
  BY DEF ActInv, SeatInv
<1>. QED BY ActInvariant, PTL

(* The approval bound survives the seat operations. *)
THEOREM ApprovalIsFresh == Spec => []BoundedStaleness
<1>. ActInv => BoundedStaleness
  BY Constants DEF ActInv, LicInv, LicTypeOK, FreshInv, BoundedStaleness, Request
<1>. QED BY ActInvariant, PTL

(* A machine joins only on the authority of an approval within the bound,  *)
(* although activate looks at the licence's status at most once.           *)
THEOREM ActivationIsAuthorised == Spec => ActivationAuthorised
<1>1. ActInv /\ [Next]_vars => [~ machines' \subseteq machines => since <= TTL + 2 * MaxLatency]_vars
  <2>. SUFFICES ASSUME ActInv, Next, ~ machines' \subseteq machines
                PROVE  since <= TTL + 2 * MaxLatency
    OBVIOUS
  <2>1. PICK p \in Requests : CommitSeat(p) /\ Activates(p)
    BY DEF Next, StartSeat, StartActivate, StartSeatCall, SeatStep, LoadInSession, LookupMissing,
       Lookup, SelectRefused, Select, WriteConflict, WriteSeat, CommitSeat, CommitTouch,
       LicensingStep
  <2>2. Approved(p) /\ p \in Procs
    BY <2>1, Constants DEF CommitSeat, Activates, Approved
  <2>3. BoundedStaleness
    BY Constants DEF ActInv, LicInv, LicTypeOK, FreshInv, BoundedStaleness, Request
  <2>. QED BY <2>2, <2>3 DEF BoundedStaleness
<1>. QED BY <1>1, ActInvariant, PTL DEF Spec, ActivationAuthorised

(* Every behaviour of the service is one of the abstract ledger: seats are *)
(* taken and given back one by one, and no other step touches them.        *)
THEOREM ActivationImplementsLedger == Spec => ImplementsLedger
<1>1. Init => Ledger!Init
  <2>. SUFFICES ASSUME Init PROVE Ledger!Init
    OBVIOUS
  <2>1. MaxLimit - lic.used = MaxLimit
    BY MaxLimitAssumption DEF Init, LicInit
  <2>2. machines = {} /\ (~raced) = TRUE
    BY DEF Init
  <2>. QED BY <2>1, <2>2 DEF Ledger!Init
<1>2. ActInv /\ [Next]_vars => [Ledger!Next]_(Ledger!vars)
  <2>. SUFFICES ASSUME ActInv, [Next]_vars PROVE [Ledger!Next]_(Ledger!vars)
    OBVIOUS
  <2>1. ASSUME NEW p \in Requests, CommitSeat(p) PROVE Ledger!Next
    <3>1. CASE raced'
      BY <3>1 DEF Ledger!Next
    <3>2. CASE ~raced'
      <4>1. ~raced /\ MaxLimit \in Nat /\ lic.used \in Nat
        BY <2>1, <3>2, MaxLimitAssumption DEF CommitSeat, ActInv, LicInv, LicTypeOK, Row
      <4>2. \E fp \in Fingerprints : Ledger!Take(fp) \/ Ledger!GiveBack(fp)
        BY <2>1, <3>2, <4>1, CommitSeatExact DEF Ledger!Take, Ledger!GiveBack
      <4>. QED BY <3>2, <4>1, <4>2 DEF Ledger!Next
    <3>. QED BY <3>1, <3>2
  <2>2. CASE LicensingStep
    BY <2>2, LicensingSeats DEF LicensingStep, Ledger!vars
  <2>3. CASE UNCHANGED vars
    BY <2>3 DEF vars, licVars, seatVars, Ledger!vars
  <2>4. ASSUME NEW p \in Requests, NEW fp \in Fingerprints, StartSeat(p, fp)
        PROVE  UNCHANGED Ledger!vars
    BY <2>4 DEF StartSeat, StartActivate, StartSeatCall, ValidateHit, ValidateMiss, Ledger!vars
  <2>5. ASSUME NEW p \in Requests, SeatStep(p), ~CommitSeat(p) PROVE UNCHANGED Ledger!vars
    BY <2>5 DEF SeatStep, LoadInSession, LoadValid, LookupMissing, Lookup, SelectRefused, Select,
       WriteConflict, WriteSeat, CommitTouch, Ledger!vars
  <2>. QED BY <2>1, <2>2, <2>3, <2>4, <2>5 DEF Next
<1>. QED BY <1>1, <1>2, ActInvariant, PTL DEF Spec, ImplementsLedger, Ledger!Spec
=============================================================================
