---------------------------- MODULE ApprovalCache ----------------------------
(***************************************************************************)
(* The validation cache and the components that fill it or serve from it   *)
(* beside LicensingService: the cache warmer and self-healing validation;  *)
(* and the cleanup, which changes rows and leaves their approvals cached.  *)
(***************************************************************************)
EXTENDS Lists, LicenceTable

CONSTANTS
  ValTTL,        \* lifetime of a cached validation (30 s)
  MaxSize,       \* capacity of the validation cache
  TopN,          \* licences the warmer loads
  MaxWarm,       \* bound on the time the warmer takes
  ProbeInterval  \* health_check_interval of SelfHealingValidator

ASSUME ApprovalAssumption ==
  /\ ValTTL \in Nat /\ MaxSize \in Nat \ {0} /\ TopN \in Nat
  /\ MaxWarm \in Nat /\ ProbeInterval \in Nat

VARIABLES
  vcache,   \* the validation cache
  heal,     \* SelfHealingValidator: its view of the database
  warming,  \* a run of the warmer: the rows it has not cached, when it read them
  asking,   \* validations that have read their row and not yet cached the answer
  editing   \* licences with an edit that is flushed and not committed

approvalVars == <<vcache, heal, warming, asking, editing>>

(* What a cached approval says, with its history: when the row behind it   *)
(* was read, by whom, whether it had run out by then, whether an edit of   *)
(* the row overlapped its way into the cache, and whether a later call     *)
(* stored the cached answer again.                                         *)
Approval == [readAt : 0 .. MaxTime, by : {"validate", "warmer"},
             late : BOOLEAN, edited : BOOLEAN, renewed : BOOLEAN]

(* A validation under way, with the same history; healing if it is         *)
(* SelfHealingValidator's.                                                 *)
Asked == [by : Requests, of : Licences, at : 0 .. MaxTime,
          late : BOOLEAN, edited : BOOLEAN, healing : BOOLEAN]

ApprovalTypeOK ==
  /\ TableTypeOK
  /\ Len(vcache) <= MaxSize
  /\ \A i \in DOMAIN vcache : /\ vcache[i].key \in Licences
                              /\ vcache[i].val \in Approval
                              /\ vcache[i].exp \in 0 .. MaxTime + ValTTL
  /\ \A i, j \in DOMAIN vcache : vcache[i].key = vcache[j].key => i = j
  /\ heal \in [healthy : BOOLEAN, last : 0 .. MaxTime]
  /\ warming \in [todo : SUBSET Licences, edited : SUBSET Licences, at : 0 .. MaxTime]
  /\ asking \subseteq Asked
  /\ editing \subseteq Licences

(* last is read only while the database is held to be down. *)
Healthy == [healthy |-> TRUE, last |-> 0]
Unhealthy == [healthy |-> FALSE, last |-> now]

Cold == [todo |-> {}, edited |-> {}, at |-> 0]

ApprovalInit ==
  TableInit /\ vcache = <<>> /\ heal = Healthy /\ warming = Cold /\ asking = {} /\ editing = {}

Stored(store, l, val) == Put(store, l, val, now + ValTTL, MaxSize)

GrantedLapsed(l) == up /\ Active(l)

(* validate_license finds the row, and its status and expiry let it go on. *)
Granted(l) == up /\ Approvable(l)

LookedAgain(l) ==
  IF Hit(vcache, l, now) THEN Stored(vcache, l, EntryOf(vcache, l).val) ELSE Got(vcache, l, now)

(* The cache after the lookup every validation begins with. *)
Looked(l) == Got(vcache, l, now)

(* A validation that is served from the cache, or refused: it stores       *)
(* nothing, and its session rolls back what it wrote.                      *)
Validate(l) ==
  /\ Hit(vcache, l, now) \/ ~Granted(l)
  /\ vcache' = Looked(l)
  /\ UNCHANGED <<tableVars, heal, warming, asking, editing>>

Probing == heal.healthy \/ now - heal.last >= ProbeInterval

(* A validation that finds nothing cached reads the row and the clock.     *)
(* What it goes on to await is the product, the audit event and the        *)
(* webhook rows.                                                           *)
Ask(r, l, healing) ==
  /\ ~Hit(vcache, l, now) /\ Granted(l)
  /\ healing => Probing
  /\ \A q \in asking : q.by # r
  /\ asking' = asking \cup {[by |-> r, of |-> l, at |-> now, late |-> Past(l),
                             edited |-> FALSE, healing |-> healing]}
  /\ vcache' = Looked(l)
  /\ UNCHANGED <<tableVars, heal, warming, editing>>

(* It caches what it has read.  SelfHealingValidator stores the same       *)
(* answer once more, in the same step.                                     *)
Answer(q) ==
  /\ q \in asking /\ asking' = asking \ {q}
  /\ vcache' = Stored(vcache, q.of,
                      [readAt |-> q.at, by |-> "validate", late |-> q.late,
                       edited |-> q.edited \/ q.of \in editing, renewed |-> FALSE])
  /\ heal' = IF q.healing THEN Healthy ELSE heal
  /\ UNCHANGED <<tableVars, warming, editing>>

(* One of its statements fails: it caches nothing.  SelfHealingValidator   *)
(* holds the database to be down and looks into the cache again.           *)
AskFails(q) ==
  /\ q \in asking /\ asking' = asking \ {q}
  /\ vcache' = IF q.healing THEN Looked(q.of) ELSE vcache
  /\ heal' = IF q.healing THEN Unhealthy ELSE heal
  /\ UNCHANGED <<tableVars, warming, editing>>

FlushUncleared(l) ==
  /\ up /\ Live(l) /\ l \notin editing
  /\ editing' = editing \cup {l}
  /\ UNCHANGED <<tableVars, vcache, heal, warming, asking>>

(* An edit writes its row, which locks it, and takes the approval out of   *)
(* the cache; other requests go on while it awaits the rest.               *)
EditFlush(l) ==
  /\ up /\ Live(l) /\ l \notin editing
  /\ editing' = editing \cup {l}
  /\ vcache' = Without(vcache, l)
  /\ UNCHANGED <<tableVars, heal, warming, asking>>

(* Its session commits when its handler has returned. *)
EditCommit(l) ==
  /\ l \in editing /\ editing' = editing \ {l}
  /\ Edited(l)
  /\ warming' = [warming EXCEPT !.edited = @ \cup ({l} \cap warming.todo)]
  /\ asking' = {q \in asking : q.of # l}
               \cup {[q EXCEPT !.edited = TRUE] : q \in {p \in asking : p.of = l}}
  /\ UNCHANGED <<vcache, heal>>

EditAborts(l) ==
  /\ l \in editing /\ editing' = editing \ {l}
  /\ UNCHANGED <<tableVars, vcache, heal, warming, asking>>

(* The cleanup's flush waits for the rows that are locked. *)
Cleanup == RunOut \cap editing = {} /\ SoftlyCleaned /\ UNCHANGED approvalVars

(* CacheWarmer.warm_licenses reads the TopN busiest active rows, without a *)
(* look at expires_at; machines_used is left out, so any of them may lead. *)
WarmSelect ==
  LET active == {l \in Licences : Active(l)}
  IN  /\ up /\ warming.todo = {}
      /\ \E rows \in SUBSET active :
           /\ rows # {}
           /\ Cardinality(rows) = IF Cardinality(active) > TopN THEN TopN ELSE Cardinality(active)
           /\ warming' = [todo |-> rows, edited |-> {}, at |-> now]
      /\ UNCHANGED <<tableVars, vcache, heal, asking, editing>>

(* It awaits the product of each row before it caches what it has read.    *)
WarmSet(l) ==
  /\ l \in warming.todo
  /\ vcache' = Stored(vcache, l, [readAt |-> warming.at, by |-> "warmer",
                                 late |-> lic[l].exp < warming.at,
                                 edited |-> l \in warming.edited \cup editing,
                                 renewed |-> FALSE])
  /\ warming' = IF warming.todo = {l} THEN Cold ELSE [warming EXCEPT !.todo = @ \ {l}]
  /\ UNCHANGED <<tableVars, heal, asking, editing>>

(* The database does not answer: warm_on_startup notes the error.          *)
WarmFails ==
  /\ ~up /\ warming.todo # {}
  /\ warming' = Cold
  /\ UNCHANGED <<tableVars, vcache, heal, asking, editing>>

(* A run of the warmer takes MaxWarm ticks at most, a validation           *)
(* MaxLatency ticks from its SELECT on.                                    *)
Waits ==
  /\ warming.todo # {} => now < warming.at + MaxWarm
  /\ \A q \in asking : now < q.at + MaxLatency

(* SelfHealingValidator.validate when validate_license answers from the    *)
(* cache: the answer is stored for another TTL.                            *)
Heal(l) ==
  /\ Probing /\ Hit(vcache, l, now)
  /\ vcache' = Stored(Looked(l), l, [EntryOf(vcache, l).val EXCEPT !.renewed = TRUE])
  /\ heal' = Healthy
  /\ UNCHANGED <<tableVars, warming, asking, editing>>

(* It refuses: the exception is swallowed, so the caller's session commits *)
(* the status validate_license set on a licence that has run out.          *)
HealRefused(l) ==
  /\ Probing /\ up /\ ~Hit(vcache, l, now) /\ ~Granted(l)
  /\ (l \notin editing /\ Lapsed(l)) \/ (~Active(l) /\ UNCHANGED tableVars)
  /\ vcache' = Looked(l)
  /\ heal' = Healthy
  /\ UNCHANGED <<warming, asking, editing>>

(* The database does not answer and there is nothing to fall back on. *)
HealFails(l) ==
  /\ Probing /\ ~up /\ ~Hit(vcache, l, now)
  /\ vcache' = Looked(l)
  /\ heal' = Unhealthy
  /\ UNCHANGED <<tableVars, warming, asking, editing>>

(* The database is held to be down and the next probe is not due. *)
HealCached(l) ==
  /\ ~Probing
  /\ vcache' = Looked(l)
  /\ UNCHANGED <<tableVars, heal, warming, asking, editing>>

(* A new process: the caches and the validator's view of the database are  *)
(* globals of the old one; its sessions are rolled back.                   *)
Restart ==
  /\ vcache' = <<>> /\ heal' = Healthy /\ warming' = Cold /\ asking' = {} /\ editing' = {}
  /\ UNCHANGED tableVars

ApprovalNext ==
  \/ ((Passes /\ Waits) \/ Turns) /\ UNCHANGED approvalVars
  \/ Cleanup
  \/ \E l \in Licences : Validate(l) \/ EditFlush(l) \/ EditCommit(l) \/ EditAborts(l)
  \/ \E r \in Requests, l \in Licences, healing \in BOOLEAN : Ask(r, l, healing)
  \/ \E q \in asking : Answer(q) \/ AskFails(q)
  \/ \E l \in Licences : Heal(l) \/ HealRefused(l) \/ HealFails(l) \/ HealCached(l)
  \/ WarmSelect \/ WarmFails
  \/ \E l \in Licences : WarmSet(l)
  \/ Restart

---------------------------------------------------------------------------
Served(l) == Hit(vcache, l, now)

(* How long after its row was read a component may cache an approval. *)
Delay(v) == IF v.by = "warmer" THEN MaxWarm ELSE MaxLatency

(* A cached approval is served for at most one TTL and the time its        *)
(* component took after the row behind it was read; the one way past that  *)
(* is SelfHealingValidator, which stores a cached answer again and can     *)
(* keep it for ever (self_healing.py:101).                                 *)
ApprovalIsRecent ==
  \A l \in Licences :
    Served(l) => LET v == EntryOf(vcache, l).val
                 IN  now - v.readAt <= ValTTL + Delay(v) \/ v.renewed

(* No component but the warmer approves a licence that had already run out *)
(* when it read the row (cache_warmer.py:60-86 selects by status and never *)
(* reads expires_at).                                                      *)
OnlyWarmerApprovesLate ==
  \A l \in Licences :
    Served(l) /\ EntryOf(vcache, l).val.late => EntryOf(vcache, l).val.by = "warmer"

(* An approval is served for a licence validate_license would refuse only  *)
(* in two cases.  The licence has run out, by the clock or by what the     *)
(* clock let the cleanup do to it.  Or an edit of it overlapped the        *)
(* approval's way into the cache: the row was read before the edit         *)
(* committed and cached after the edit had cleared the cache, by the       *)
(* warmer or by a validation (licensing/service.py:320, 353 and 517).      *)
(* Without such an overlap an edit leaves no approval, whatever was        *)
(* warmed, renewed or evicted before it.                                   *)
StaleApprovalRanOut ==
  \A l \in Licences : Served(l) /\ ~Approvable(l) => Past(l) \/ EntryOf(vcache, l).val.edited
=============================================================================
