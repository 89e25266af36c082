---------------------------- MODULE OfflineUsage ----------------------------
(***************************************************************************)
(* OfflineUsageTracker: a bounded buffer of usage events recorded while    *)
(* the database is out of reach, and the coroutines that bring them back.  *)
(*                                                                         *)
(* sync and sync_by_license take their list of events first and then await *)
(* once per event; everything between two awaits is one step.  sync calls  *)
(* record_usage of a service it is given with a session of its caller, who *)
(* commits after sync has returned; the callback of sync_by_license        *)
(* commits each event by itself.  Service and callback are the caller's:   *)
(* whether an event is accepted is theirs to say, and what they had        *)
(* written when they raised stays written.  (sync names no licence to the  *)
(* service, raw_key being empty: UsageService refuses that before it       *)
(* writes, so with it every event ends up Refused.)                        *)
(*                                                                         *)
(* Events are numbered as they are recorded.  The deque only grows at its  *)
(* end, and lists are taken from it in its order, so a set of events has   *)
(* the order of its numbers: the deque is the set of the events in it.     *)
(***************************************************************************)
EXTENDS Naturals, FiniteSets, TLC

CONSTANTS
  Syncers,      \* callers of sync
  Callers,      \* callers of sync_by_license
  Licenses,     \* licences events belong to
  MaxEvents,    \* bound: events recorded in all
  MaxBuffer,    \* max_buffer_size
  MaxAttempts,  \* max_sync_attempts; the attempts of an event saturate here
  Batch         \* batch_size

ASSUME SizesAssumption ==
  MaxEvents \in Nat /\ MaxBuffer \in Nat \ {0} /\ MaxAttempts \in Nat /\ Batch \in Nat \ {0}
ASSUME WorkersAssumption == Syncers \cap Callers = {}

Workers == Syncers \cup Callers
Events == 1 .. MaxEvents

(* "none": not recorded yet. *)
Event == [license : Licenses, attempts : 0 .. MaxAttempts,
          status : {"none", "pending", "syncing", "synced", "failed"}]

(* A coroutine: the events it still has to report, the oldest being the    *)
(* one it awaits; "commit": sync has returned to its caller.               *)
Job == [pc : {"idle", "await", "commit"}, todo : SUBSET Events]
Idle == [pc |-> "idle", todo |-> {}]

VARIABLES
  buffer,      \* the deque
  event,       \* the event objects; a coroutine may hold one the deque lost
  recorded,    \* number of events recorded so far
  isSyncing,   \* _is_syncing
  job,         \* the coroutines
  session,     \* events flushed in a caller's session and not committed
  usage,       \* usage records committed for each event, up to 2
  letgo,       \* history: evicted, cleared, purged as failed, or rolled
               \* back, and not reported since
  cancelled,   \* history: events whose report was cancelled, and that
               \* nobody has had an answer about since
  repeatable   \* history: events sync_by_license has selected, or whose
               \* report raised after it had written

vars == <<buffer, event, recorded, isSyncing, job, session, usage,
          letgo, cancelled, repeatable>>
history == <<letgo, cancelled, repeatable>>

Init ==
  /\ buffer = {} /\ recorded = 0 /\ isSyncing = FALSE
  /\ event \in [Events -> [license : Licenses, attempts : {0}, status : {"none"}]]
  /\ job = [w \in Workers |-> Idle]
  /\ session = [w \in Workers |-> {}]
  /\ usage = [e \in Events |-> 0]
  /\ letgo = {} /\ cancelled = {} /\ repeatable = {}

Oldest(s) == CHOOSE e \in s : \A f \in s : e <= f

-----------------------------------------------------------------------------
(* Mutant: a deque without maxlen. *)
RecordUnbounded ==
  /\ recorded < MaxEvents
  /\ recorded' = recorded + 1
  /\ event' = [event EXCEPT ![recorded + 1].status = "pending"]
  /\ buffer' = buffer \cup {recorded + 1}
  /\ UNCHANGED <<isSyncing, job, session, usage, history>>

(* A full deque drops its oldest event. *)
Record ==
  /\ recorded < MaxEvents
  /\ recorded' = recorded + 1
  /\ event' = [event EXCEPT ![recorded + 1].status = "pending"]
  /\ LET dropped == IF Cardinality(buffer) = MaxBuffer THEN {Oldest(buffer)} ELSE {}
     IN  /\ buffer' = (buffer \ dropped) \cup {recorded + 1}
         /\ letgo' = letgo \cup dropped
  /\ UNCHANGED <<isSyncing, job, session, usage, cancelled, repeatable>>

(* The next event is marked before it is awaited. *)
Marked(evs, todo) ==
  IF todo = {} THEN evs
  ELSE [evs EXCEPT ![Oldest(todo)].status = "syncing",
                   ![Oldest(todo)].attempts = IF @ < MaxAttempts THEN @ + 1 ELSE @]

(* Mutant: everything already tried is purged. *)
PurgedTried(evs) == {e \in buffer : evs[e].status = "pending"}

(* _purge_synced *)
Purged(evs) == {e \in buffer : evs[e].status # "synced"}

(* The coroutine w goes on with the events of todo, evs being the objects  *)
(* as it leaves them; with none left it purges and returns.                *)
Proceed(w, todo, evs) ==
  /\ event' = Marked(evs, todo)
  /\ buffer' = IF todo = {} THEN Purged(evs) ELSE buffer
  /\ job' = [job EXCEPT ![w] =
               IF todo # {} THEN [pc |-> "await", todo |-> todo]
               ELSE IF w \in Syncers THEN [pc |-> "commit", todo |-> {}] ELSE Idle]
  /\ isSyncing' = IF w \in Syncers THEN todo # {} ELSE isSyncing

Due == {e \in buffer : event[e].status \in {"pending", "failed"}}

FirstOf(s, n) == {e \in s : Cardinality({f \in s : f < e}) < n}

(* Mutant: the flag is not looked at. *)
StartSyncUnguarded(w) ==
  /\ job[w].pc = "idle"
  /\ Proceed(w, FirstOf(Due, Batch), event)
  /\ UNCHANGED <<recorded, session, usage, history>>

(* With another sync under way the call returns at once: no step. *)
StartSync(w) ==
  /\ job[w].pc = "idle" /\ ~isSyncing
  /\ Proceed(w, FirstOf(Due, Batch), event)
  /\ UNCHANGED <<recorded, session, usage, history>>

StartByLicense(w, l) ==
  /\ job[w].pc = "idle"
  /\ LET selected == {e \in Due : event[e].license = l}
     IN  Proceed(w, selected, event) /\ repeatable' = repeatable \cup selected
  /\ UNCHANGED <<recorded, session, usage, letgo, cancelled>>

(* The awaited event is flushed in the caller's session, or committed.     *)
Written(w) ==
  LET e == Oldest(job[w].todo)
  IN  /\ letgo' = letgo \ {e}
      /\ IF w \in Syncers
         THEN session' = [session EXCEPT ![w] = @ \cup {e}] /\ UNCHANGED usage
         ELSE usage' = [usage EXCEPT ![e] = IF @ < 2 THEN @ + 1 ELSE @] /\ UNCHANGED session

(* The await ends, with an answer that gives the event its status. *)
Answered(w, status) ==
  LET e == Oldest(job[w].todo)
  IN  /\ job[w].pc = "await"
      /\ Proceed(w, job[w].todo \ {e}, [event EXCEPT ![e].status = status])
      /\ cancelled' = cancelled \ {e}
      /\ UNCHANGED recorded

(* record_usage, or the callback, has accepted the event. *)
Accepted(w) ==
  /\ Answered(w, "synced") /\ Written(w)
  /\ UNCHANGED repeatable

(* Mutant: the handler leaves the status alone. *)
RaisedStuck(w) == Answered(w, "syncing")

(* It raised; the handler keeps the event for another batch. *)
Raised(w) ==
  Answered(w, IF event[Oldest(job[w].todo)].attempts >= MaxAttempts THEN "failed" ELSE "pending")

Refused(w) == Raised(w) /\ UNCHANGED <<session, usage, letgo, repeatable>>

(* It raised, but after it had written: the total, the audit event and the *)
(* webhook come after the flush, and the session does not learn of what    *)
(* the handler swallows.                                                   *)
Halfway(w) ==
  /\ Raised(w) /\ Written(w)
  /\ repeatable' = repeatable \cup {Oldest(job[w].todo)}

(* Mutant: no finally clause. *)
CancelFlagKept(w) ==
  /\ job[w].pc = "await"
  /\ job' = [job EXCEPT ![w] = Idle]
  /\ session' = [session EXCEPT ![w] = {}]
  /\ letgo' = letgo \cup session[w]
  /\ cancelled' = cancelled \cup {Oldest(job[w].todo)}
  /\ UNCHANGED <<buffer, event, recorded, isSyncing, usage, repeatable>>

(* CancelledError is not an Exception: it passes the handler that resets   *)
(* the event, reaches the finally clause, and rolls the session back.      *)
Cancel(w) ==
  /\ job[w].pc = "await"
  /\ job' = [job EXCEPT ![w] = Idle]
  /\ isSyncing' = IF w \in Syncers THEN FALSE ELSE isSyncing
  /\ session' = [session EXCEPT ![w] = {}]
  /\ letgo' = letgo \cup session[w]
  /\ cancelled' = cancelled \cup {Oldest(job[w].todo)}
  /\ UNCHANGED <<buffer, event, recorded, usage, repeatable>>

(* The caller of sync ends its session. *)
Commit(w) ==
  /\ job[w].pc = "commit"
  /\ usage' = [e \in Events |-> IF e \in session[w] /\ usage[e] < 2 THEN usage[e] + 1 ELSE usage[e]]
  /\ job' = [job EXCEPT ![w] = Idle]
  /\ session' = [session EXCEPT ![w] = {}]
  /\ UNCHANGED <<buffer, event, recorded, isSyncing, history>>

Rollback(w) ==
  /\ job[w].pc = "commit"
  /\ letgo' = letgo \cup session[w]
  /\ job' = [job EXCEPT ![w] = Idle]
  /\ session' = [session EXCEPT ![w] = {}]
  /\ UNCHANGED <<buffer, event, recorded, isSyncing, usage, cancelled, repeatable>>

(* The events of gone leave the buffer. *)
Discard(gone) ==
  /\ buffer' = buffer \ gone
  /\ letgo' = letgo \cup (buffer \cap gone)
  /\ UNCHANGED <<event, recorded, isSyncing, job, session, usage, cancelled, repeatable>>

PurgeFailed == Discard({e \in Events : event[e].status = "failed" /\ event[e].attempts >= MaxAttempts})

Clear == Discard(Events)

-----------------------------------------------------------------------------
Next ==
  \/ Record
  \/ \E w \in Syncers : StartSync(w) \/ Commit(w) \/ Rollback(w)
  \/ \E w \in Callers, l \in Licenses : StartByLicense(w, l)
  \/ \E w \in Workers : Accepted(w) \/ Refused(w) \/ Halfway(w) \/ Cancel(w)
  \/ PurgeFailed \/ Clear

Spec == Init /\ [][Next]_vars

-----------------------------------------------------------------------------
(* Type invariant of the buffer, the events, the coroutines and sessions. *)
TypeOK ==
  /\ buffer \in SUBSET Events /\ Cardinality(buffer) <= MaxBuffer
  /\ event \in [Events -> Event]
  /\ recorded \in 0 .. MaxEvents
  /\ isSyncing \in BOOLEAN
  /\ job \in [Workers -> Job]
  /\ session \in [Workers -> SUBSET Events]
  /\ usage \in [Events -> 0 .. 2]
  /\ letgo \cup cancelled \cup repeatable \subseteq Events

(* No event disappears on the way: it is still buffered, or its usage is   *)
(* in the database or in an open session, or it was discarded on purpose   *)
(* or by a full buffer, or the caller's rollback undid it.                 *)
NothingVanishes ==
  \A e \in 1 .. recorded :
    \/ e \in buffer \/ usage[e] > 0 \/ e \in letgo
    \/ \E w \in Workers : e \in session[w]

(* However reports are retried, cancelled or rolled back, an event is      *)
(* counted twice for two reasons only: sync_by_license, which ignores the  *)
(* flag, has taken it as well, or a report raised after it had written, is *)
(* kept by the swallowed exception and made again.  All else sync counts   *)
(* once: the flag keeps batches apart, and a reported event leaves the     *)
(* buffer before the next batch is taken.                                  *)
CountedOnceBySync ==
  /\ \A e \in Events \ repeatable : usage[e] <= 1
  /\ \A v, w \in Syncers : v # w => session[v] \cap session[w] \subseteq repeatable

(* The flag is up exactly while a sync is under way, so that no failure or *)
(* cancellation locks later syncs out.                                     *)
FlagMeansSyncing == isSyncing <=> \E w \in Syncers : job[w].pc = "await"

(* An event marked syncing is being reported by somebody, unless its       *)
(* report was cancelled.                                                   *)
SyncingIsInFlight ==
  \A e \in Events : event[e].status = "syncing" /\ e \notin cancelled =>
    \E w \in Workers : job[w].pc = "await" /\ Oldest(job[w].todo) = e

-----------------------------------------------------------------------------
(* Callers, and licences, are interchangeable (for TLC). *)
Symmetry == Permutations(Syncers) \cup Permutations(Callers) \cup Permutations(Licenses)
=============================================================================
