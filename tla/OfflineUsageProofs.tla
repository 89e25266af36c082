-------------------------- MODULE OfflineUsageProofs --------------------------
(***************************************************************************)
(* Theorems about OfflineUsage, for any number of coroutines, licences and *)
(* events and any sizes: its type invariant and its four safety invariants.*)
(*                                                                         *)
(* The inductive invariant says what the coroutines hold (Coroutines),     *)
(* where the usage of a reported event is (Accounted), and what neither a  *)
(* call of sync_by_license nor a report that raised after it had written   *)
(* has touched (Unrepeated): there an event is in the batch of one sync at *)
(* most, and once reported is never taken again.                           *)
(***************************************************************************)
EXTENDS OfflineUsage, FiniteSetTheorems, WellFoundedInduction, TLAPS

Awaits(w) == job[w].pc = "await"

Coroutines ==
  /\ \A w \in Workers : Awaits(w) <=> job[w].todo # {}
  /\ \A w \in Workers : job[w].todo \subseteq 1 .. recorded
  /\ \A v, w \in Syncers : Awaits(v) /\ Awaits(w) => v = w
  /\ buffer \subseteq 1 .. recorded
  /\ \A e \in Events : e > recorded => event[e].status = "none"

(* The usage of e is in the database or on its way there, or was given up. *)
Account(e) ==
  \/ usage[e] > 0 \/ e \in letgo
  \/ \E w \in Workers : e \in session[w]

Accounted ==
  /\ \A e \in 1 .. recorded : e \in buffer \/ Account(e)
  /\ \A e \in Events : event[e].status = "synced" => Account(e)

Unrepeated ==
  /\ \A w \in Callers : job[w].todo \subseteq repeatable
  /\ \A e \in Events \ repeatable :
       /\ usage[e] <= 1
       /\ usage[e] > 0 => event[e].status = "synced"
       /\ \A w \in Workers : e \in session[w] => event[e].status = "synced" /\ usage[e] = 0
       /\ \A v, w \in Workers : e \in session[v] /\ e \in session[w] => v = w
       /\ \A w \in Syncers : e \in job[w].todo => event[e].status # "synced"

Inv ==
  /\ TypeOK /\ Coroutines /\ FlagMeansSyncing /\ SyncingIsInFlight
  /\ Accounted /\ Unrepeated

-----------------------------------------------------------------------------
(* A set of events that is not empty has an oldest one: the naturals are   *)
(* well founded.                                                           *)
LEMMA OldestIsLeast ==
  ASSUME NEW s, s \subseteq Events, s # {}
  PROVE  Oldest(s) \in s /\ \A f \in s : Oldest(s) <= f
<1> DEFINE below == {p \in Nat \X Nat : p[1] < p[2]}
<1>1. IsWellFoundedOn(below, Nat)
  BY NatLessThanWellFounded DEF OpToRel
<1>2. s \subseteq Nat
  BY SizesAssumption DEF Events
<1>3. PICK e \in s : \A f \in s : ~(<<f, e>> \in below)
  BY <1>1, <1>2, WFMin
<1>4. ASSUME NEW f \in s PROVE e <= f
  <2>1. e \in Nat /\ f \in Nat /\ <<f, e>> \notin below
    BY <1>2, <1>3
  <2> QED BY <2>1
<1> QED BY <1>4 DEF Oldest

(* Marking touches the oldest event of the list alone. *)
LEMMA MarkedEvents ==
  ASSUME NEW evs \in [Events -> Event], NEW todo, todo \subseteq Events
  PROVE  /\ Marked(evs, todo) \in [Events -> Event]
         /\ \A e \in Events : IF todo # {} /\ e = Oldest(todo)
                              THEN Marked(evs, todo)[e].status = "syncing"
                              ELSE Marked(evs, todo)[e] = evs[e]
<1>1. CASE todo = {}
  BY <1>1 DEF Marked
<1>2. CASE todo # {}
  <2> DEFINE o == Oldest(todo)
             n == IF evs[o].attempts < MaxAttempts THEN evs[o].attempts + 1 ELSE evs[o].attempts
  <2>1. o \in Events
    BY <1>2, OldestIsLeast
  <2>2. n \in 0 .. MaxAttempts
    BY <2>1, SizesAssumption DEF Event
  <2>3. Marked(evs, todo) = [evs EXCEPT ![o].status = "syncing", ![o].attempts = n]
    BY <1>2, <2>1 DEF Marked, Event
  <2> HIDE DEF n, o
  <2>4. Marked(evs, todo) \in [Events -> Event] /\ Marked(evs, todo)[o].status = "syncing"
    BY <2>1, <2>2, <2>3 DEF Event
  <2>5. \A e \in Events \ {o} : Marked(evs, todo)[e] = evs[e]
    BY <2>1, <2>3
  <2> QED BY <1>2, <2>4, <2>5 DEF o
<1> QED BY <1>1, <1>2

(* What a coroutine leaves when it goes on: its own job, the events as evs *)
(* with the next one marked, and a buffer that lost reported events only.  *)
LEMMA ProceedLeaves ==
  ASSUME TypeOK, NEW w \in Workers, NEW todo, todo \subseteq Events,
         NEW evs \in [Events -> Event], Proceed(w, todo, evs)
  PROVE  /\ job' \in [Workers -> Job] /\ event' \in [Events -> Event] /\ isSyncing' \in BOOLEAN
         /\ buffer' \subseteq buffer /\ Cardinality(buffer') <= MaxBuffer
         /\ \A e \in buffer \ buffer' : event'[e].status = "synced"
         /\ \A v \in Workers \ {w} : job'[v] = job[v]
         /\ job'[w].todo = todo /\ (job'[w].pc = "await" <=> todo # {})
         /\ \A e \in Events : IF todo # {} /\ e = Oldest(todo)
                              THEN event'[e].status = "syncing" ELSE event'[e] = evs[e]
         /\ todo # {} => Oldest(todo) \in todo
<1>1. /\ event' \in [Events -> Event]
      /\ \A e \in Events : IF todo # {} /\ e = Oldest(todo)
                           THEN event'[e].status = "syncing" ELSE event'[e] = evs[e]
  BY MarkedEvents DEF Proceed
<1>2. /\ job' \in [Workers -> Job] /\ (\A v \in Workers \ {w} : job'[v] = job[v])
      /\ job'[w].todo = todo /\ (job'[w].pc = "await" <=> todo # {})
  BY DEF Proceed, TypeOK, Job, Idle
<1>3. buffer' \subseteq buffer /\ \A e \in buffer \ buffer' : event'[e].status = "synced"
  BY <1>1 DEF Proceed, Purged, TypeOK
<1>4. Cardinality(buffer') <= MaxBuffer
  <2>1. IsFiniteSet(buffer)
    BY SizesAssumption, FS_Interval, FS_Subset, 1 \in Int, MaxEvents \in Int DEF TypeOK, Events
  <2>2. Cardinality(buffer') <= Cardinality(buffer) /\ Cardinality(buffer') \in Nat /\ Cardinality(buffer) \in Nat
    BY <1>3, <2>1, FS_Subset, FS_CardinalityType
  <2> QED BY <2>2, SizesAssumption DEF TypeOK
<1>5. isSyncing' \in BOOLEAN
  BY DEF Proceed, TypeOK
<1>6. todo # {} => Oldest(todo) \in todo
  BY OldestIsLeast
<1> QED BY <1>1, <1>2, <1>3, <1>4, <1>5, <1>6

(* A coroutine awaits the oldest of the events it holds, which is recorded.*)
LEMMA AwaitedEvent ==
  ASSUME TypeOK, Coroutines, NEW w \in Workers, Awaits(w)
  PROVE  Oldest(job[w].todo) \in job[w].todo /\ Oldest(job[w].todo) \in Events /\ job[w].todo \subseteq Events
<1>1. job[w].todo \subseteq Events /\ job[w].todo # {}
  BY DEF TypeOK, Coroutines, Job
<1> QED BY <1>1, OldestIsLeast

(* The lists StartSync and StartByLicense take hold buffered events that   *)
(* are due.                                                                *)
LEMMA TakenEvents ==
  ASSUME TypeOK
  PROVE  /\ FirstOf(Due, Batch) \subseteq Due /\ Due \subseteq buffer /\ Due \subseteq Events
         /\ \A e \in Due : event[e].status \in {"pending", "failed"}
BY DEF FirstOf, Due, TypeOK

(* The events after the answer to an awaited call. *)
LEMMA AnsweredEvent ==
  ASSUME TypeOK, NEW e \in Events, NEW st \in {"synced", "failed", "pending"}
  PROVE  /\ [event EXCEPT ![e].status = st] \in [Events -> Event]
         /\ [event EXCEPT ![e].status = st][e].status = st
         /\ \A f \in Events \ {e} : [event EXCEPT ![e].status = st][f] = event[f]
BY DEF TypeOK, Event

(* The four actions in which a coroutine goes on, in one form: the list it *)
(* goes on with, and the events as the answer, if there was one, left them.*)
GoesOn(w, todo, evs) ==
  /\ Proceed(w, todo, evs) /\ recorded' = recorded /\ cancelled' \subseteq cancelled
  /\ cancelled \ cancelled' \subseteq {Oldest(job[w].todo)}
  /\ cancelled # cancelled' => Awaits(w)
  /\ w \in Syncers => Awaits(w) \/ ~isSyncing
  /\ todo \subseteq Events /\ evs \in [Events -> Event]
  /\ todo \subseteq job[w].todo \/ (todo \subseteq Due /\ job[w].pc = "idle")
  /\ \A e \in Events : evs[e] # event[e] =>
       /\ Awaits(w) /\ e = Oldest(job[w].todo) /\ e \in job[w].todo /\ e \notin todo
       /\ evs[e].status \in {"synced", "failed", "pending"}
  /\ Awaits(w) => evs[Oldest(job[w].todo)].status # "syncing" /\ Oldest(job[w].todo) \notin todo

LEMMA StartSyncGoesOn ==
  ASSUME TypeOK, NEW w \in Syncers, StartSync(w)
  PROVE  GoesOn(w, FirstOf(Due, Batch), event)
BY TakenEvents DEF StartSync, GoesOn, TypeOK, Awaits, history

LEMMA StartByLicenseGoesOn ==
  ASSUME TypeOK, NEW w \in Callers, NEW l, StartByLicense(w, l)
  PROVE  GoesOn(w, {e \in Due : event[e].license = l}, event)
BY TakenEvents, WorkersAssumption DEF StartByLicense, GoesOn, TypeOK, Awaits

LEMMA AnsweredGoesOn ==
  ASSUME TypeOK, Coroutines, NEW w \in Workers, NEW st \in {"synced", "failed", "pending"}, Answered(w, st)
  PROVE  LET e == Oldest(job[w].todo)
         IN  GoesOn(w, job[w].todo \ {e}, [event EXCEPT ![e].status = st])
<1>1. Awaits(w)
  BY DEF Answered, Awaits
<1> DEFINE e == Oldest(job[w].todo)
<1>2. e \in job[w].todo /\ e \in Events /\ job[w].todo \subseteq Events
  BY <1>1, AwaitedEvent
<1>3. /\ Proceed(w, job[w].todo \ {e}, [event EXCEPT ![e].status = st])
      /\ recorded' = recorded /\ cancelled' = cancelled \ {e}
  BY DEF Answered
<1> HIDE DEF e
<1>4. /\ [event EXCEPT ![e].status = st] \in [Events -> Event]
      /\ [event EXCEPT ![e].status = st][e].status = st
      /\ \A f \in Events \ {e} : [event EXCEPT ![e].status = st][f] = event[f]
  BY <1>2, AnsweredEvent
<1>5. cancelled' \subseteq cancelled /\ cancelled \ cancelled' \subseteq {e}
  BY <1>3
<1> QED BY <1>1, <1>2, <1>3, <1>4, <1>5 DEF GoesOn, e

(* A call that raised leaves the event failed or pending. *)
LEMMA RaisedIsAnswered ==
  ASSUME NEW w, Raised(w)
  PROVE  \E st \in {"failed", "pending"} : Answered(w, st)
BY DEF Raised

(* A coroutine that goes on keeps the flag and the marks truthful: the     *)
(* event it leaves is not marked any more, the one it takes up is.         *)
LEMMA GoesOnPreserves ==
  ASSUME TypeOK, Coroutines, FlagMeansSyncing, SyncingIsInFlight,
         NEW w \in Workers, NEW todo, NEW evs, GoesOn(w, todo, evs)
  PROVE  /\ buffer' \in SUBSET Events /\ Cardinality(buffer') <= MaxBuffer /\ event' \in [Events -> Event]
         /\ isSyncing' \in BOOLEAN /\ job' \in [Workers -> Job]
         /\ Coroutines' /\ FlagMeansSyncing' /\ SyncingIsInFlight'
<1>1. /\ todo \subseteq Events /\ evs \in [Events -> Event] /\ recorded' = recorded
      /\ Proceed(w, todo, evs)
      /\ w \in Syncers => Awaits(w) \/ ~isSyncing
  BY DEF GoesOn
<1>2. /\ job' \in [Workers -> Job] /\ event' \in [Events -> Event] /\ isSyncing' \in BOOLEAN
      /\ buffer' \subseteq buffer /\ Cardinality(buffer') <= MaxBuffer
      /\ \A v \in Workers \ {w} : job'[v] = job[v]
      /\ job'[w].todo = todo /\ (job'[w].pc = "await" <=> todo # {})
      /\ \A e \in Events : IF todo # {} /\ e = Oldest(todo)
                           THEN event'[e].status = "syncing" ELSE event'[e] = evs[e]
      /\ todo # {} => Oldest(todo) \in todo
  BY <1>1, ProceedLeaves
<1>3. todo \subseteq 1 .. recorded
  <2>1. job[w].todo \subseteq 1 .. recorded /\ buffer \subseteq 1 .. recorded /\ Due \subseteq buffer
    BY TakenEvents DEF Coroutines
  <2> QED BY <2>1 DEF GoesOn
<1>4. \A e \in Events : e > recorded => event'[e].status = "none"
  <2> SUFFICES ASSUME NEW e \in Events, e > recorded PROVE event'[e].status = "none"
    OBVIOUS
  <2>1. e \notin 1 .. recorded /\ e \notin todo /\ e \notin job[w].todo
    BY <1>3 DEF Coroutines, TypeOK
  <2>2. evs[e] = event[e]
    BY <2>1 DEF GoesOn
  <2> QED BY <1>2, <2>1, <2>2 DEF Coroutines
<1>5. FlagMeansSyncing' /\ \A u, v \in Syncers : Awaits(u)' /\ Awaits(v)' => u = v
  <2>1. CASE w \in Syncers
    <3>1. isSyncing' = (todo # {})
      BY <1>1, <2>1 DEF Proceed
    <3>2. \A v \in Syncers \ {w} : ~Awaits(v)
      BY <1>1, <2>1 DEF FlagMeansSyncing, Coroutines, Awaits
    <3> QED BY <1>2, <2>1, <3>1, <3>2 DEF FlagMeansSyncing, Awaits, Workers
  <2>2. CASE w \notin Syncers
    <3>1. isSyncing' = isSyncing /\ \A v \in Syncers : job'[v] = job[v]
      BY <1>1, <1>2, <2>2 DEF Proceed, Workers
    <3> QED BY <3>1 DEF FlagMeansSyncing, Awaits, Coroutines
  <2> QED BY <2>1, <2>2
<1>6. Coroutines'
  BY <1>1, <1>2, <1>3, <1>4, <1>5 DEF Coroutines, Awaits
<1>7. SyncingIsInFlight'
  <2> SUFFICES ASSUME NEW e \in Events, event'[e].status = "syncing", e \notin cancelled'
               PROVE \E v \in Workers : job'[v].pc = "await" /\ Oldest(job'[v].todo) = e
    BY <1>1 DEF SyncingIsInFlight
  <2>1. CASE todo # {} /\ e = Oldest(todo)
    BY <1>2, <2>1
  <2>2. CASE ~(todo # {} /\ e = Oldest(todo))
    <3>1. event'[e] = evs[e]
      BY <1>2, <2>2
    <3>2. evs[e] = event[e]
      BY <3>1 DEF GoesOn
    <3>5. e \notin cancelled
      BY <3>1 DEF GoesOn
    <3>3. PICK v \in Workers : job[v].pc = "await" /\ Oldest(job[v].todo) = e
      BY <3>1, <3>2, <3>5 DEF SyncingIsInFlight
    <3>4. v # w
      BY <3>1, <3>3 DEF GoesOn, Awaits
    <3> QED BY <1>2, <3>3, <3>4
  <2> QED BY <2>1, <2>2
<1> QED BY <1>1, <1>2, <1>5, <1>6, <1>7 DEF TypeOK

(* The sessions and the usage records after a report was written. *)
LEMMA WrittenUsage ==
  ASSUME TypeOK, NEW w \in Workers, Written(w), Oldest(job[w].todo) \in Events
  PROVE  LET e == Oldest(job[w].todo)
         IN  /\ session' \in [Workers -> SUBSET Events] /\ usage' \in [Events -> 0 .. 2]
             /\ letgo' = letgo \ {e}
             /\ w \in Syncers => /\ usage' = usage /\ session'[w] = session[w] \cup {e}
                                 /\ \A v \in Workers \ {w} : session'[v] = session[v]
             /\ w \notin Syncers => /\ session' = session /\ usage'[e] > 0
                                    /\ \A f \in Events \ {e} : usage'[f] = usage[f]
<1> DEFINE e == Oldest(job[w].todo)
<1>1. /\ letgo' = letgo \ {e}
      /\ IF w \in Syncers
         THEN session' = [session EXCEPT ![w] = @ \cup {e}] /\ UNCHANGED usage
         ELSE usage' = [usage EXCEPT ![e] = IF @ < 2 THEN @ + 1 ELSE @] /\ UNCHANGED session
  BY DEF Written
<1> HIDE DEF e
<1>2. CASE w \in Syncers
  BY <1>1, <1>2 DEF TypeOK, e
<1>3. CASE w \notin Syncers
  BY <1>1, <1>3 DEF TypeOK, e
<1> QED BY <1>2, <1>3

Core == TypeOK /\ Coroutines /\ FlagMeansSyncing /\ SyncingIsInFlight

(* A new event is pending, and takes the place of the oldest of a full     *)
(* buffer.                                                                 *)
LEMMA RecordLeaves ==
  ASSUME TypeOK, Coroutines, Record
  PROVE  /\ buffer' \in SUBSET Events /\ Cardinality(buffer') <= MaxBuffer
         /\ recorded' = recorded + 1 /\ recorded' \in Events
         /\ buffer' \subseteq buffer \cup {recorded'} /\ recorded' \in buffer'
         /\ letgo' \subseteq Events /\ letgo \subseteq letgo' /\ buffer \ buffer' \subseteq letgo'
         /\ event' \in [Events -> Event] /\ event'[recorded'].status = "pending"
         /\ \A e \in Events \ {recorded'} : event'[e] = event[e]
         /\ UNCHANGED <<isSyncing, job, session, usage, cancelled, repeatable>>
<1> USE SizesAssumption
<1> DEFINE dropped == IF Cardinality(buffer) = MaxBuffer THEN {Oldest(buffer)} ELSE {}
<1>1. /\ recorded < MaxEvents /\ recorded' = recorded + 1
      /\ event' = [event EXCEPT ![recorded + 1].status = "pending"]
      /\ buffer' = (buffer \ dropped) \cup {recorded + 1} /\ letgo' = letgo \cup dropped
      /\ UNCHANGED <<isSyncing, job, session, usage, cancelled, repeatable>>
  BY DEF Record
<1>2. recorded + 1 \in Events /\ recorded + 1 \notin buffer /\ buffer \subseteq Events /\ recorded \in Nat
  BY <1>1 DEF Events, TypeOK, Coroutines
<1>3. IsFiniteSet(buffer) /\ Cardinality(buffer) \in Nat
  BY <1>2, FS_Interval, FS_Subset, FS_CardinalityType, 1 \in Int, MaxEvents \in Int DEF Events
<1>4. dropped \subseteq buffer /\ IsFiniteSet(buffer \ dropped) /\ Cardinality(buffer \ dropped) + 1 <= MaxBuffer
  <2>1. CASE Cardinality(buffer) = MaxBuffer
    <3>1. buffer # {}
      BY <2>1, FS_EmptySet
    <3>2. Oldest(buffer) \in buffer
      BY <1>2, <3>1, OldestIsLeast
    <3> QED BY <1>3, <2>1, <3>2, FS_RemoveElement
  <2>2. CASE Cardinality(buffer) # MaxBuffer
    <3>1. dropped = {} /\ buffer \ dropped = buffer
      BY <2>2
    <3>2. Cardinality(buffer) <= MaxBuffer
      BY DEF TypeOK
    <3> HIDE DEF dropped
    <3> QED BY <1>3, <2>2, <3>1, <3>2
  <2> QED BY <2>1, <2>2
<1> HIDE DEF dropped
<1>5. Cardinality(buffer') <= MaxBuffer
  <2>1. recorded + 1 \notin buffer \ dropped
    BY <1>2
  <2>2. Cardinality(buffer') = Cardinality(buffer \ dropped) + 1
    BY <1>1, <1>4, <2>1, FS_AddElement
  <2> QED BY <1>4, <2>2
<1>6. /\ event' \in [Events -> Event] /\ event'[recorded'].status = "pending"
      /\ \A e \in Events \ {recorded'} : event'[e] = event[e]
  BY <1>1, <1>2 DEF TypeOK, Event
<1>7. letgo \subseteq Events
  BY DEF TypeOK
<1> QED BY <1>1, <1>2, <1>4, <1>5, <1>6, <1>7

(* Dropping events from the buffer on purpose. *)
LEMMA DiscardLeaves ==
  ASSUME TypeOK, NEW gone, gone \subseteq Events, Discard(gone)
  PROVE  /\ buffer' \in SUBSET Events /\ Cardinality(buffer') <= MaxBuffer /\ buffer' \subseteq buffer
         /\ letgo' \subseteq Events /\ letgo \subseteq letgo' /\ buffer \ buffer' \subseteq letgo'
         /\ UNCHANGED <<event, recorded, isSyncing, job, session, usage, cancelled, repeatable>>
<1>1. /\ buffer' = buffer \ gone /\ letgo' = letgo \cup (buffer \cap gone)
      /\ UNCHANGED <<event, recorded, isSyncing, job, session, usage, cancelled, repeatable>>
  BY DEF Discard
<1>2. IsFiniteSet(buffer)
  BY SizesAssumption, FS_Interval, FS_Subset, 1 \in Int, MaxEvents \in Int DEF TypeOK, Events
<1>3. Cardinality(buffer') <= Cardinality(buffer) /\ Cardinality(buffer') \in Nat /\ Cardinality(buffer) \in Nat
  BY <1>1, <1>2, FS_Subset, FS_CardinalityType
<1>4. Cardinality(buffer') <= MaxBuffer
  BY <1>3, SizesAssumption DEF TypeOK
<1> QED BY <1>1, <1>4 DEF TypeOK

(* Types, the coroutines' lists, the flag and the marks, action by action. *)
LEMMA CorePreserved == Core /\ [Next]_vars => Core'
<1> SUFFICES ASSUME Core, [Next]_vars PROVE Core'
  OBVIOUS
<1>0. TypeOK /\ Coroutines /\ FlagMeansSyncing /\ SyncingIsInFlight
  BY DEF Core
<1> USE <1>0
<1>1. CASE Record
  <2>1. /\ buffer' \in SUBSET Events /\ Cardinality(buffer') <= MaxBuffer
        /\ recorded' = recorded + 1 /\ recorded' \in Events /\ buffer' \subseteq buffer \cup {recorded'}
        /\ letgo' \subseteq Events
        /\ event' \in [Events -> Event] /\ event'[recorded'].status = "pending"
        /\ \A e \in Events \ {recorded'} : event'[e] = event[e]
        /\ UNCHANGED <<isSyncing, job, session, usage, cancelled, repeatable>>
    BY <1>1, RecordLeaves
  <2>2. TypeOK'
    <3>1. recorded' \in 0 .. MaxEvents
      BY <2>1, SizesAssumption DEF Events
    <3> QED BY <2>1, <3>1 DEF TypeOK
  <2>3. Coroutines'
    BY <2>1, SizesAssumption DEF TypeOK, Coroutines, Awaits, Events
  <2>4. FlagMeansSyncing' /\ SyncingIsInFlight'
    BY <2>1 DEF FlagMeansSyncing, SyncingIsInFlight
  <2> QED BY <2>2, <2>3, <2>4 DEF Core
<1>2. ASSUME NEW w \in Syncers, StartSync(w) PROVE Core'
  <2>1. GoesOn(w, FirstOf(Due, Batch), event)
    BY <1>2, StartSyncGoesOn
  <2>2. /\ buffer' \in SUBSET Events /\ Cardinality(buffer') <= MaxBuffer /\ event' \in [Events -> Event]
        /\ isSyncing' \in BOOLEAN /\ job' \in [Workers -> Job]
        /\ Coroutines' /\ FlagMeansSyncing' /\ SyncingIsInFlight'
    BY <2>1, GoesOnPreserves DEF Workers
  <2> QED BY <1>2, <2>2 DEF StartSync, Core, TypeOK, history
<1>3. ASSUME NEW w \in Callers, NEW l \in Licenses, StartByLicense(w, l) PROVE Core'
  <2>1. GoesOn(w, {e \in Due : event[e].license = l}, event)
    BY <1>3, StartByLicenseGoesOn
  <2>2. /\ buffer' \in SUBSET Events /\ Cardinality(buffer') <= MaxBuffer /\ event' \in [Events -> Event]
        /\ isSyncing' \in BOOLEAN /\ job' \in [Workers -> Job]
        /\ Coroutines' /\ FlagMeansSyncing' /\ SyncingIsInFlight'
    BY <2>1, GoesOnPreserves DEF Workers
  <2>3. repeatable' \subseteq Events
    BY <1>3, TakenEvents DEF StartByLicense, TypeOK
  <2> QED BY <1>3, <2>2, <2>3 DEF StartByLicense, Core, TypeOK
<1>4. ASSUME NEW w \in Workers, NEW st \in {"synced", "failed", "pending"}, Answered(w, st),
             Written(w) \/ UNCHANGED <<session, usage, letgo>>, repeatable' \subseteq Events
      PROVE  Core'
  <2>1. GoesOn(w, job[w].todo \ {Oldest(job[w].todo)}, [event EXCEPT ![Oldest(job[w].todo)].status = st])
    BY <1>4, AnsweredGoesOn
  <2>2. /\ buffer' \in SUBSET Events /\ Cardinality(buffer') <= MaxBuffer /\ event' \in [Events -> Event]
        /\ isSyncing' \in BOOLEAN /\ job' \in [Workers -> Job]
        /\ Coroutines' /\ FlagMeansSyncing' /\ SyncingIsInFlight'
    BY <2>1, GoesOnPreserves
  <2>3. Oldest(job[w].todo) \in Events
    BY <1>4, AwaitedEvent DEF Answered, Awaits
  <2>4. session' \in [Workers -> SUBSET Events] /\ usage' \in [Events -> 0 .. 2] /\ letgo' \subseteq Events
    BY <1>4, <2>3, WrittenUsage DEF TypeOK
  <2>5. recorded' \in 0 .. MaxEvents /\ cancelled' \subseteq Events
    BY <1>4 DEF Answered, TypeOK
  <2> QED BY <1>4, <2>2, <2>4, <2>5 DEF Core, TypeOK
<1>5. ASSUME NEW w \in Workers, Accepted(w) \/ Refused(w) \/ Halfway(w) PROVE Core'
  <2>1. CASE Accepted(w)
    BY <1>4, <2>1 DEF Accepted, TypeOK
  <2>2. ASSUME NEW st \in {"failed", "pending"}, Answered(w, st), Refused(w) \/ Halfway(w) PROVE Core'
    <3>1. Oldest(job[w].todo) \in Events
      BY <2>2, AwaitedEvent DEF Answered, Awaits
    <3>2. /\ Written(w) \/ UNCHANGED <<session, usage, letgo>>
          /\ repeatable' \subseteq Events
      BY <2>2, <3>1 DEF Refused, Halfway, TypeOK
    <3> QED BY <1>4, <2>2, <3>2
  <2>3. CASE Refused(w) \/ Halfway(w)
    BY <2>2, <2>3, RaisedIsAnswered DEF Refused, Halfway
  <2> QED BY <1>5, <2>1, <2>3
<1>6. ASSUME NEW w \in Workers, Cancel(w) PROVE Core'
  <2>0. /\ job[w].pc = "await" /\ job' = [job EXCEPT ![w] = Idle] /\ session' = [session EXCEPT ![w] = {}]
        /\ isSyncing' = IF w \in Syncers THEN FALSE ELSE isSyncing
        /\ letgo' = letgo \cup session[w] /\ cancelled' = cancelled \cup {Oldest(job[w].todo)}
        /\ UNCHANGED <<buffer, event, recorded, usage, repeatable>>
    BY <1>6 DEF Cancel
  <2>1. Oldest(job[w].todo) \in Events
    BY <2>0, AwaitedEvent DEF Awaits
  <2>2. /\ job' \in [Workers -> Job] /\ job'[w].pc = "idle" /\ job'[w].todo = {}
        /\ \A v \in Workers \ {w} : job'[v] = job[v]
    BY <2>0 DEF TypeOK, Job, Idle
  <2>3. TypeOK'
    BY <2>0, <2>1, <2>2 DEF TypeOK
  <2>4. Coroutines'
    BY <2>0, <2>2 DEF Coroutines, Awaits, Workers
  <2>5. FlagMeansSyncing'
    BY <2>0, <2>2 DEF FlagMeansSyncing, Coroutines, Awaits, Workers
  <2>6. SyncingIsInFlight'
    BY <2>0, <2>2 DEF SyncingIsInFlight
  <2> QED BY <2>3, <2>4, <2>5, <2>6 DEF Core
<1>7. ASSUME NEW w \in Syncers, Commit(w) \/ Rollback(w) PROVE Core'
  <2>0. /\ job[w].pc = "commit" /\ job' = [job EXCEPT ![w] = Idle] /\ session' = [session EXCEPT ![w] = {}]
        /\ UNCHANGED <<buffer, event, recorded, isSyncing, cancelled, repeatable>>
    BY <1>7 DEF Commit, Rollback, history
  <2>1. usage' \in [Events -> 0 .. 2] /\ letgo' \subseteq Events
    BY <1>7 DEF Commit, Rollback, history, TypeOK, Workers
  <2>2. /\ job' \in [Workers -> Job] /\ job'[w].pc = "idle" /\ job'[w].todo = {} /\ w \in Workers
        /\ \A v \in Workers \ {w} : job'[v] = job[v]
    BY <2>0 DEF TypeOK, Job, Idle, Workers
  <2>3. TypeOK'
    BY <2>0, <2>1, <2>2 DEF TypeOK
  <2>4. Coroutines'
    BY <2>0, <2>2 DEF Coroutines, Awaits, Workers
  <2>5. FlagMeansSyncing'
    BY <2>0, <2>2 DEF FlagMeansSyncing, Workers
  <2>6. SyncingIsInFlight'
    BY <2>0, <2>2 DEF SyncingIsInFlight
  <2> QED BY <2>3, <2>4, <2>5, <2>6 DEF Core
<1>8. ASSUME NEW gone, gone \subseteq Events, Discard(gone) PROVE Core'
  <2>1. /\ buffer' \in SUBSET Events /\ Cardinality(buffer') <= MaxBuffer /\ buffer' \subseteq buffer
        /\ letgo' \subseteq Events
        /\ UNCHANGED <<event, recorded, isSyncing, job, session, usage, cancelled, repeatable>>
    BY <1>8, DiscardLeaves
  <2>2. Coroutines' /\ FlagMeansSyncing' /\ SyncingIsInFlight'
    BY <2>1 DEF Coroutines, Awaits, FlagMeansSyncing, SyncingIsInFlight
  <2> QED BY <2>1, <2>2 DEF Core, TypeOK
<1>9. CASE UNCHANGED vars
  BY <1>9 DEF vars, Core, TypeOK, Coroutines, Awaits, FlagMeansSyncing, SyncingIsInFlight
<1>10. CASE PurgeFailed \/ Clear
  BY <1>8, <1>10 DEF PurgeFailed, Clear
<1> QED BY <1>1, <1>2, <1>3, <1>4, <1>5, <1>6, <1>7, <1>9, <1>10 DEF Next

(* An event leaves the buffer, and a session its coroutine, only when the  *)
(* event is accounted for otherwise.                                       *)
LEMMA AccountedPreserved == Core /\ Accounted /\ [Next]_vars => Accounted'
<1> SUFFICES ASSUME Core, Accounted, [Next]_vars PROVE Accounted'
  OBVIOUS
<1>0. TypeOK /\ Coroutines
  BY DEF Core
<1> USE <1>0
<1>A. \A e \in Events : event[e].status = "synced" => Account(e)
  BY DEF Accounted
<1>B. \A e \in 1 .. recorded : e \in buffer \/ Account(e)
  BY DEF Accounted
<1>C. 1 .. recorded \subseteq Events
  BY SizesAssumption DEF TypeOK, Events
<1>G. ASSUME NEW w \in Workers, NEW todo, NEW evs, GoesOn(w, todo, evs),
             \A e \in Events : Account(e) => Account(e)',
             \A e \in Events : evs[e] # event[e] /\ evs[e].status = "synced" => Account(e)'
      PROVE  Accounted'
  <2>1. todo \subseteq Events /\ evs \in [Events -> Event] /\ recorded' = recorded /\ Proceed(w, todo, evs)
    BY <1>G DEF GoesOn
  <2>2. /\ \A e \in buffer \ buffer' : event'[e].status = "synced"
        /\ \A e \in Events : IF todo # {} /\ e = Oldest(todo)
                             THEN event'[e].status = "syncing" ELSE event'[e] = evs[e]
    BY <2>1, ProceedLeaves
  <2>3. \A e \in Events : event'[e].status = "synced" => Account(e)'
    <3> SUFFICES ASSUME NEW e \in Events, event'[e].status = "synced" PROVE Account(e)'
      OBVIOUS
    <3>1. event'[e] = evs[e]
      BY <2>2
    <3> QED BY <1>A, <1>G, <3>1
  <2> QED BY <1>B, <1>C, <1>G, <2>1, <2>2, <2>3 DEF Accounted
<1>1. CASE Record
  <2>1. /\ recorded' = recorded + 1 /\ recorded' \in buffer'
        /\ letgo \subseteq letgo' /\ buffer \ buffer' \subseteq letgo'
        /\ event'[recorded'].status = "pending"
        /\ \A e \in Events \ {recorded'} : event'[e] = event[e]
        /\ UNCHANGED <<session, usage>>
    BY <1>1, RecordLeaves
  <2>2. \A e \in Events : Account(e) => Account(e)'
    BY <2>1 DEF Account
  <2>3. \A e \in buffer \ buffer' : Account(e)'
    BY <2>1 DEF Account
  <2>4. \A e \in 1 .. recorded' : e \in 1 .. recorded \/ e = recorded'
    BY <2>1 DEF TypeOK
  <2> QED BY <1>A, <1>B, <1>C, <2>1, <2>2, <2>3, <2>4 DEF Accounted
<1>2. ASSUME NEW w \in Syncers, StartSync(w) PROVE Accounted'
  <2>1. GoesOn(w, FirstOf(Due, Batch), event) /\ \A e \in Events : Account(e) => Account(e)'
    BY <1>2, StartSyncGoesOn DEF StartSync, Account, history
  <2> QED BY <1>G, <2>1 DEF Workers
<1>3. ASSUME NEW w \in Callers, NEW l \in Licenses, StartByLicense(w, l) PROVE Accounted'
  <2>1. GoesOn(w, {e \in Due : event[e].license = l}, event) /\ \A e \in Events : Account(e) => Account(e)'
    BY <1>3, StartByLicenseGoesOn DEF StartByLicense, Account
  <2> QED BY <1>G, <2>1 DEF Workers
<1>4. ASSUME NEW w \in Workers, NEW st \in {"synced", "failed", "pending"}, Answered(w, st),
             Written(w) \/ (st # "synced" /\ UNCHANGED <<session, usage, letgo>>)
      PROVE  Accounted'
  <2>2. PICK o \in Events : o = Oldest(job[w].todo)
    BY <1>4, AwaitedEvent DEF Answered, Awaits
  <2> DEFINE evs == [event EXCEPT ![o].status = st]
  <2>1. GoesOn(w, job[w].todo \ {o}, evs)
    BY <1>4, <2>2, AnsweredGoesOn
  <2>3. TypeOK /\ o \in Events /\ st \in {"synced", "failed", "pending"}
    BY <1>4, <2>2
  <2>5. evs[o].status = st /\ \A e \in Events \ {o} : evs[e] = event[e]
    BY ONLY <2>3, AnsweredEvent
  <2> HIDE DEF evs
  <2>6. CASE Written(w)
    <3>1. /\ w \in Syncers => /\ usage' = usage /\ session'[w] = session[w] \cup {o}
                              /\ \A v \in Workers \ {w} : session'[v] = session[v]
          /\ w \notin Syncers => /\ session' = session /\ usage'[o] > 0
                                 /\ \A f \in Events \ {o} : usage'[f] = usage[f]
          /\ letgo' = letgo \ {o}
      BY <2>2, <2>6, WrittenUsage
    <3>2. Account(o)' /\ \A e \in Events : Account(e) => Account(e)'
      BY <2>2, <3>1 DEF Account
    <3> QED BY <1>G, <2>1, <2>5, <3>2
  <2>7. CASE st # "synced" /\ UNCHANGED <<session, usage, letgo>>
    <3>1. \A e \in Events : Account(e) => Account(e)'
      BY <2>7 DEF Account
    <3> QED BY <1>G, <2>1, <2>5, <2>7, <3>1
  <2> QED BY <1>4, <2>6, <2>7
<1>5. ASSUME NEW w \in Workers, Accepted(w) \/ Refused(w) \/ Halfway(w) PROVE Accounted'
  <2>1. CASE Accepted(w)
    BY <1>4, <2>1 DEF Accepted
  <2>2. CASE Refused(w) \/ Halfway(w)
    <3>1. PICK st \in {"failed", "pending"} : Answered(w, st)
      BY <2>2, RaisedIsAnswered DEF Refused, Halfway
    <3> QED BY <1>4, <2>2, <3>1 DEF Refused, Halfway
  <2> QED BY <1>5, <2>1, <2>2
<1>6. ASSUME NEW w \in Workers, Cancel(w) \/ Rollback(w)
      PROVE  Accounted'
  <2>1. /\ session' = [session EXCEPT ![w] = {}] /\ letgo' = letgo \cup session[w]
        /\ UNCHANGED <<buffer, event, recorded, usage>>
    BY <1>6 DEF Cancel, Rollback
  <2>2. \A e \in Events : Account(e) => Account(e)'
    BY <2>1 DEF Account, TypeOK
  <2> QED BY <1>A, <1>B, <1>C, <2>1, <2>2 DEF Accounted
<1>7. ASSUME NEW w \in Syncers, Commit(w)
      PROVE  Accounted'
  <2>1. /\ session' = [session EXCEPT ![w] = {}]
        /\ usage' = [e \in Events |-> IF e \in session[w] /\ usage[e] < 2 THEN usage[e] + 1 ELSE usage[e]]
        /\ UNCHANGED <<buffer, event, recorded, letgo>>
    BY <1>7 DEF Commit, history
  <2>2. \A e \in Events : usage[e] \in 0 .. 2 /\ (usage[e] > 0 \/ e \in session[w] => usage'[e] > 0)
    BY <2>1 DEF TypeOK
  <2>3. \A e \in Events : Account(e) => Account(e)'
    BY <2>1, <2>2 DEF Account, TypeOK, Workers
  <2> QED BY <1>A, <1>B, <1>C, <2>1, <2>3 DEF Accounted
<1>8. ASSUME NEW gone, gone \subseteq Events, Discard(gone)
      PROVE  Accounted'
  <2>1. /\ letgo \subseteq letgo' /\ buffer \ buffer' \subseteq letgo'
        /\ UNCHANGED <<event, recorded, session, usage>>
    BY <1>8, DiscardLeaves
  <2>2. \A e \in Events : Account(e) => Account(e)'
    BY <2>1 DEF Account
  <2>3. \A e \in buffer \ buffer' : Account(e)'
    BY <2>1 DEF Account
  <2> QED BY <1>A, <1>B, <1>C, <2>1, <2>2, <2>3 DEF Accounted
<1>9. CASE UNCHANGED vars
  BY <1>A, <1>B, <1>9 DEF vars, Account, Accounted
<1>10. CASE PurgeFailed \/ Clear
  BY <1>8, <1>10 DEF PurgeFailed, Clear
<1> QED BY <1>1, <1>2, <1>3, <1>4, <1>5, <1>6, <1>7, <1>9, <1>10 DEF Next, Workers

(* What no call of sync_by_license has touched is reported once: the batch *)
(* of the one sync under way holds nothing reported, and an answer reports *)
(* an event nobody else holds.                                             *)
LEMMA UnrepeatedPreserved == Core /\ Unrepeated /\ [Next]_vars => Unrepeated'
<1> SUFFICES ASSUME Core, Unrepeated, [Next]_vars PROVE Unrepeated'
  OBVIOUS
<1>0. TypeOK /\ Coroutines
  BY DEF Core
<1> USE <1>0
<1>C. \A v \in Callers : job[v].todo \subseteq repeatable
  BY DEF Unrepeated
<1>U. \A e \in Events \ repeatable :
        /\ usage[e] <= 1
        /\ usage[e] > 0 => event[e].status = "synced"
        /\ \A v \in Workers : e \in session[v] => event[e].status = "synced" /\ usage[e] = 0
        /\ \A u, v \in Workers : e \in session[u] /\ e \in session[v] => u = v
        /\ \A v \in Syncers : e \in job[v].todo => event[e].status # "synced"
  BY DEF Unrepeated
<1>G. ASSUME NEW w \in Workers, NEW todo, NEW evs, GoesOn(w, todo, evs),
             repeatable \subseteq repeatable', w \in Callers => todo \subseteq repeatable'
      PROVE  /\ \A v \in Callers : job'[v].todo \subseteq repeatable'
             /\ \A e \in Events \ repeatable' : event[e].status = "synced" => event'[e].status = "synced"
             /\ \A e \in Events \ repeatable' : \A v \in Syncers :
                  e \in job'[v].todo => event'[e].status # "synced"
  <2>1. todo \subseteq Events /\ evs \in [Events -> Event] /\ Proceed(w, todo, evs)
    BY <1>G DEF GoesOn
  <2>2. /\ \A v \in Workers \ {w} : job'[v] = job[v]
        /\ job'[w].todo = todo
        /\ \A e \in Events : IF todo # {} /\ e = Oldest(todo)
                             THEN event'[e].status = "syncing" ELSE event'[e] = evs[e]
        /\ todo # {} => Oldest(todo) \in todo
    BY <2>1, ProceedLeaves
  <2>3. \A e \in Events \ repeatable' : e \in todo => event[e].status # "synced" /\ w \in Syncers
    <3> SUFFICES ASSUME NEW e \in Events \ repeatable', e \in todo PROVE event[e].status # "synced" /\ w \in Syncers
      OBVIOUS
    <3>1. w \in Syncers
      BY <1>G DEF Workers
    <3>2. CASE e \in job[w].todo
      BY <1>G, <1>U, <3>1, <3>2
    <3>3. CASE e \in Due
      BY <3>1, <3>3, TakenEvents
    <3> QED BY <1>G, <3>1, <3>2, <3>3 DEF GoesOn
  <2>4. \A e \in Events \ repeatable' : evs[e] # event[e] =>
          Awaits(w) /\ e \in job[w].todo /\ e \notin todo /\ w \in Syncers /\ event[e].status # "synced"
    <3> SUFFICES ASSUME NEW e \in Events \ repeatable', evs[e] # event[e]
                 PROVE Awaits(w) /\ e \in job[w].todo /\ e \notin todo /\ w \in Syncers /\ event[e].status # "synced"
      OBVIOUS
    <3>1. Awaits(w) /\ e \in job[w].todo /\ e \notin todo
      BY <1>G DEF GoesOn
    <3>2. w \in Syncers
      BY <1>C, <1>G, <3>1 DEF Workers
    <3> QED BY <1>G, <1>U, <3>1, <3>2
  <2>5. \A v \in Callers : job'[v].todo \subseteq repeatable'
    BY <1>C, <1>G, <2>2 DEF Workers
  <2>6. ASSUME NEW e \in Events \ repeatable', event[e].status = "synced" PROVE event'[e].status = "synced"
    BY <2>2, <2>3, <2>4, <2>6
  <2>7. ASSUME NEW e \in Events \ repeatable', NEW v \in Syncers, e \in job'[v].todo
        PROVE  event'[e].status # "synced"
    <3>1. CASE v = w
      BY <2>2, <2>3, <2>4, <2>7, <3>1
    <3>2. CASE v # w
      <4>1. e \in job[v].todo /\ event[e].status # "synced"
        BY <1>G, <1>U, <2>2, <2>7, <3>2 DEF Workers
      <4>2. Awaits(v)
        BY <4>1 DEF Coroutines, Workers
      <4>3. evs[e] = event[e]
        BY <2>4, <3>2, <4>2 DEF Coroutines
      <4> QED BY <2>2, <4>1, <4>3
    <3> QED BY <3>1, <3>2
  <2> QED BY <2>5, <2>6, <2>7
<1>1. CASE Record
  <2>1. /\ recorded' = recorded + 1 /\ recorded' \in Events
        /\ \A e \in Events \ {recorded'} : event'[e] = event[e]
        /\ event'[recorded'].status = "pending"
        /\ UNCHANGED <<job, session, usage, repeatable>>
    BY <1>1, RecordLeaves
  <2>2. event[recorded'].status = "none"
    BY <2>1 DEF Coroutines, TypeOK
  <2> QED BY <1>C, <1>U, <2>1, <2>2 DEF Unrepeated
<1>2. ASSUME NEW w \in Syncers, StartSync(w) PROVE Unrepeated'
  <2>1. GoesOn(w, FirstOf(Due, Batch), event) /\ UNCHANGED <<session, usage, repeatable>>
    BY <1>2, StartSyncGoesOn DEF StartSync, history
  <2>2. w \in Workers /\ w \notin Callers
    BY WorkersAssumption DEF Workers
  <2>3. /\ \A v \in Callers : job'[v].todo \subseteq repeatable'
        /\ \A e \in Events \ repeatable' : event[e].status = "synced" => event'[e].status = "synced"
        /\ \A e \in Events \ repeatable' : \A v \in Syncers :
             e \in job'[v].todo => event'[e].status # "synced"
    BY <1>G, <2>1, <2>2
  <2> QED BY <1>U, <2>1, <2>3 DEF Unrepeated
<1>3. ASSUME NEW w \in Callers, NEW l \in Licenses, StartByLicense(w, l) PROVE Unrepeated'
  <2>1. GoesOn(w, {e \in Due : event[e].license = l}, event) /\ UNCHANGED <<session, usage>>
    BY <1>3, StartByLicenseGoesOn DEF StartByLicense
  <2>2. w \in Workers /\ repeatable' = repeatable \cup {e \in Due : event[e].license = l}
    BY <1>3 DEF Workers, StartByLicense
  <2>3. /\ \A v \in Callers : job'[v].todo \subseteq repeatable'
        /\ \A e \in Events \ repeatable' : event[e].status = "synced" => event'[e].status = "synced"
        /\ \A e \in Events \ repeatable' : \A v \in Syncers :
             e \in job'[v].todo => event'[e].status # "synced"
    BY <1>G, <2>1, <2>2
  <2> QED BY <1>U, <2>1, <2>2, <2>3 DEF Unrepeated
<1>4. ASSUME NEW w \in Workers, Accepted(w) PROVE Unrepeated'
  <2>0. PICK o \in Events : o = Oldest(job[w].todo)
    BY <1>4, AwaitedEvent DEF Accepted, Answered, Awaits
  <2> DEFINE evs == [event EXCEPT ![o].status = "synced"]
  <2>1. GoesOn(w, job[w].todo \ {o}, evs)
    BY <1>4, <2>0, AnsweredGoesOn DEF Accepted
  <2>2. repeatable' = repeatable /\ Awaits(w)
    BY <1>4 DEF Accepted, Answered, Awaits
  <2>3. /\ w \in Syncers => /\ usage' = usage /\ session'[w] = session[w] \cup {o}
                            /\ \A v \in Workers \ {w} : session'[v] = session[v]
        /\ w \notin Syncers => /\ session' = session /\ usage'[o] > 0
                               /\ \A f \in Events \ {o} : usage'[f] = usage[f]
    BY <1>4, <2>0, WrittenUsage DEF Accepted
  <2>4. evs[o].status = "synced" /\ o \in job[w].todo
    BY <2>0, <2>2, AnsweredEvent, AwaitedEvent
  <2> HIDE DEF evs
  <2>5. event'[o].status = "synced"
    <3>1. /\ job[w].todo \ {o} \subseteq Events /\ evs \in [Events -> Event]
          /\ Proceed(w, job[w].todo \ {o}, evs)
      BY <2>1 DEF GoesOn
    <3>2. job[w].todo \ {o} # {} => Oldest(job[w].todo \ {o}) \in job[w].todo \ {o}
      BY <3>1, ProceedLeaves
    <3>3. event'[o] = evs[o]
      BY <3>1, <3>2, ProceedLeaves
    <3> QED BY <2>4, <3>3
  <2>6. w \in Callers => job[w].todo \ {o} \subseteq repeatable'
    BY <1>C, <2>2
  <2>7. /\ \A v \in Callers : job'[v].todo \subseteq repeatable'
        /\ \A e \in Events \ repeatable' : event[e].status = "synced" => event'[e].status = "synced"
        /\ \A e \in Events \ repeatable' : \A v \in Syncers :
             e \in job'[v].todo => event'[e].status # "synced"
    BY <1>G, <2>1, <2>2, <2>6
  <2>8. o \notin repeatable => /\ w \in Syncers /\ event[o].status # "synced" /\ usage[o] = 0
                             /\ \A v \in Workers : o \notin session[v]
    <3> SUFFICES ASSUME o \notin repeatable
                 PROVE  /\ w \in Syncers /\ event[o].status # "synced" /\ usage[o] = 0
                        /\ \A v \in Workers : o \notin session[v]
      OBVIOUS
    <3>1. w \in Syncers
      BY <1>C, <2>4 DEF Workers
    <3>2. event[o].status # "synced"
      BY <1>U, <2>4, <3>1
    <3>3. usage[o] \in 0 .. 2
      BY DEF TypeOK
    <3> QED BY <1>U, <3>1, <3>2, <3>3
  <2>9. ASSUME NEW e \in Events \ repeatable
        PROVE  /\ usage'[e] <= 1
               /\ usage'[e] > 0 => event'[e].status = "synced"
               /\ \A v \in Workers : e \in session'[v] => event'[e].status = "synced" /\ usage'[e] = 0
               /\ \A u, v \in Workers : e \in session'[u] /\ e \in session'[v] => u = v
    <3>1. CASE e = o
      BY <2>3, <2>5, <2>8, <3>1
    <3>2. CASE e # o
      <4>1. usage'[e] = usage[e] /\ \A v \in Workers : e \in session'[v] <=> e \in session[v]
        BY <2>3, <3>2
      <4> QED BY <1>U, <2>2, <2>7, <4>1
    <3> QED BY <3>1, <3>2
  <2> QED BY <2>2, <2>7, <2>9 DEF Unrepeated
<1>5. ASSUME NEW w \in Workers, Refused(w) \/ Halfway(w) PROVE Unrepeated'
  <2>1. PICK st \in {"failed", "pending"} : Answered(w, st)
    BY <1>5, RaisedIsAnswered DEF Refused, Halfway
  <2>0. PICK o \in Events : o = Oldest(job[w].todo)
    BY <2>1, AwaitedEvent DEF Answered, Awaits
  <2>2. GoesOn(w, job[w].todo \ {o}, [event EXCEPT ![o].status = st])
    BY <2>0, <2>1, AnsweredGoesOn
  <2>3. repeatable \subseteq repeatable'
    BY <1>5 DEF Refused, Halfway
  <2>4. w \in Callers => job[w].todo \ {o} \subseteq repeatable'
    BY <1>C, <2>3
  <2>5. /\ \A v \in Callers : job'[v].todo \subseteq repeatable'
        /\ \A e \in Events \ repeatable' : event[e].status = "synced" => event'[e].status = "synced"
        /\ \A e \in Events \ repeatable' : \A v \in Syncers :
             e \in job'[v].todo => event'[e].status # "synced"
    BY <1>G, <2>2, <2>3, <2>4
  <2>6. \A e \in Events \ repeatable' : /\ usage'[e] = usage[e]
                                        /\ \A v \in Workers : e \in session'[v] <=> e \in session[v]
    <3>1. CASE Refused(w)
      BY <3>1 DEF Refused
    <3>2. CASE Halfway(w)
      <4>1. o \in repeatable' /\ Written(w)
        BY <2>0, <3>2 DEF Halfway
      <4>2. /\ w \in Syncers => /\ usage' = usage /\ session'[w] = session[w] \cup {o}
                                /\ \A v \in Workers \ {w} : session'[v] = session[v]
            /\ w \notin Syncers => /\ session' = session
                                   /\ \A f \in Events \ {o} : usage'[f] = usage[f]
        BY <2>0, <4>1, WrittenUsage
      <4> QED BY <4>1, <4>2
    <3> QED BY <1>5, <3>1, <3>2
  <2> QED BY <1>U, <2>3, <2>5, <2>6 DEF Unrepeated
<1>6. ASSUME NEW w \in Workers, Cancel(w) \/ Rollback(w) PROVE Unrepeated'
  <2>1. /\ session' = [session EXCEPT ![w] = {}] /\ job' = [job EXCEPT ![w] = Idle]
        /\ UNCHANGED <<event, usage, repeatable>>
    BY <1>6 DEF Cancel, Rollback
  <2>2. /\ session'[w] = {} /\ \A v \in Workers \ {w} : session'[v] = session[v]
        /\ job'[w].todo = {} /\ \A v \in Workers \ {w} : job'[v] = job[v]
    BY <2>1 DEF TypeOK, Idle
  <2> QED BY <1>C, <1>U, <2>1, <2>2 DEF Unrepeated, Workers
<1>7. ASSUME NEW w \in Syncers, Commit(w) PROVE Unrepeated'
  <2>1. /\ session' = [session EXCEPT ![w] = {}] /\ job' = [job EXCEPT ![w] = Idle]
        /\ usage' = [e \in Events |-> IF e \in session[w] /\ usage[e] < 2 THEN usage[e] + 1 ELSE usage[e]]
        /\ UNCHANGED <<event, repeatable>>
    BY <1>7 DEF Commit, history
  <2>2. /\ w \in Workers /\ session'[w] = {} /\ \A v \in Workers \ {w} : session'[v] = session[v]
        /\ job'[w].todo = {} /\ \A v \in Workers \ {w} : job'[v] = job[v]
    BY <2>1 DEF TypeOK, Idle, Workers
  <2>3. ASSUME NEW e \in Events \ repeatable
        PROVE  /\ usage'[e] <= 1
               /\ usage'[e] > 0 => event'[e].status = "synced"
               /\ \A v \in Workers : e \in session'[v] => event'[e].status = "synced" /\ usage'[e] = 0
               /\ \A u, v \in Workers : e \in session'[u] /\ e \in session'[v] => u = v
    <3>1. CASE e \in session[w]
      <4>1. usage[e] = 0 /\ event[e].status = "synced" /\ \A v \in Workers \ {w} : e \notin session[v]
        BY <1>U, <2>2, <3>1
      <4>2. usage'[e] = 1
        BY <2>1, <3>1, <4>1
      <4> QED BY <2>1, <2>2, <4>1, <4>2
    <3>2. CASE e \notin session[w]
      BY <1>U, <2>1, <2>2, <3>2
    <3> QED BY <3>1, <3>2
  <2>4. \A v \in Syncers : job'[v].todo \subseteq job[v].todo
    BY <2>2 DEF Workers
  <2>5. \A v \in Callers : job'[v].todo \subseteq repeatable
    BY <1>C, <2>2 DEF Workers
  <2> QED BY <1>U, <2>1, <2>3, <2>4, <2>5 DEF Unrepeated
<1>8. ASSUME NEW gone, gone \subseteq Events, Discard(gone) PROVE Unrepeated'
  <2>1. UNCHANGED <<event, job, session, usage, repeatable>>
    BY <1>8, DiscardLeaves
  <2> QED BY <1>C, <1>U, <2>1 DEF Unrepeated
<1>9. CASE UNCHANGED vars
  BY <1>C, <1>U, <1>9 DEF vars, Unrepeated
<1>10. CASE PurgeFailed \/ Clear
  BY <1>8, <1>10 DEF PurgeFailed, Clear
<1> QED BY <1>1, <1>2, <1>3, <1>4, <1>5, <1>6, <1>7, <1>9, <1>10 DEF Next, Workers

-----------------------------------------------------------------------------
(* The inductive invariant holds in every reachable state. *)
LEMMA InvInvariant == Spec => []Inv
<1>1. Init => Inv
  <2> SUFFICES ASSUME Init PROVE Inv
    OBVIOUS
  <2> USE SizesAssumption DEF Init
  <2>1. event \in [Events -> Event] /\ \A e \in Events : event[e].status = "none"
    BY DEF Event
  <2>2. Idle \in Job /\ Idle.pc = "idle" /\ Idle.todo = {} /\ Cardinality({}) = 0
    BY FS_EmptySet DEF Idle, Job
  <2>3. TypeOK
    <3>1. buffer \in SUBSET Events /\ Cardinality(buffer) <= MaxBuffer
      BY <2>2
    <3>2. recorded \in 0 .. MaxEvents
      OBVIOUS
    <3>7. isSyncing \in BOOLEAN
      BY Zenon
    <3>3. job \in [Workers -> Job]
      BY <2>2
    <3>4. session \in [Workers -> SUBSET Events]
      OBVIOUS
    <3>5. usage \in [Events -> 0 .. 2]
      OBVIOUS
    <3>6. letgo \cup cancelled \cup repeatable \subseteq Events
      OBVIOUS
    <3> QED BY <2>1, <3>1, <3>2, <3>3, <3>4, <3>5, <3>6, <3>7 DEF TypeOK
  <2>4. Coroutines /\ FlagMeansSyncing /\ SyncingIsInFlight
    BY <2>1, <2>2 DEF Coroutines, Awaits, FlagMeansSyncing, SyncingIsInFlight, Workers
  <2>5. Accounted /\ Unrepeated
    BY <2>1, <2>2 DEF Accounted, Unrepeated, Workers
  <2> QED BY <2>3, <2>4, <2>5 DEF Inv
<1>2. Inv /\ [Next]_vars => Inv'
  BY CorePreserved, AccountedPreserved, UnrepeatedPreserved DEF Inv, Core
<1> QED BY <1>1, <1>2, PTL DEF Spec

(* The buffer keeps its bound and everything its type. *)
THEOREM TypesAlwaysHold == Spec => []TypeOK
<1>1. Inv => TypeOK
  BY DEF Inv
<1> QED BY <1>1, InvInvariant, PTL

(* An event is counted twice only if sync_by_license has selected it, or a *)
(* report of it raised after it had written: the flag keeps the batches of *)
(* sync apart, and an event whose report came back is never taken again.   *)
THEOREM SyncCountsOnce == Spec => []CountedOnceBySync
<1>1. Inv => CountedOnceBySync
  BY DEF Inv, TypeOK, Unrepeated, CountedOnceBySync, Workers
<1> QED BY <1>1, InvInvariant, PTL

(* The flag is up exactly while a sync is under way. *)
THEOREM FlagIsTruthful == Spec => []FlagMeansSyncing
<1>1. Inv => FlagMeansSyncing
  BY DEF Inv
<1> QED BY <1>1, InvInvariant, PTL

(* A recorded event is buffered, counted, in an open session, discarded or *)
(* rolled back by its caller.                                              *)
THEOREM EventsNeverVanish == Spec => []NothingVanishes
<1>1. Inv => NothingVanishes
  BY DEF Inv, Accounted, Account, NothingVanishes
<1> QED BY <1>1, InvInvariant, PTL

(* An event marked syncing is being reported, unless that was cancelled. *)
THEOREM MarksAreTruthful == Spec => []SyncingIsInFlight
<1>1. Inv => SyncingIsInFlight
  BY DEF Inv
<1> QED BY <1>1, InvInvariant, PTL
===============================================================================
