------------------------------ MODULE DeadLetters ------------------------------
(***************************************************************************)
(* WebhookRetryManager: the passes that retry failed deliveries, the       *)
(* in-memory queue of the deliveries it has given up, and their replay.    *)
(*                                                                         *)
(* A pass is one transaction over a batch of rows; it enters deliveries in *)
(* the queue as it goes, long before it commits.  A replay resets the row  *)
(* in a transaction of its own and marks the queue's entry afterwards.     *)
(* The rows are written by WebhookDelivery's actors as well, whatever      *)
(* their status: of those the module keeps what they leave a row in        *)
(* (Others).  "pending" stands for "retrying" too.                         *)
(***************************************************************************)
EXTENDS Naturals, Sequences, FiniteSets

CONSTANTS
  Deliveries,
  Replays,      \* slots of concurrent replay calls
  MaxRetries,   \* max_retries of the manager
  MaxSize,      \* max_size of the queue
  BatchSize     \* rows a pass selects at most

ASSUME DeliveriesAssumption == IsFiniteSet(Deliveries)
ASSUME SizesAssumption == MaxRetries \in Nat \ {0} /\ MaxSize \in Nat \ {0} /\ BatchSize \in Nat \ {0}

(* A count of attempts above the manager's own limit is as good as the     *)
(* limit.  next_retry_at only keeps a failed row out of a pass, and no     *)
(* pass has to take one here.                                              *)
Row == [status : {"pending", "success", "failed", "dead_letter"}, attempts : 0 .. MaxRetries]
NewRow == [status |-> "pending", attempts |-> 0]

Entry == [id : Deliveries, replayed : BOOLEAN]

(* A pass: the rows it read, those it has not dealt with, and what it will *)
(* write.                                                                  *)
Pass == [batch : SUBSET Deliveries, todo : SUBSET Deliveries,
         read : [Deliveries -> Row], new : [Deliveries -> Row]]
Blank == [d \in Deliveries |-> NewRow]
NoPass == [batch |-> {}, todo |-> {}, read |-> Blank, new |-> Blank]

(* A replay: its delivery, and the columns it will write. *)
Columns == {"status", "attempts"}
Replay == [pc : {"idle", "read", "write", "mark"}, id : SUBSET Deliveries, sets : SUBSET Columns]
NoReplay == [pc |-> "idle", id |-> {}, sets |-> {}]

VARIABLES
  row,       \* the committed rows
  queue,     \* the entries, by dead_lettered_at
  pass,      \* the running pass
  replay,    \* the replay calls
  lost,      \* history: evicted, purged or gone with the process, unreplayed
  raced,     \* history: read by a replay while a pass held it, or before
  loose      \* history: entered by a pass that did not commit, or given up in the table
             \* and then written by one of the others

vars == <<row, queue, pass, replay, lost, raced, loose>>

Init ==
  /\ row = [d \in Deliveries |-> NewRow]
  /\ queue = <<>> /\ pass = NoPass
  /\ replay = [r \in Replays |-> NoReplay]
  /\ lost = {} /\ raced = {} /\ loose = {}

-----------------------------------------------------------------------------
(* DeadLetterQueue                                                         *)

Ids(q) == {q[i].id : i \in DOMAIN q}
Waiting(q) == {q[i].id : i \in {j \in DOMAIN q : ~q[j].replayed}}

(* An identifier has one entry at most. *)
Without(d, q) ==
  IF d \notin Ids(q) THEN q
  ELSE [i \in 1 .. Len(q) - 1 |-> IF \A j \in 1 .. i : q[j].id # d THEN q[i] ELSE q[i + 1]]

First(s) == CHOOSE i \in s : \A j \in s : i <= j

(* The oldest entry not replayed, or the oldest. *)
Oldest(q) ==
  LET waiting == {i \in DOMAIN q : ~q[i].replayed}
  IN  q[IF waiting = {} THEN 1 ELSE First(waiting)].id

(* Mutant: a queue without a bound. *)
AddUnbounded(d, q) == Append(Without(d, q), [id |-> d, replayed |-> FALSE])

(* A full queue makes room first, even for an entry it has already. *)
Add(d, q) ==
  LET room == IF Len(q) >= MaxSize THEN Without(Oldest(q), q) ELSE q
  IN  Append(Without(d, room), [id |-> d, replayed |-> FALSE])

(* The queue becomes q; what was waiting in it and is not in q is lost. *)
Become(q) ==
  /\ queue' = q
  /\ lost' = (lost \cup (Waiting(queue) \ Ids(q))) \ Waiting(q)

(* purge: everything, or the entries older than a date. *)
Purge ==
  /\ queue # <<>>
  /\ \E n \in DOMAIN queue : Become(SubSeq(queue, n + 1, Len(queue)))
  /\ UNCHANGED <<row, pass, replay, raced, loose>>

-----------------------------------------------------------------------------
(* run_once                                                                *)

MayBeDue(d) == row[d].status = "failed"

Reading == {d \in Deliveries : \E r \in Replays : d \in replay[r].id /\ replay[r].pc \in {"write", "mark"}}

PassSelect ==
  /\ pass = NoPass
  /\ \E batch \in SUBSET {d \in Deliveries : MayBeDue(d)} :
       /\ batch # {} /\ Cardinality(batch) <= BatchSize
       /\ LET rows == [d \in Deliveries |-> IF d \in batch THEN row[d] ELSE NewRow]
          IN  pass' = [batch |-> batch, todo |-> batch, read |-> rows, new |-> rows]
       /\ raced' = raced \cup (batch \cap Reading)
  /\ UNCHANGED <<row, queue, replay, lost, loose>>

Tries(d) == pass.new[d].attempts + 1
(* The pass has dealt with d, whose row becomes r. *)
Done(d, r) == pass' = [pass EXCEPT !.todo = @ \ {d}, !.new[d] = r]

(* _move_to_dlq; attempts is the count the row is left with. *)
MoveToDlq(d, attempts) ==
  /\ Done(d, [status |-> "dead_letter", attempts |-> attempts])
  /\ Become(Add(d, queue))

(* The endpoint is gone or inactive, or the retries are used up. *)
PassGiveUp(d) ==
  /\ d \in pass.todo
  /\ MoveToDlq(d, pass.new[d].attempts)
  /\ UNCHANGED <<row, replay, raced, loose>>

PassSucceed(d) ==
  /\ d \in pass.todo /\ Tries(d) <= MaxRetries
  /\ Done(d, [pass.new[d] EXCEPT !.status = "success", !.attempts = @ + 1])
  /\ UNCHANGED <<row, queue, replay, lost, raced, loose>>

PassFail(d) ==
  /\ d \in pass.todo /\ Tries(d) <= MaxRetries
  /\ IF Tries(d) >= MaxRetries
     THEN MoveToDlq(d, Tries(d))
     ELSE /\ Done(d, [pass.new[d] EXCEPT !.attempts = @ + 1])
          /\ UNCHANGED <<queue, lost>>
  /\ UNCHANGED <<row, replay, raced, loose>>

Entered == {d \in pass.batch : pass.new[d].status = "dead_letter"}

(* An UPDATE names the columns that changed. *)
Written(old, new, snap) == [c \in Columns |-> IF new[c] # snap[c] THEN new[c] ELSE old[c]]

PassCommit ==
  /\ pass # NoPass /\ pass.todo = {}
  /\ row' = [d \in Deliveries |->
               IF d \in pass.batch THEN Written(row[d], pass.new[d], pass.read[d]) ELSE row[d]]
  /\ pass' = NoPass
  /\ loose' = loose \ Entered
  /\ UNCHANGED <<queue, replay, lost, raced>>

(* The transaction is rolled back; the entries it made stay. *)
PassAbort ==
  /\ pass # NoPass
  /\ pass' = NoPass
  /\ loose' = loose \cup Entered
  /\ UNCHANGED <<row, queue, replay, lost, raced>>

-----------------------------------------------------------------------------
(* replay_from_dlq                                                         *)

ReplayStart(r, d) ==
  /\ replay[r].pc = "idle" /\ d \in Ids(queue)
  /\ replay' = [replay EXCEPT ![r] = [NoReplay EXCEPT !.pc = "read", !.id = {d}]]
  /\ UNCHANGED <<row, queue, pass, lost, raced, loose>>

ReplayRead(r) ==
  /\ replay[r].pc = "read"
  /\ \E d \in replay[r].id :
       /\ replay' = [replay EXCEPT ![r].pc = "write",
                                  ![r].sets = {c \in Columns : row[d][c] # NewRow[c]}]
       /\ raced' = IF d \in pass.batch THEN raced \cup {d} ELSE raced
  /\ UNCHANGED <<row, queue, pass, lost, loose>>

Reset(r, old) == [c \in Columns |-> IF c \in replay[r].sets THEN NewRow[c] ELSE old[c]]

ReplayCommit(r) ==
  /\ replay[r].pc = "write"
  /\ row' = [d \in Deliveries |-> IF d \in replay[r].id THEN Reset(r, row[d]) ELSE row[d]]
  /\ replay' = [replay EXCEPT ![r].pc = "mark", ![r].sets = {}]
  /\ UNCHANGED <<queue, pass, lost, raced, loose>>

Marked(q, ids) == [i \in DOMAIN q |-> [q[i] EXCEPT !.replayed = @ \/ q[i].id \in ids]]

(* Mutant: the mark is lost. *)
ReplayMarkForgotten(r) ==
  /\ replay[r].pc = "mark"
  /\ replay' = [replay EXCEPT ![r] = NoReplay]
  /\ UNCHANGED <<row, queue, pass, lost, raced, loose>>

ReplayMark(r) ==
  /\ replay[r].pc = "mark"
  /\ queue' = Marked(queue, replay[r].id)
  /\ replay' = [replay EXCEPT ![r] = NoReplay]
  /\ UNCHANGED <<row, pass, lost, raced, loose>>

(* Mutant: the entry is marked before the transaction has ended. *)
ReplayAbortMarked(r) ==
  /\ replay[r].pc \in {"read", "write"}
  /\ queue' = Marked(queue, replay[r].id)
  /\ replay' = [replay EXCEPT ![r] = NoReplay]
  /\ UNCHANGED <<row, pass, lost, raced, loose>>

ReplayAbort(r) ==
  /\ replay[r].pc \in {"read", "write"}
  /\ replay' = [replay EXCEPT ![r] = NoReplay]
  /\ UNCHANGED <<row, queue, pass, lost, raced, loose>>

-----------------------------------------------------------------------------
(* What the others make of a row, whatever its status: the sender and the  *)
(* delivery processor write their outcome, and a manual retry begins anew. *)
(* They write from reads of their own, which WebhookDelivery follows; a    *)
(* mixture differs from these in the attempts of a row that is not failed. *)
Others(d) ==
  /\ \/ row' = [row EXCEPT ![d] = [status |-> "success", attempts |-> 1]]
     \/ \E n \in 0 .. MaxRetries :
          row' = [row EXCEPT ![d] = [status |-> "failed", attempts |-> n]]
     \/ row' = [row EXCEPT ![d] = NewRow]
  /\ loose' = IF row[d].status = "dead_letter" THEN loose \cup {d} ELSE loose
  /\ UNCHANGED <<queue, pass, replay, lost, raced>>

(* The queue lives in memory. *)
Restart ==
  /\ Become(<<>>)
  /\ pass' = NoPass /\ loose' = loose \cup Entered
  /\ replay' = [r \in Replays |-> NoReplay]
  /\ UNCHANGED <<row, raced>>

Next ==
  \/ PassSelect \/ PassCommit \/ PassAbort
  \/ \E d \in Deliveries : PassGiveUp(d) \/ PassSucceed(d) \/ PassFail(d) \/ Others(d)
  \/ \E r \in Replays : \/ \E d \in Deliveries : ReplayStart(r, d)
                        \/ ReplayRead(r) \/ ReplayCommit(r) \/ ReplayMark(r) \/ ReplayAbort(r)
  \/ Purge \/ Restart

Spec == Init /\ [][Next]_vars

-----------------------------------------------------------------------------
(* Type invariant of the rows, the queue with its bound and without        *)
(* duplicates, the pass and the replays.                                   *)
TypeOK ==
  /\ row \in [Deliveries -> Row]
  /\ queue \in Seq(Entry) /\ Len(queue) <= MaxSize
  /\ \A i, j \in DOMAIN queue : queue[i].id = queue[j].id => i = j
  /\ pass \in Pass
  /\ replay \in [Replays -> Replay]
  /\ lost \cup raced \cup loose \subseteq Deliveries

(* A delivery given up in the table waits in the queue, where it can be    *)
(* found and replayed, unless its entry was evicted, purged or lost with   *)
(* the process, or a replay of it overlapped a pass.                       *)
DeadIsReplayableUnlessRaced ==
  \A d \in Deliveries \ (lost \cup raced) :
    row[d].status = "dead_letter" => d \in Waiting(queue)

(* An entry that waits is of a delivery given up, in the table or by the   *)
(* pass under way; a replay may have reset the row and be about to mark    *)
(* the entry.  An entry of a delivery that is still retried, or is         *)
(* delivered, is left by a pass that was cut short and by a sender, the    *)
(* delivery processor or a manual retry that writes the row of a delivery  *)
(* given up, and by nothing else: no order of the manager's own passes,    *)
(* evictions and replays leaves one.                                       *)
EntryIsDeadUnlessTaken ==
  \A d \in Waiting(queue) \ (raced \cup loose) :
    \/ row[d].status = "dead_letter" \/ d \in Entered
    \/ \E r \in Replays : replay[r].pc = "mark" /\ d \in replay[r].id

(* WebhookRetryManager: after exhausting retries "deliveries are moved to  *)
(* the dead letter queue for manual inspection and replay".                *)
DeadIsReplayable ==
  \A d \in Deliveries \ lost : row[d].status = "dead_letter" => d \in Waiting(queue)
=============================================================================
