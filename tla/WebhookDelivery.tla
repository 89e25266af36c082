--------------------------- MODULE WebhookDelivery ---------------------------
(***************************************************************************)
(* One webhook delivery and everybody who writes its row: the request that *)
(* dispatches it, the in-process tasks that send it (WebhookService), the  *)
(* passes of AsyncWebhookDeliveryProcessor and the manual retry.           *)
(*                                                                         *)
(* A task started by dispatch runs on its own: it does not wait for the    *)
(* transaction that inserts the row, and it keeps the endpoint's settings  *)
(* of the moment it was started.  A pass reads the row first, posts, and   *)
(* writes at the commit of the same session.  Each writer's UPDATE names   *)
(* the columns that it saw change, so two writers mix their columns.       *)
(***************************************************************************)
EXTENDS Naturals

CONSTANTS
  Senders,      \* slots of sender tasks
  Pass,         \* the delivery processor
  Admin,        \* the session of a manual retry
  MaxRetries,   \* max_retries of the endpoint
  AttemptsCap,  \* bound: the attempts column saturates here
  Cascades      \* the database deletes the deliveries of a deleted endpoint

ASSUME RetriesAssumption == MaxRetries \in Nat /\ AttemptsCap \in Nat /\ AttemptsCap > MaxRetries
ASSUME CascadesAssumption == Cascades \in BOOLEAN
ASSUME WritersAssumption == Pass \notin Senders /\ Admin \notin Senders \cup {Pass}

Writers == Senders \cup {Pass, Admin}

Statuses == {"pending", "retrying", "success", "failed"}
Due == {"none", "later", "now"}   \* next_retry_at: NULL, ahead, reached

(* "absent": the row is not committed, or deleted. *)
Row == [status : Statuses \cup {"absent"}, attempts : Nat, due : Due]
NoRow == [status |-> "absent", attempts |-> 0, due |-> "none"]
NewRow == [NoRow EXCEPT !.status = "pending"]

(* A writer: where it is suspended, the row it read, the row it means to   *)
(* write, and for a sender the number of attempts it has behind it.        *)
Job == [pc : {"idle", "others", "endpoint", "post", "record", "write", "flushed"},
        tries : 0 .. MaxRetries + 1, snap : Row, new : Row]
Idle == [pc |-> "idle", tries |-> 0, snap |-> NoRow, new |-> NoRow]

VARIABLES
  row,        \* the committed row of the delivery
  endpoint,   \* status of the endpoint's row
  tx,         \* the transaction that dispatches the event
  job,        \* the writers
  posts,      \* history: requests sent while the row was not committed
  reached,    \* history: what has come of the requests so far
  meddled     \* history: endpoint paused or deleted, or a manual retry

vars == <<row, endpoint, tx, job, posts, reached, meddled>>

Init ==
  /\ row = NoRow /\ endpoint \in {"active", "paused"} /\ tx = "none"
  /\ job = [w \in Writers |-> Idle]
  /\ posts = 0 /\ reached = "never" /\ meddled = (endpoint # "active")

(* `posts' counts to MaxRetries + 2, one above what PhantomIsBounded claims. *)
Post(ok) ==
  /\ posts' = IF tx # "committed" /\ posts < MaxRetries + 2 THEN posts + 1 ELSE posts
  /\ reached' = IF ok \/ reached = "accepted" THEN "accepted" ELSE "posted"

Begun(pc, new) == [pc |-> pc, tries |-> 0, snap |-> row, new |-> new]
Become(w, pc) == job' = [job EXCEPT ![w].pc = pc]
Leave(w) == job' = [job EXCEPT ![w] = Idle]
Locked == job[Admin].pc = "flushed"

(* The columns an UPDATE names: those that changed, and next_retry_at      *)
(* whenever it was assigned a time, which is always a new one.             *)
Named(new, snap) ==
  {c \in DOMAIN new : new[c] # snap[c]} \cup (IF new.due = "later" THEN {"due"} ELSE {})
Written(w) ==
  [c \in DOMAIN row |-> IF c \in Named(job[w].new, job[w].snap) THEN job[w].new[c] ELSE row[c]]

-----------------------------------------------------------------------------
(* dispatch and the endpoint's test call: insert, start the task, and      *)
(* leave the commit to the caller.                                         *)
Dispatch(s) ==
  /\ tx = "none" /\ endpoint # "gone" /\ job[s].pc = "idle"
  /\ tx' = "open"
  /\ Become(s, "post")
  /\ UNCHANGED <<row, endpoint, posts, reached, meddled>>

CommitDispatch ==
  /\ tx = "open"
  /\ tx' = "committed" /\ row' = NewRow /\ posts' = 0
  /\ UNCHANGED <<endpoint, job, reached, meddled>>

RollbackDispatch ==
  /\ tx = "open"
  /\ tx' = "rolledback"
  /\ UNCHANGED <<row, endpoint, job, posts, reached, meddled>>

-----------------------------------------------------------------------------
(* _send_delivery and _update_delivery_status                              *)

(* Mutants: every answer counts; one attempt too many. *)
SendAnyAnswer(s) ==
  /\ job[s].pc = "post"
  /\ \E ok \in BOOLEAN :
       /\ Post(ok)
       /\ job' = [job EXCEPT ![s].pc = "record", ![s].tries = @ + 1, ![s].new.status = "success"]
  /\ UNCHANGED <<row, endpoint, tx, meddled>>
RetriesLeftOffByOne(s) == job[s].tries <= MaxRetries

RetriesLeft(s) == job[s].tries < MaxRetries

(* One POST.  The sleep between attempts is part of the way to the next.   *)
Send(s) ==
  /\ job[s].pc = "post"
  /\ \E ok \in BOOLEAN :
       /\ Post(ok)
       /\ job' = IF ~ok /\ RetriesLeft(s)
                 THEN [job EXCEPT ![s].tries = @ + 1]
                 ELSE [job EXCEPT ![s].pc = "record", ![s].tries = @ + 1,
                                  ![s].new.status = IF ok THEN "success" ELSE "failed"]
  /\ UNCHANGED <<row, endpoint, tx, meddled>>

(* Mutant: a failure is recorded without a time for its retry. *)
OutcomeUnscheduled(s) == [row EXCEPT !.status = job[s].new.status, !.attempts = job[s].tries]

Outcome(s) ==
  [status   |-> job[s].new.status,
   attempts |-> job[s].tries,
   due      |-> IF job[s].new.status = "failed" THEN "later" ELSE row.due]

(* A fresh session looks for the row; not finding it, it gives up. *)
Record(s) ==
  /\ job[s].pc = "record"
  /\ IF row.status = "absent"
     THEN Leave(s)
     ELSE job' = [job EXCEPT ![s].pc = "write", ![s].snap = row, ![s].new = Outcome(s)]
  /\ UNCHANGED <<row, endpoint, tx, posts, reached, meddled>>

(* Flush and commit; a row deleted meanwhile is an exception, and logged. *)
Write(w) ==
  /\ job[w].pc = "write" /\ ~Locked
  /\ row' = IF row.status = "absent" THEN row ELSE Written(w)
  /\ Leave(w)
  /\ UNCHANGED <<endpoint, tx, posts, reached, meddled>>

-----------------------------------------------------------------------------
(* AsyncWebhookDeliveryProcessor.run_once                                  *)

(* Mutant: pending is left out of the selected statuses. *)
SelectedNotPending ==
  \/ row.status = "retrying"
  \/ row.status = "failed" /\ row.due = "now"

Selected ==
  \/ row.status \in {"pending", "retrying"}
  \/ row.status = "failed" /\ row.due = "now"

PassSelect ==
  /\ job[Pass].pc = "idle" /\ Selected
  /\ job' = [job EXCEPT ![Pass] = Begun("endpoint", row)]
  /\ UNCHANGED <<row, endpoint, tx, posts, reached, meddled>>

(* The queries stop at batch_size rows and order none: a pass may be busy  *)
(* with others, this row being due or not, and end without it.             *)
PassMiss ==
  /\ job[Pass].pc = "idle"
  /\ Become(Pass, "others")
  /\ UNCHANGED <<row, endpoint, tx, posts, reached, meddled>>

PassEndOthers ==
  /\ job[Pass].pc = "others"
  /\ Leave(Pass)
  /\ UNCHANGED <<row, endpoint, tx, posts, reached, meddled>>

PassEndpoint ==
  /\ job[Pass].pc = "endpoint"
  /\ job' = IF endpoint = "active"
            THEN [job EXCEPT ![Pass].pc = "post"]
            ELSE [job EXCEPT ![Pass].pc = "write", ![Pass].new.status = "failed"]
  /\ UNCHANGED <<row, endpoint, tx, posts, reached, meddled>>

Increment(n) == IF n < AttemptsCap THEN n + 1 ELSE n

(* Mutant: a status that no query selects. *)
AttemptMisspelt(read, ok) ==
  [read EXCEPT !.attempts = Increment(@), !.status = IF ok THEN "success" ELSE "retry"]

(* _attempt_delivery: what the row becomes. *)
Attempt(read, ok) ==
  IF ok \/ read.attempts + 1 >= MaxRetries
  THEN [read EXCEPT !.attempts = Increment(@), !.status = IF ok THEN "success" ELSE "failed"]
  ELSE [status |-> "retrying", attempts |-> Increment(read.attempts), due |-> "later"]

PassPost ==
  /\ job[Pass].pc = "post"
  /\ \E ok \in BOOLEAN :
       /\ Post(ok)
       /\ job' = [job EXCEPT ![Pass].pc = "write", ![Pass].new = Attempt(job[Pass].snap, ok)]
  /\ UNCHANGED <<row, endpoint, tx, meddled>>

PassAbort ==
  /\ job[Pass].pc # "idle"
  /\ Leave(Pass)
  /\ UNCHANGED <<row, endpoint, tx, posts, reached, meddled>>

-----------------------------------------------------------------------------
(* retry_delivery: any status; the task starts before the commit.          *)

RetryRead ==
  /\ job[Admin].pc = "idle" /\ row.status # "absent" /\ endpoint # "gone"
  /\ job' = [job EXCEPT ![Admin] = Begun("write", NewRow)]
  /\ UNCHANGED <<row, endpoint, tx, posts, reached, meddled>>

RetryFlush(s) ==
  /\ job[Admin].pc = "write" /\ row.status # "absent" /\ job[s].pc = "idle"
  /\ job' = [job EXCEPT ![Admin].pc = "flushed", ![s].pc = "post"]
  /\ UNCHANGED <<row, endpoint, tx, posts, reached, meddled>>

RetryCommit ==
  /\ job[Admin].pc = "flushed"
  /\ row' = Written(Admin) /\ meddled' = TRUE
  /\ Leave(Admin)
  /\ UNCHANGED <<endpoint, tx, posts, reached>>

RetryAbort ==
  /\ job[Admin].pc # "idle"
  /\ Leave(Admin)
  /\ UNCHANGED <<row, endpoint, tx, posts, reached, meddled>>

-----------------------------------------------------------------------------
(* update_endpoint and delete_endpoint *)
SetEndpoint ==
  /\ endpoint # "gone"
  /\ endpoint' \in {"active", "paused"} \ {endpoint}
  /\ meddled' = TRUE
  /\ UNCHANGED <<row, tx, job, posts, reached>>

DeleteEndpoint ==
  /\ endpoint # "gone"
  /\ Cascades => tx # "open" /\ ~Locked
  /\ endpoint' = "gone" /\ meddled' = TRUE
  /\ row' = IF Cascades THEN NoRow ELSE row
  /\ UNCHANGED <<tx, job, posts, reached>>

(* The clock reaches next_retry_at. *)
ReachDue ==
  /\ row.due = "later"
  /\ row' = [row EXCEPT !.due = "now"]
  /\ UNCHANGED <<endpoint, tx, job, posts, reached, meddled>>

(* The process dies with its tasks and open sessions. *)
Restart ==
  /\ job' = [w \in Writers |-> Idle]
  /\ tx' = IF tx = "open" THEN "rolledback" ELSE tx
  /\ UNCHANGED <<row, endpoint, posts, reached, meddled>>

-----------------------------------------------------------------------------
Next ==
  \/ \E s \in Senders : Dispatch(s) \/ Send(s) \/ Record(s) \/ RetryFlush(s)
  \/ \E w \in Senders \cup {Pass} : Write(w)
  \/ CommitDispatch \/ RollbackDispatch
  \/ PassSelect \/ PassMiss \/ PassEndOthers \/ PassEndpoint \/ PassPost \/ PassAbort
  \/ RetryRead \/ RetryCommit \/ RetryAbort
  \/ SetEndpoint \/ DeleteEndpoint \/ ReachDue \/ Restart

Spec == Init /\ [][Next]_vars

(* The processor's loop never ends, whichever rows its passes take; a POST *)
(* ends by its timeout, and the row's lock, which a retry takes and gives  *)
(* back, is granted in the end.                                            *)
FairSpec ==
  /\ Spec
  /\ WF_vars(PassSelect \/ PassMiss) /\ WF_vars(PassEndOthers)
  /\ WF_vars(PassEndpoint) /\ WF_vars(PassPost)
  /\ SF_vars(Write(Pass)) /\ WF_vars(RetryCommit)

-----------------------------------------------------------------------------
(* Type invariant of the delivery's row, the endpoint, the transaction and *)
(* the writers.                                                            *)
TypeOK ==
  /\ row \in Row
  /\ endpoint \in {"active", "paused", "gone"}
  /\ tx \in {"none", "open", "committed", "rolledback"}
  /\ job \in [Writers -> Job]
  /\ posts \in 0 .. MaxRetries + 2
  /\ reached \in {"never", "posted", "accepted"} /\ meddled \in BOOLEAN

(* Whichever writers' columns end up in the row, "success" in it means     *)
(* that the endpoint has accepted the event.                               *)
NoFalseSuccess == row.status = "success" => reached = "accepted"

(* An event of a transaction that was rolled back is sent by nobody but    *)
(* the task dispatch had started, so at most max_retries + 1 times.        *)
PhantomIsBounded == tx = "rolledback" => posts <= MaxRetries + 1

(* With two retries or more, an active endpoint and no manual retry, no    *)
(* mixture of columns leaves a failed delivery without a time for its next *)
(* attempt: the delivery is never forgotten.                               *)
FailedIsScheduled ==
  row.status = "failed" /\ ~meddled /\ MaxRetries >= 2 => row.due # "none"

(* A pass that is of no use to this row: the LIMIT leaves it out though    *)
(* the queries find it, or the pass has taken it and is cut short.         *)
Taken == job[Pass].pc \notin {"idle", "others"}
PassInVain == (Selected /\ PassMiss) \/ (Taken /\ (PassAbort \/ Restart))

(* A committed pending delivery does not depend on the task dispatch       *)
(* started.  Even if that crashed, or ended before the commit and found no *)
(* row, the delivery leaves "pending", and not without a request to its    *)
(* endpoint unless that was paused or deleted or an admin retried: so long *)
(* as, from some time on, no pass is in vain.                              *)
PendingIsAttempted ==
  <>[][~PassInVain]_vars =>
    (row.status = "pending" ~> row.status # "pending" /\ (reached # "never" \/ meddled))
=============================================================================
