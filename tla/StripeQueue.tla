----------------------------- MODULE StripeQueue -----------------------------
(***************************************************************************)
(* StripeWebhookProcessor (background.py): events are acknowledged when    *)
(* they enter an in-memory queue and processed by a background loop.  stop *)
(* awaits the loop it cancels; a start during that await begins a second   *)
(* loop, which the rest of stop then forgets.  What provisioning does with *)
(* an event is not in this repository: its four outcomes are a choice.     *)
(***************************************************************************)
EXTENDS Naturals, Sequences

CONSTANTS
  QueueSize,  \* max_queue_size
  MaxEvents   \* bound on the events received

ASSUME StripeAssumption == QueueSize \in Nat \ {0} /\ MaxEvents \in Nat

Loops == 1 .. 2  \* tasks that may exist at once
Events == 1 .. MaxEvents

VARIABLES
  stripe,    \* _running, _task (0: None), received events, stopping: the loop a stop awaits
  queue,     \* _queue
  loops,     \* what each loop task does: "none", "waiting" or the event in its hands (0: none)
  done,      \* events by what became of them
  stats      \* _total_processed, _total_errors

stripeVars == <<stripe, queue, loops, done, stats>>

Fates == {"dropped", "processed", "failed", "skipped", "raised", "lost"}
NoLoop == [is |-> "none", event |-> 0]
Waiting == [is |-> "waiting", event |-> 0]

StripeTypeOK ==
  /\ stripe \in [running : BOOLEAN, task : {0} \cup Loops, stopping : {0} \cup Loops,
                 received : 0 .. MaxEvents]
  /\ \A i \in DOMAIN queue : queue[i] \in Events
  /\ loops \in [Loops -> [is : {"none", "waiting", "busy"}, event : {0} \cup Events]]
  /\ done \in [Fates -> SUBSET Events]
  /\ stats \in [processed : 0 .. MaxEvents, errors : 0 .. MaxEvents]

StripeInit ==
  /\ stripe = [running |-> FALSE, task |-> 0, stopping |-> 0, received |-> 0]
  /\ queue = <<>> /\ loops = [l \in Loops |-> NoLoop]
  /\ done = [f \in Fates |-> {}] /\ stats = [processed |-> 0, errors |-> 0]

End(f, events) == done' = [done EXCEPT ![f] = @ \cup events]

(* enqueue: a full queue drops the event and answers False. *)
Enqueue ==
  /\ stripe.received < MaxEvents
  /\ stripe' = [stripe EXCEPT !.received = @ + 1]
  /\ IF Len(queue) < QueueSize
       THEN queue' = Append(queue, stripe'.received) /\ UNCHANGED done
       ELSE End("dropped", {stripe'.received}) /\ UNCHANGED queue
  /\ UNCHANGED <<loops, stats>>

StartStripe ==
  /\ ~stripe.running
  /\ \E l \in Loops :
       /\ loops[l] = NoLoop /\ l # stripe.stopping
       /\ stripe' = [stripe EXCEPT !.running = TRUE, !.task = l]
       /\ loops' = [loops EXCEPT ![l] = Waiting]
  /\ UNCHANGED <<queue, done, stats>>

(* stop up to its await, and after it: the task then forgotten may be one  *)
(* that was started in between.                                            *)
StopStripe ==
  /\ stripe.stopping = 0
  /\ stripe' = [stripe EXCEPT !.running = FALSE, !.stopping = stripe.task]
  /\ UNCHANGED <<queue, loops, done, stats>>

LoopCancelled ==
  /\ stripe.stopping # 0
  /\ LET l == stripe.stopping
     IN /\ loops' = [loops EXCEPT ![l] = NoLoop]
        /\ End("lost", IF loops[l].is = "busy" THEN {loops[l].event} ELSE {})
  /\ stripe' = [stripe EXCEPT !.stopping = 0, !.task = 0]
  /\ UNCHANGED <<queue, stats>>

(* _loop: the head of the queue is taken before it is processed; a task    *)
(* that was cancelled resumes only to end.                                 *)
Take(l) ==
  /\ loops[l] = Waiting /\ queue # <<>> /\ l # stripe.stopping
  /\ loops' = [loops EXCEPT ![l] = [is |-> "busy", event |-> Head(queue)]]
  /\ queue' = Tail(queue)
  /\ UNCHANGED <<stripe, done, stats>>

ProcessEvent(l, fate) ==
  /\ loops[l].is = "busy" /\ l # stripe.stopping /\ fate \in {"processed", "failed", "skipped", "raised"}
  /\ End(fate, {loops[l].event})
  /\ stats' = [processed |-> stats.processed + (IF fate = "processed" THEN 1 ELSE 0),
               errors |-> stats.errors + (IF fate = "failed" THEN 1 ELSE 0)]
  /\ loops' = [loops EXCEPT ![l] = IF stripe.running THEN Waiting ELSE NoLoop]
  /\ UNCHANGED <<stripe, queue>>

(* The wait ends, by its timeout, after running was cleared. *)
LoopEnds(l) ==
  /\ loops[l] = Waiting /\ ~stripe.running /\ l # stripe.stopping
  /\ loops' = [loops EXCEPT ![l] = NoLoop]
  /\ UNCHANGED <<stripe, queue, done, stats>>

(* The process restarts: the queue was in its memory. *)
RestartStripe ==
  /\ End("lost", {queue[i] : i \in DOMAIN queue} \cup
                 {loops[l].event : l \in {m \in Loops : loops[m].is = "busy"}})
  /\ queue' = <<>> /\ loops' = [l \in Loops |-> NoLoop]
  /\ stripe' = [stripe EXCEPT !.running = FALSE, !.task = 0, !.stopping = 0]
  /\ stats' = [processed |-> 0, errors |-> 0]

StripeNext ==
  \/ Enqueue \/ StartStripe \/ StopStripe \/ LoopCancelled \/ RestartStripe
  \/ \E l \in Loops :
       Take(l) \/ LoopEnds(l) \/ \E f \in {"processed", "failed", "skipped", "raised"} : ProcessEvent(l, f)

---------------------------------------------------------------------------
Queued == {queue[i] : i \in DOMAIN queue}
InHand == {loops[l].event : l \in {m \in Loops : loops[m].is = "busy"}}

(* An event that was acknowledged is queued, in the hands of one loop, or  *)
(* has met exactly one fate, whatever starts and stops overlap; and no     *)
(* event waits in the queue behind a later one.                            *)
EventsAccounted ==
  /\ 1 .. stripe.received = Queued \cup InHand \cup UNION {done[f] : f \in Fates}
  /\ Queued \cap InHand = {} /\ \A f \in Fates : done[f] \cap (Queued \cup InHand) = {}
  /\ \A f, g \in Fates : f # g => done[f] \cap done[g] = {}
  /\ \A i, j \in DOMAIN queue : i < j => queue[i] < queue[j]
  /\ \A l, m \in Loops : l # m /\ loops[l].is = "busy" => loops[l].event # loops[m].event
=============================================================================
