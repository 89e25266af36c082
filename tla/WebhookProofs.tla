---------------------------- MODULE WebhookProofs ----------------------------
(***************************************************************************)
(* Theorems about WebhookDelivery, for any number of senders and retries:  *)
(* its type invariant and the three safety invariants of its runs.         *)
(*                                                                         *)
(* One inductive invariant carries them: what the writers are while the    *)
(* dispatching transaction has not committed (Phantom), what each writer   *)
(* means to write (Honest), and, as long as nobody has meddled, how what   *)
(* it read relates to the row it will find (Scheduled).                    *)
(***************************************************************************)
EXTENDS WebhookDelivery, TLAPS

(* A writer that is not at work holds nothing; a sender that posts has     *)
(* attempts left.                                                          *)
Slots ==
  /\ \A w \in Writers : job[w].pc = "idle" => job[w] = Idle
  /\ \A s \in Senders : /\ job[s].pc \in {"idle", "post", "record", "write"}
                        /\ job[s].pc = "post" => job[s].tries <= MaxRetries
                        /\ job[s].pc = "record" => job[s].new.status \in {"success", "failed"}
  /\ job[Pass].pc \in {"idle", "others", "endpoint", "post", "write"}
  /\ job[Admin].pc \in {"idle", "write", "flushed"}

(* Until the dispatching transaction commits there is no row; the only     *)
(* writer at work is the sender it started, and every request so far is    *)
(* one of its attempts.                                                    *)
Phantom ==
  tx # "committed" =>
    /\ row = NoRow
    /\ job[Pass].pc \in {"idle", "others"} /\ job[Admin].pc = "idle"
    /\ \A s \in Senders : job[s].pc # "write"
    /\ \A s, t \in Senders : job[s].pc # "idle" /\ job[t].pc # "idle" => s = t
    /\ \A s \in Senders : job[s].pc = "post" => posts <= job[s].tries
    /\ posts <= MaxRetries + 1
    /\ tx = "none" => posts = 0 /\ \A s \in Senders : job[s].pc = "idle"

(* Nobody holds a success that the endpoint has not given. *)
Honest == NoFalseSuccess /\ \A w \in Writers : job[w].new.status = "success" => reached = "accepted"

(* What a writer has read of the row still bounds the row: a time that was *)
(* set is not unset, a delivery that was begun is not pending again.       *)
Reading(w) == job[w].pc = "write" \/ (w = Pass /\ job[w].pc \notin {"idle", "others"})
StillTrue(w) ==
  /\ job[w].snap.due # "none" => row.due # "none"
  /\ job[w].snap.status # "pending" => row.status # "pending"

(* What it means to write is no pending delivery; unscheduled it is a      *)
(* success, or repeats a status and a time it has read.                    *)
Sound(w) ==
  /\ job[w].new.status \notin {"pending", "absent"}
  /\ job[w].new.due # job[w].snap.due => job[w].new.due = "later"
  /\ job[w].new.status # "success" => job[w].new.due # "none"

(* A row without a time is untried or a success. *)
Untried(r) == r.due = "none" => r.status = "success" \/ (r.status = "pending" /\ r.attempts = 0)

Scheduled ==
  ~meddled /\ MaxRetries >= 2 =>
    /\ endpoint = "active"
    /\ row.status # "absent" => Untried(row)
    /\ \A w \in Senders \cup {Pass} :
         Reading(w) => StillTrue(w) /\ row.status # "absent"
    /\ \A w \in Senders \cup {Pass} : job[w].pc = "write" => Sound(w)
    /\ job[Pass].pc \in {"endpoint", "post"} =>
         /\ Untried(job[Pass].snap)
         /\ job[Pass].snap.status \in {"pending", "retrying", "failed"}

Inv == TypeOK /\ Slots /\ Phantom /\ Honest /\ Scheduled

-----------------------------------------------------------------------------
(* What an UPDATE leaves of the row is a row, column by column.            *)
LEMMA WrittenColumns ==
  ASSUME TypeOK, NEW w \in Writers
  PROVE  /\ Written(w) \in Row
         /\ Written(w).status = IF job[w].new.status # job[w].snap.status
                                THEN job[w].new.status ELSE row.status
         /\ Written(w).due = IF job[w].new.due # job[w].snap.due \/ job[w].new.due = "later"
                             THEN job[w].new.due ELSE row.due
<1> USE DEF TypeOK, Job, Row, Due, Statuses
<1>1. DOMAIN row = {"status", "attempts", "due"} /\ DOMAIN job[w].new = {"status", "attempts", "due"}
  OBVIOUS
<1>2. Written(w) = [status |-> Written(w).status, attempts |-> Written(w).attempts, due |-> Written(w).due]
  BY <1>1 DEF Written
<1> QED BY <1>1, <1>2 DEF Written, Named

(* A writer that leaves holds nothing. *)
LEMMA LeaveTypes ==
  ASSUME TypeOK, NEW w \in Writers, Leave(w)
  PROVE  job' \in [Writers -> Job] /\ job'[w] = Idle /\ \A v \in Writers \ {w} : job'[v] = job[v]
<1>1. Idle \in Job
  BY RetriesAssumption DEF Idle, Job, Row, NoRow, Statuses, Due
<1> QED BY <1>1 DEF TypeOK, Leave

(* The job of a sender after one more POST. *)
LEMMA SendTypes ==
  ASSUME TypeOK, Slots, NEW s \in Senders, Send(s)
  PROVE  /\ job' \in [Writers -> Job]
         /\ \A v \in Writers \ {s} : job'[v] = job[v]
         /\ job'[s].tries = job[s].tries + 1
         /\ job'[s].pc \in {"post", "record"} /\ (job'[s].pc = "post" => job'[s].tries <= MaxRetries)
         /\ job'[s].new.status = "success" => reached' = "accepted" \/ job[s].new.status = "success"
<1>1. s \in Writers /\ job[s] \in Job /\ job[s].tries <= MaxRetries /\ job[s].pc = "post"
  BY DEF TypeOK, Slots, Send, Writers
<1>2. PICK ok \in BOOLEAN :
       /\ Post(ok)
       /\ job' = IF ~ok /\ RetriesLeft(s)
                 THEN [job EXCEPT ![s].tries = @ + 1]
                 ELSE [job EXCEPT ![s].pc = "record", ![s].tries = @ + 1,
                                  ![s].new.status = IF ok THEN "success" ELSE "failed"]
  BY DEF Send
<1>3. CASE ~ok /\ RetriesLeft(s)
  BY <1>1, <1>2, <1>3, RetriesAssumption DEF TypeOK, Job, Row, Statuses, Due, RetriesLeft
<1>4. CASE ~(~ok /\ RetriesLeft(s))
  BY <1>1, <1>2, <1>4, RetriesAssumption DEF TypeOK, Job, Row, Statuses, Due, Post
<1> QED BY <1>3, <1>4

(* What a pass makes of the row it has read. *)
LEMMA AttemptColumns ==
  ASSUME NEW r \in Row, NEW ok \in BOOLEAN
  PROVE  /\ Attempt(r, ok) \in Row
         /\ Attempt(r, ok).status \in {"success", "failed", "retrying"}
         /\ Attempt(r, ok).status = "success" => ok
         /\ Attempt(r, ok).due # r.due => Attempt(r, ok).due = "later"
         /\ Attempt(r, ok).status = "retrying" => Attempt(r, ok).due = "later"
         /\ Attempt(r, ok).status = "failed" => r.attempts + 1 >= MaxRetries
<1>1. Increment(r.attempts) \in Nat
  BY RetriesAssumption DEF Increment, Row
<1>2. CASE ok \/ r.attempts + 1 >= MaxRetries
  BY <1>1, <1>2 DEF Attempt, Row, Statuses
<1>3. CASE ~(ok \/ r.attempts + 1 >= MaxRetries)
  BY <1>1, <1>3 DEF Attempt, Row, Statuses, Due
<1> QED BY <1>2, <1>3

(* The row, the endpoint, the transaction and the slots keep their types. *)
LEMMA TypesPreserved == TypeOK /\ Slots /\ [Next]_vars => TypeOK' /\ Slots'
<1> SUFFICES ASSUME TypeOK, Slots, [Next]_vars PROVE TypeOK' /\ Slots'
  OBVIOUS
<1> USE RetriesAssumption, WritersAssumption DEF Writers
<1>0. NoRow \in Row /\ NewRow \in Row /\ Idle \in Job /\ NewRow = [status |-> "pending", attempts |-> 0, due |-> "none"]
  BY DEF NoRow, NewRow, Row, Idle, Job, Statuses, Due
<1>1. ASSUME NEW s \in Senders, Dispatch(s) PROVE TypeOK' /\ Slots'
  <2>1. job' = [job EXCEPT ![s].pc = "post"] /\ job[s] = Idle /\ job[s] \in Job
    BY <1>1 DEF Dispatch, Become, Slots, TypeOK
  <2>2. job' \in [Writers -> Job]
    BY <2>1 DEF TypeOK, Job
  <2> QED BY <1>1, <2>1, <2>2 DEF Dispatch, TypeOK, Slots, Idle
<1>2. ASSUME NEW s \in Senders, Send(s) PROVE TypeOK' /\ Slots'
  <2>1. job' \in [Writers -> Job] /\ (\A v \in Writers \ {s} : job'[v] = job[v]) /\ job'[s].pc \in {"post", "record"}
        /\ (job'[s].pc = "post" => job'[s].tries <= MaxRetries)
    BY <1>2, SendTypes
  <2>2. posts' \in 0 .. MaxRetries + 2 /\ reached' \in {"never", "posted", "accepted"}
    BY <1>2 DEF Send, Post, TypeOK
  <2> QED BY <1>2, <2>1, <2>2 DEF Send, TypeOK, Slots
<1>3. ASSUME NEW s \in Senders, Record(s) PROVE TypeOK' /\ Slots'
  <2>1. CASE row.status = "absent"
    BY <1>3, <2>1, LeaveTypes DEF Record, TypeOK, Slots, Idle
  <2>2. CASE row.status # "absent"
    <3>1. Outcome(s) \in Row
      BY <2>2 DEF Outcome, TypeOK, Job, Row, Statuses, Due
    <3>2. job' \in [Writers -> Job] /\ (\A v \in Writers \ {s} : job'[v] = job[v]) /\ job'[s].pc = "write"
      BY <1>3, <2>2, <3>1 DEF Record, TypeOK, Job
    <3> QED BY <1>3, <3>2 DEF Record, TypeOK, Slots
  <2> QED BY <2>1, <2>2
<1>4. ASSUME NEW s \in Senders, RetryFlush(s) PROVE TypeOK' /\ Slots'
  <2>1. job[s] = Idle /\ job[s] \in Job /\ job[Admin] \in Job
    BY <1>4 DEF RetryFlush, Slots, TypeOK
  <2>2. /\ job' \in [Writers -> Job] /\ (\A v \in Writers \ {s, Admin} : job'[v] = job[v])
        /\ job'[s].pc = "post" /\ job'[s].tries = 0 /\ job'[Admin].pc = "flushed"
    BY <1>4, <2>1 DEF RetryFlush, TypeOK, Job, Idle
  <2> QED BY <1>4, <2>2 DEF RetryFlush, TypeOK, Slots
<1>5. ASSUME NEW w \in Senders \cup {Pass}, Write(w) PROVE TypeOK' /\ Slots'
  BY <1>5, LeaveTypes, WrittenColumns DEF Write, TypeOK, Slots, Idle
<1>6. CASE CommitDispatch
  BY <1>0, <1>6 DEF CommitDispatch, TypeOK, Slots
<1>7. CASE RollbackDispatch
  BY <1>7 DEF RollbackDispatch, TypeOK, Slots
<1>8. CASE PassSelect
  BY <1>8 DEF PassSelect, Begun, TypeOK, Slots, Job
<1>9. CASE PassEndpoint
  <2>1. CASE endpoint = "active"
    BY <1>9, <2>1 DEF PassEndpoint, TypeOK, Slots, Job
  <2>2. CASE endpoint # "active"
    <3>1. job[Pass] \in Job /\ [job[Pass].new EXCEPT !.status = "failed"] \in Row
      BY DEF TypeOK, Job, Row, Statuses
    <3>2. job' = [job EXCEPT ![Pass].pc = "write", ![Pass].new.status = "failed"]
      BY <1>9, <2>2 DEF PassEndpoint
    <3>3. job' \in [Writers -> Job] /\ (\A v \in Writers \ {Pass} : job'[v] = job[v]) /\ job'[Pass].pc = "write"
      BY <3>1, <3>2 DEF TypeOK, Job
    <3> QED BY <1>9, <3>3 DEF PassEndpoint, TypeOK, Slots
  <2> QED BY <2>1, <2>2
<1>10. CASE PassPost
  <2>1. PICK ok \in BOOLEAN :
          /\ Post(ok)
          /\ job' = [job EXCEPT ![Pass].pc = "write", ![Pass].new = Attempt(job[Pass].snap, ok)]
    BY <1>10 DEF PassPost
  <2>2. Attempt(job[Pass].snap, ok) \in Row
    BY AttemptColumns DEF TypeOK, Job
  <2>3. job' \in [Writers -> Job] /\ (\A v \in Writers \ {Pass} : job'[v] = job[v]) /\ job'[Pass].pc = "write"
    BY <2>1, <2>2 DEF TypeOK, Job
  <2>4. posts' \in 0 .. MaxRetries + 2 /\ reached' \in {"never", "posted", "accepted"}
    BY <2>1 DEF Post, TypeOK
  <2> QED BY <1>10, <2>3, <2>4 DEF PassPost, TypeOK, Slots
<1>11. CASE PassAbort
  BY <1>11, LeaveTypes DEF PassAbort, TypeOK, Slots, Idle
<1>12. CASE RetryRead
  BY <1>0, <1>12 DEF RetryRead, Begun, TypeOK, Slots, Job
<1>13. CASE RetryCommit
  BY <1>13, LeaveTypes, WrittenColumns DEF RetryCommit, TypeOK, Slots, Idle
<1>14. CASE RetryAbort
  BY <1>14, LeaveTypes DEF RetryAbort, TypeOK, Slots, Idle
<1>15. CASE SetEndpoint
  BY <1>15 DEF SetEndpoint, TypeOK, Slots
<1>16. CASE DeleteEndpoint
  BY <1>0, <1>16 DEF DeleteEndpoint, TypeOK, Slots
<1>17. CASE ReachDue
  BY <1>17 DEF ReachDue, TypeOK, Slots, Row, Due
<1>18. CASE Restart
  BY <1>0, <1>18 DEF Restart, TypeOK, Slots, Idle
<1>19. CASE UNCHANGED vars
  BY <1>19 DEF vars, TypeOK, Slots
<1>20. CASE PassMiss
  <2>1. job' \in [Writers -> Job] /\ (\A v \in Writers \ {Pass} : job'[v] = job[v]) /\ job'[Pass].pc = "others"
    BY <1>20 DEF PassMiss, Become, TypeOK, Job
  <2> QED BY <1>20, <2>1 DEF PassMiss, TypeOK, Slots
<1>21. CASE PassEndOthers
  BY <1>21, LeaveTypes DEF PassEndOthers, TypeOK, Slots, Idle
<1> QED
  BY <1>1, <1>2, <1>3, <1>4, <1>5, <1>6, <1>7, <1>8, <1>9, <1>10, <1>11, <1>12, <1>13, <1>14,
     <1>15, <1>16, <1>17, <1>18, <1>19, <1>20, <1>21 DEF Next

(* Before the commit of the dispatch only its own task moves, and each of  *)
(* its requests uses up one of its attempts.                               *)
LEMMA PhantomPreserved == TypeOK /\ Slots /\ Phantom /\ [Next]_vars => Phantom'
<1> SUFFICES ASSUME TypeOK, Slots, Phantom, [Next]_vars, tx' # "committed" PROVE Phantom'
  BY DEF Phantom
<1> USE RetriesAssumption, WritersAssumption DEF Writers
<1>0. Idle.pc = "idle" /\ Idle.tries = 0 /\ NoRow.status = "absent" /\ NoRow.due = "none" /\ posts \in Nat
  BY DEF Idle, NoRow, TypeOK
<1>00. row \in Row /\ job \in [Writers -> Job]
  BY DEF TypeOK
<1>1. ASSUME NEW s \in Senders, Dispatch(s) PROVE Phantom'
  <2>1. job' = [job EXCEPT ![s].pc = "post"] /\ job[s] = Idle
    BY <1>1 DEF Dispatch, Become, Slots
  <2>2. (\A v \in Writers \ {s} : job'[v] = job[v]) /\ job'[s].pc = "post" /\ job'[s].tries = 0
    BY <1>0, <1>00, <2>1 DEF Job
  <2> QED BY <1>1, <2>2 DEF Dispatch, Phantom
<1>2. ASSUME NEW s \in Senders, Send(s) PROVE Phantom'
  <2>1. /\ \A v \in Writers \ {s} : job'[v] = job[v]
        /\ job'[s].tries = job[s].tries + 1
        /\ job'[s].pc \in {"post", "record"} /\ (job'[s].pc = "post" => job'[s].tries <= MaxRetries)
    BY <1>2, SendTypes
  <2>2. tx # "committed" /\ posts' \in Nat /\ posts' <= posts + 1 /\ UNCHANGED <<row, tx>> /\ job[s].pc = "post"
    BY <1>0, <1>2 DEF Send, Post
  <2>3. posts <= job[s].tries /\ job[s].tries <= MaxRetries /\ job[s].tries \in Nat /\ posts <= MaxRetries + 1
    BY <1>00, <2>2 DEF Phantom, Slots, Job
  <2>4. posts' <= job'[s].tries /\ posts' <= MaxRetries + 1
    BY <1>0, <2>1, <2>2, <2>3
  <2>5. tx # "none" /\ \A v \in Senders : job[v].pc # "idle" => v = s
    BY <2>2 DEF Phantom
  <2> QED BY <2>1, <2>2, <2>4, <2>5 DEF Phantom
<1>3. ASSUME NEW s \in Senders, Record(s) PROVE Phantom'
  <2>1. row.status = "absent" /\ Leave(s) /\ UNCHANGED <<row, tx, posts>>
    BY <1>0, <1>3 DEF Record, Phantom
  <2>2. job'[s] = Idle /\ \A v \in Writers \ {s} : job'[v] = job[v]
    BY <2>1, LeaveTypes
  <2> QED BY <1>0, <2>1, <2>2 DEF Phantom
<1>4. ASSUME NEW s \in Senders, RetryFlush(s) PROVE Phantom'
  BY <1>4 DEF RetryFlush, Phantom
<1>5. ASSUME NEW w \in Senders \cup {Pass}, Write(w) PROVE Phantom'
  BY <1>5 DEF Write, Phantom
<1>6. CASE CommitDispatch
  BY <1>6 DEF CommitDispatch
<1>7. CASE RollbackDispatch
  BY <1>7 DEF RollbackDispatch, Phantom
<1>8. CASE PassSelect
  BY <1>0, <1>8 DEF PassSelect, Phantom, Selected
<1>9. CASE PassEndpoint
  BY <1>9 DEF PassEndpoint, Phantom
<1>10. CASE PassPost
  BY <1>10 DEF PassPost, Phantom
<1>11. CASE PassAbort
  BY <1>0, <1>11, LeaveTypes DEF PassAbort, Phantom
<1>12. CASE RetryRead
  BY <1>0, <1>12 DEF RetryRead, Phantom
<1>13. CASE RetryCommit
  BY <1>13 DEF RetryCommit, Phantom
<1>14. CASE RetryAbort
  BY <1>14 DEF RetryAbort, Phantom
<1>15. CASE SetEndpoint
  BY <1>15 DEF SetEndpoint, Phantom
<1>16. CASE DeleteEndpoint
  BY <1>16 DEF DeleteEndpoint, Phantom
<1>17. CASE ReachDue
  BY <1>0, <1>17 DEF ReachDue, Phantom
<1>18. CASE Restart
  BY <1>0, <1>18 DEF Restart, Phantom
<1>19. CASE UNCHANGED vars
  BY <1>19 DEF vars, Phantom
<1>20. CASE PassMiss
  <2>1. (\A v \in Writers \ {Pass} : job'[v] = job[v]) /\ job'[Pass].pc = "others"
    BY <1>00, <1>20 DEF PassMiss, Become, Job
  <2> QED BY <1>20, <2>1 DEF PassMiss, Phantom
<1>21. CASE PassEndOthers
  BY <1>0, <1>21, LeaveTypes DEF PassEndOthers, Phantom
<1> QED
  BY <1>1, <1>2, <1>3, <1>4, <1>5, <1>6, <1>7, <1>8, <1>9, <1>10, <1>11, <1>12, <1>13, <1>14,
     <1>15, <1>16, <1>17, <1>18, <1>19, <1>20, <1>21 DEF Next

(* A success is held, and written, only after the endpoint has accepted. *)
LEMMA HonestPreserved == TypeOK /\ Slots /\ Honest /\ [Next]_vars => Honest'
<1> SUFFICES ASSUME TypeOK, Slots, Honest, [Next]_vars PROVE Honest'
  OBVIOUS
<1> USE DEF Writers
<1>0. Idle.new.status # "success" /\ NewRow.status # "success" /\ NoRow.status # "success"
  BY DEF Idle, NewRow, NoRow
<1>00. row \in Row /\ job \in [Writers -> Job]
  BY DEF TypeOK
<1>1. ASSUME NEW s \in Senders, Dispatch(s) PROVE Honest'
  BY <1>00, <1>1 DEF Dispatch, Become, Honest, NoFalseSuccess, Job
<1>2. ASSUME NEW s \in Senders, Send(s) PROVE Honest'
  <2>1. (\A v \in Writers \ {s} : job'[v] = job[v]) /\ (job'[s].new.status = "success" => reached' = "accepted" \/ job[s].new.status = "success")
    BY <1>2, SendTypes
  <2>2. row' = row /\ (reached = "accepted" => reached' = "accepted")
    BY <1>2 DEF Send, Post
  <2> QED BY <2>1, <2>2 DEF Honest, NoFalseSuccess
<1>3. ASSUME NEW s \in Senders, Record(s) PROVE Honest'
  <2>1. CASE row.status = "absent"
    BY <1>0, <1>3, <2>1, LeaveTypes DEF Record, Honest, NoFalseSuccess
  <2>2. CASE row.status # "absent"
    <3>1. job' = [job EXCEPT ![s].pc = "write", ![s].snap = row, ![s].new = Outcome(s)]
      BY <1>3, <2>2 DEF Record
    <3>2. Outcome(s).status = job[s].new.status
      BY DEF Outcome
    <3>3. job'[s].new = Outcome(s) /\ \A v \in Writers \ {s} : job'[v] = job[v]
      BY <1>00, <3>1 DEF Job
    <3> QED BY <1>3, <3>2, <3>3 DEF Record, Honest, NoFalseSuccess
  <2> QED BY <2>1, <2>2
<1>4. ASSUME NEW s \in Senders, RetryFlush(s) PROVE Honest'
  <2>1. \A v \in Writers : job'[v].new = job[v].new
    BY <1>00, <1>4 DEF RetryFlush, Job
  <2> QED BY <1>4, <2>1 DEF RetryFlush, Honest, NoFalseSuccess
<1>5. ASSUME NEW w \in Senders \cup {Pass}, Write(w) PROVE Honest'
  BY <1>0, <1>5, LeaveTypes, WrittenColumns DEF Write, Honest, NoFalseSuccess
<1>6. CASE CommitDispatch
  BY <1>0, <1>6 DEF CommitDispatch, Honest, NoFalseSuccess
<1>7. CASE RollbackDispatch
  BY <1>7 DEF RollbackDispatch, Honest, NoFalseSuccess
<1>8. CASE PassSelect
  BY <1>00, <1>8 DEF PassSelect, Begun, Honest, NoFalseSuccess
<1>9. CASE PassEndpoint
  <2>1. \A v \in Writers : job'[v].new.status = "success" => job[v].new.status = "success"
    BY <1>00, <1>9 DEF PassEndpoint, Job, Row
  <2> QED BY <1>9, <2>1 DEF PassEndpoint, Honest, NoFalseSuccess
<1>10. CASE PassPost
  <2>1. PICK ok \in BOOLEAN :
          /\ Post(ok)
          /\ job' = [job EXCEPT ![Pass].pc = "write", ![Pass].new = Attempt(job[Pass].snap, ok)]
    BY <1>10 DEF PassPost
  <2>2. (\A v \in Writers \ {Pass} : job'[v] = job[v]) /\ job'[Pass].new = Attempt(job[Pass].snap, ok)
    BY <1>00, <2>1 DEF Job
  <2>3. job[Pass].snap \in Row
    BY <1>00 DEF Job
  <2>4. Attempt(job[Pass].snap, ok).status = "success" => ok
    BY <2>3, AttemptColumns
  <2>5. row' = row /\ (reached = "accepted" => reached' = "accepted") /\ (ok => reached' = "accepted")
    BY <1>10, <2>1 DEF PassPost, Post
  <2> QED BY <2>2, <2>4, <2>5 DEF Honest, NoFalseSuccess
<1>11. CASE PassAbort
  BY <1>0, <1>11, LeaveTypes DEF PassAbort, Honest, NoFalseSuccess
<1>12. CASE RetryRead
  BY <1>0, <1>00, <1>12 DEF RetryRead, Begun, Honest, NoFalseSuccess
<1>13. CASE RetryCommit
  BY <1>0, <1>13, LeaveTypes, WrittenColumns DEF RetryCommit, Honest, NoFalseSuccess
<1>14. CASE RetryAbort
  BY <1>0, <1>14, LeaveTypes DEF RetryAbort, Honest, NoFalseSuccess
<1>15. CASE SetEndpoint
  BY <1>15 DEF SetEndpoint, Honest, NoFalseSuccess
<1>16. CASE DeleteEndpoint
  BY <1>0, <1>16 DEF DeleteEndpoint, Honest, NoFalseSuccess
<1>17. CASE ReachDue
  BY <1>00, <1>17 DEF ReachDue, Honest, NoFalseSuccess, Row
<1>18. CASE Restart
  BY <1>0, <1>18 DEF Restart, Honest, NoFalseSuccess
<1>19. CASE UNCHANGED vars
  BY <1>19 DEF vars, Honest, NoFalseSuccess
<1>20. CASE PassMiss
  <2>1. \A v \in Writers : job'[v].new = job[v].new
    BY <1>00, <1>20 DEF PassMiss, Become, Job
  <2> QED BY <1>20, <2>1 DEF PassMiss, Honest, NoFalseSuccess
<1>21. CASE PassEndOthers
  BY <1>0, <1>21, LeaveTypes DEF PassEndOthers, Honest, NoFalseSuccess
<1> QED
  BY <1>1, <1>2, <1>3, <1>4, <1>5, <1>6, <1>7, <1>8, <1>9, <1>10, <1>11, <1>12, <1>13, <1>14,
     <1>15, <1>16, <1>17, <1>18, <1>19, <1>20, <1>21 DEF Next

(* One writer's columns over a row that is scheduled leave it scheduled,   *)
(* and leave true what the other writers have read.                        *)
LEMMA WriteKeepsScheduled ==
  ASSUME TypeOK, NEW w \in Senders \cup {Pass},
         row.status # "absent", Untried(row), StillTrue(w), Sound(w)
  PROVE  /\ Written(w).status \notin {"absent", "pending"} /\ Untried(Written(w))
         /\ row.due # "none" => Written(w).due # "none"
<1> DEFINE r == Written(w)
<1>1. /\ r.status = IF job[w].new.status # job[w].snap.status THEN job[w].new.status ELSE row.status
      /\ r.due = IF job[w].new.due # job[w].snap.due \/ job[w].new.due = "later" THEN job[w].new.due ELSE row.due
  BY WrittenColumns DEF Writers
<1> HIDE DEF r
<1>2. r.status \notin {"absent", "pending"}
  BY <1>1 DEF Sound, StillTrue
<1>3. row.due # "none" => r.due # "none"
  BY <1>1 DEF Sound
<1>4. r.due = "none" => r.status = "success"
  <2> SUFFICES ASSUME r.due = "none" PROVE r.status = "success"
    OBVIOUS
  <2>1. row.due = "none" /\ job[w].new.due = job[w].snap.due
    BY <1>1, <1>3 DEF Sound
  <2>2. job[w].new.status = "success"
    BY <2>1 DEF Sound, StillTrue
  <2> QED BY <1>1, <1>2, <2>1, <2>2 DEF Untried
<1> QED BY <1>2, <1>3, <1>4 DEF Untried, r

(* As long as nobody has meddled, the columns of several writers mix into  *)
(* a row whose failure has a time for the next attempt.                    *)
LEMMA ScheduledPreserved == TypeOK /\ Slots /\ Phantom /\ Scheduled /\ [Next]_vars => Scheduled'
<1> SUFFICES ASSUME TypeOK, Slots, Phantom, Scheduled, [Next]_vars, ~meddled', MaxRetries >= 2 PROVE Scheduled'
  BY DEF Scheduled
<1> USE WritersAssumption DEF Writers
<1> DEFINE Rest ==
      /\ endpoint = "active"
      /\ row.status # "absent" => Untried(row)
      /\ \A w \in Senders \cup {Pass} : Reading(w) => StillTrue(w) /\ row.status # "absent"
      /\ \A w \in Senders \cup {Pass} : job[w].pc = "write" => Sound(w)
      /\ job[Pass].pc \in {"endpoint", "post"} =>
           /\ Untried(job[Pass].snap)
           /\ job[Pass].snap.status \in {"pending", "retrying", "failed"}
<1>0. /\ Idle.pc = "idle" /\ NewRow.status = "pending" /\ NewRow.attempts = 0 /\ NewRow.due = "none"
  BY DEF Idle, NewRow, NoRow
<1>00. row \in Row /\ job \in [Writers -> Job]
  BY DEF TypeOK
<1>R. ~meddled => Rest
  BY DEF Scheduled
<1>S. SUFFICES Rest'
  BY DEF Scheduled
<1>1. ASSUME NEW s \in Senders, Dispatch(s) PROVE Rest'
  <2>1. job[s].pc = "idle" /\ job'[s].pc = "post" /\ \A v \in Writers \ {s} : job'[v] = job[v]
    BY <1>00, <1>1 DEF Dispatch, Become, Job
  <2> QED BY <1>R, <1>1, <2>1 DEF Dispatch, Reading, StillTrue, Sound
<1>2. ASSUME NEW s \in Senders, Send(s) PROVE Rest'
  <2>1. (\A v \in Writers \ {s} : job'[v] = job[v]) /\ job'[s].pc \in {"post", "record"}
    BY <1>2, SendTypes
  <2> QED BY <1>R, <1>2, <2>1 DEF Send, Reading, StillTrue, Sound
<1>3. ASSUME NEW s \in Senders, Record(s) PROVE Rest'
  <2>0. UNCHANGED <<row, endpoint, meddled>> /\ job[s].pc = "record"
    BY <1>3 DEF Record
  <2>1. CASE row.status = "absent"
    <3>1. job'[s].pc = "idle" /\ \A v \in Writers \ {s} : job'[v] = job[v]
      BY <1>0, <1>3, <2>1, LeaveTypes DEF Record
    <3> QED BY <1>R, <2>0, <3>1 DEF Reading, StillTrue, Sound
  <2>2. CASE row.status # "absent"
    <3>1. job' = [job EXCEPT ![s].pc = "write", ![s].snap = row, ![s].new = Outcome(s)]
      BY <1>3, <2>2 DEF Record
    <3>2. job'[s].snap = row /\ job'[s].new = Outcome(s) /\ \A v \in Writers \ {s} : job'[v] = job[v]
      BY <1>00, <3>1 DEF Job
    <3>3. /\ Outcome(s).status = job[s].new.status
          /\ Outcome(s).due = IF job[s].new.status = "failed" THEN "later" ELSE row.due
      BY DEF Outcome
    <3>4. job[s].new.status \in {"success", "failed"}
      BY <2>0 DEF Slots
    <3>5. StillTrue(s)' /\ Sound(s)'
      BY <2>0, <3>2, <3>3, <3>4 DEF StillTrue, Sound
    <3> QED BY <1>R, <2>0, <2>2, <3>2, <3>5 DEF Reading, StillTrue, Sound
  <2> QED BY <2>1, <2>2
<1>4. ASSUME NEW s \in Senders, RetryFlush(s) PROVE Rest'
  <2>1. job'[s].pc = "post" /\ \A v \in Writers \ {s, Admin} : job'[v] = job[v]
    BY <1>00, <1>4 DEF RetryFlush, Job
  <2>2. UNCHANGED <<row, endpoint, meddled>> /\ ~Reading(s)'
    BY <1>4, <2>1 DEF RetryFlush, Reading
  <2>3. \A v \in Senders \cup {Pass} : v # s => job'[v] = job[v]
    BY <2>1
  <2> QED BY <1>R, <2>1, <2>2, <2>3 DEF Reading, StillTrue, Sound
<1>5. ASSUME NEW w \in Senders \cup {Pass}, Write(w) PROVE Rest'
  <2>0. UNCHANGED <<endpoint, meddled>> /\ job[w].pc = "write"
    BY <1>5 DEF Write
  <2>1. job'[w].pc = "idle" /\ \A v \in Writers \ {w} : job'[v] = job[v]
    BY <1>0, <1>5, LeaveTypes DEF Write
  <2>2. row.status # "absent" /\ StillTrue(w) /\ Sound(w) /\ Untried(row)
    BY <1>R, <2>0 DEF Reading
  <2>3. row' = Written(w)
    BY <1>5, <2>2 DEF Write
  <2>4. row'.status \notin {"absent", "pending"} /\ Untried(row') /\ (row.due # "none" => row'.due # "none")
    BY <2>2, <2>3, WriteKeepsScheduled
  <2>5. \A v \in Senders \cup {Pass} : v # w /\ Reading(v) => StillTrue(v)'
    BY <1>R, <2>0, <2>1, <2>4 DEF StillTrue
  <2> QED BY <1>R, <2>0, <2>1, <2>4, <2>5 DEF Reading, Untried, Sound
<1>6. CASE CommitDispatch
  <2>1. \A v \in Senders \cup {Pass} : ~Reading(v)
    BY <1>6 DEF CommitDispatch, Phantom, Reading
  <2> QED BY <1>0, <1>R, <1>6, <2>1 DEF CommitDispatch, Reading, Untried, Phantom
<1>7. CASE RollbackDispatch
  BY <1>R, <1>7 DEF RollbackDispatch, Reading, StillTrue, Sound
<1>8. CASE PassSelect
  <2>1. job'[Pass].pc = "endpoint" /\ job'[Pass].snap = row /\ \A v \in Writers \ {Pass} : job'[v] = job[v]
    BY <1>00, <1>8 DEF PassSelect, Begun
  <2>2. row.status \in {"pending", "retrying", "failed"}
    BY <1>8 DEF PassSelect, Selected
  <2> QED BY <1>R, <1>8, <2>1, <2>2 DEF PassSelect, Reading, StillTrue, Sound, Untried
<1>9. CASE PassEndpoint
  <2>1. endpoint = "active" /\ job' = [job EXCEPT ![Pass].pc = "post"]
    BY <1>R, <1>9 DEF PassEndpoint
  <2>2. job'[Pass].pc = "post" /\ job'[Pass].snap = job[Pass].snap /\ \A v \in Writers \ {Pass} : job'[v] = job[v]
    BY <1>00, <2>1 DEF Job
  <2> QED BY <1>R, <1>9, <2>2 DEF PassEndpoint, Reading, StillTrue, Sound, Untried
<1>10. CASE PassPost
  <2>1. PICK ok \in BOOLEAN : job' = [job EXCEPT ![Pass].pc = "write", ![Pass].new = Attempt(job[Pass].snap, ok)]
    BY <1>10 DEF PassPost
  <2> DEFINE read == job[Pass].snap
             new == Attempt(read, ok)
  <2>2. /\ job'[Pass].pc = "write" /\ job'[Pass].new = new /\ job'[Pass].snap = read
        /\ \A v \in Writers \ {Pass} : job'[v] = job[v]
    BY <1>00, <2>1 DEF Job
  <2>3. read \in Row /\ UNCHANGED <<row, endpoint, meddled>> /\ job[Pass].pc = "post"
    BY <1>00, <1>10 DEF PassPost, Job
  <2> HIDE DEF new
  <2>4. /\ new.status \in {"success", "failed", "retrying"}
        /\ new.due # read.due => new.due = "later"
        /\ new.status = "retrying" => new.due = "later"
        /\ new.status = "failed" => read.attempts + 1 >= MaxRetries
    BY <2>3, AttemptColumns DEF new
  <2>5. Untried(read) /\ read.status \in {"pending", "retrying", "failed"} /\ read.attempts \in Nat
    BY <1>R, <2>3 DEF Row
  <2>6. read.due = "none" => read.attempts = 0
    BY <2>5 DEF Untried
  <2> HIDE DEF read
  <2>7. new.status = "failed" => read.due # "none" /\ new.due # "none"
    BY <2>4, <2>5, <2>6, RetriesAssumption
  <2> USE DEF read
  <2>8. Sound(Pass)'
    BY <2>2, <2>4, <2>7 DEF Sound
  <2> QED BY <1>R, <2>2, <2>3, <2>8 DEF Reading, StillTrue, Sound
<1>11. CASE PassAbort
  <2>1. job'[Pass].pc = "idle" /\ \A v \in Writers \ {Pass} : job'[v] = job[v]
    BY <1>0, <1>11, LeaveTypes DEF PassAbort
  <2> QED BY <1>R, <1>11, <2>1 DEF PassAbort, Reading, StillTrue, Sound
<1>12. CASE RetryRead
  <2>1. \A v \in Writers \ {Admin} : job'[v] = job[v]
    BY <1>00, <1>12 DEF RetryRead
  <2> QED BY <1>R, <1>12, <2>1 DEF RetryRead, Reading, StillTrue, Sound
<1>13. CASE RetryCommit
  BY <1>13 DEF RetryCommit
<1>14. CASE RetryAbort
  <2>1. \A v \in Writers \ {Admin} : job'[v] = job[v]
    BY <1>14, LeaveTypes DEF RetryAbort
  <2> QED BY <1>R, <1>14, <2>1 DEF RetryAbort, Reading, StillTrue, Sound
<1>15. CASE SetEndpoint
  BY <1>15 DEF SetEndpoint
<1>16. CASE DeleteEndpoint
  BY <1>16 DEF DeleteEndpoint
<1>17. CASE ReachDue
  <2>1. row'.due = "now" /\ row'.status = row.status /\ row.due = "later"
    BY <1>00, <1>17 DEF ReachDue, Row
  <2> QED BY <1>R, <1>17, <2>1 DEF ReachDue, Reading, StillTrue, Sound, Untried
<1>18. CASE Restart
  BY <1>0, <1>R, <1>18 DEF Restart, Reading, StillTrue, Sound
<1>19. CASE UNCHANGED vars
  BY <1>R, <1>19 DEF vars, Reading, StillTrue, Sound
<1>20. CASE PassMiss
  <2>1. job'[Pass].pc = "others" /\ \A v \in Writers \ {Pass} : job'[v] = job[v]
    BY <1>00, <1>20 DEF PassMiss, Become, Job
  <2> QED BY <1>R, <1>20, <2>1 DEF PassMiss, Reading, StillTrue, Sound
<1>21. CASE PassEndOthers
  <2>1. job'[Pass].pc = "idle" /\ \A v \in Writers \ {Pass} : job'[v] = job[v]
    BY <1>0, <1>21, LeaveTypes DEF PassEndOthers
  <2> QED BY <1>R, <1>21, <2>1 DEF PassEndOthers, Reading, StillTrue, Sound
<1> QED
  BY <1>1, <1>2, <1>3, <1>4, <1>5, <1>6, <1>7, <1>8, <1>9, <1>10, <1>11, <1>12, <1>13, <1>14,
     <1>15, <1>16, <1>17, <1>18, <1>19, <1>20, <1>21 DEF Next

-----------------------------------------------------------------------------
(* The inductive invariant holds in every reachable state. *)
LEMMA InvInvariant == Spec => []Inv
<1>1. Init => Inv
  <2> SUFFICES ASSUME Init PROVE Inv
    OBVIOUS
  <2> USE RetriesAssumption DEF Init
  <2>1. NoRow \in Row /\ Idle \in Job /\ NoRow.status = "absent" /\ NoRow.due = "none" /\ Idle.pc = "idle" /\ Idle.new = NoRow
    BY DEF NoRow, Row, Idle, Job, Statuses, Due
  <2>2. reached \in {"never", "posted", "accepted"} /\ meddled \in BOOLEAN
    OBVIOUS
  <2>3. TypeOK
    BY <2>1, <2>2 DEF TypeOK
  <2>4. Slots /\ Phantom /\ Honest
    BY <2>1 DEF Slots, Phantom, Honest, NoFalseSuccess, Writers
  <2>5. Scheduled
    BY <2>1 DEF Scheduled, Reading, Writers
  <2> QED BY <2>3, <2>4, <2>5 DEF Inv
<1>2. Inv /\ [Next]_vars => Inv'
  BY TypesPreserved, PhantomPreserved, HonestPreserved, ScheduledPreserved DEF Inv
<1> QED BY <1>1, <1>2, PTL DEF Spec

(* The row, the endpoint, the transaction and the writers keep their       *)
(* types; a sender never makes more than max_retries + 1 attempts.         *)
THEOREM TypesAlwaysHold == Spec => []TypeOK
<1>1. Inv => TypeOK
  BY DEF Inv
<1> QED BY <1>1, InvInvariant, PTL

(* A delivery reads "success" only when the endpoint has accepted it,      *)
(* whichever writers' columns end up in the row.                           *)
THEOREM SuccessIsNeverFalse == Spec => []NoFalseSuccess
<1>1. Inv => NoFalseSuccess
  BY DEF Inv, Honest
<1> QED BY <1>1, InvInvariant, PTL

(* The event of a transaction that was rolled back is sent at most         *)
(* max_retries + 1 times, by the task dispatch had started.                *)
THEOREM PhantomStaysBounded == Spec => []PhantomIsBounded
<1>1. Inv => PhantomIsBounded
  BY DEF Inv, Phantom, PhantomIsBounded
<1> QED BY <1>1, InvInvariant, PTL

(* With two retries or more, an active endpoint and no manual retry, a     *)
(* failed delivery always has a time for its next attempt.                 *)
THEOREM FailuresStayScheduled == Spec => []FailedIsScheduled
<1>1. Inv => FailedIsScheduled
  BY DEF Inv, Scheduled, Untried, FailedIsScheduled
<1> QED BY <1>1, InvInvariant, PTL
==============================================================================
