------------------------------- MODULE Recovery -------------------------------
(***************************************************************************)
(* ComplianceRecoveryEngine (compliance/recovery.py): a scan stores the    *)
(* violations of a licence, tasks recover the revenue they lost.  Nothing  *)
(* ties a scan to earlier ones: scanning again finds the same overuse as   *)
(* new violations.                                                         *)
(***************************************************************************)
EXTENDS Integers, Lists

CONSTANTS
  LicenceData,    \* what a scan is given: [used, limit, overdue (0: not), strange, over]
  MachineRate,    \* machine_overuse_rate_per_machine_usd
  ExpiredRate,    \* expired_usage_daily_rate_usd
  FeatureRate,    \* feature_unauthorized_rate_usd
  Recovered,      \* amounts a task may recover
  MaxViolations,  \* max_violations
  MaxTasks,       \* max_tasks
  MaxFound,       \* bound on the violations found
  MaxTasked       \* bound on the tasks generated

ASSUME RecoveryAssumption ==
  /\ LicenceData \subseteq [used : Nat, limit : Nat, overdue : Nat, strange : Nat, over : Nat]
  /\ {MachineRate, ExpiredRate, FeatureRate, MaxViolations, MaxTasks, MaxFound, MaxTasked} \subseteq Nat
  /\ Recovered \subseteq Nat

VARIABLES
  violations,  \* _violations, oldest first
  tasks,       \* _tasks, oldest first
  found,       \* violations ever found; ids are 1 .. found
  tasked,      \* tasks ever generated, likewise
  settled      \* history: tasks completed or waived at least once

recoveryVars == <<violations, tasks, found, tasked, settled>>

Types == {"machine_overuse", "expired_usage", "feature_unauthorized", "usage_limit_exceeded"}
Actions5 == {"notify", "upgrade_prompt", "throttle", "suspend"}  \* invoice is never selected
TaskStatuses == {"pending", "completed", "waived"}               \* in_progress is never set

RecoveryTypeOK ==
  /\ \A i \in DOMAIN violations :
       violations[i] \in [id : 1 .. found, type : Types, severity : {"medium", "high"}, loss : Nat]
  /\ \A i \in DOMAIN tasks :
       tasks[i] \in [id : 1 .. tasked, violation : 1 .. found, action : Actions5,
                     severity : {"medium", "high"}, status : TaskStatuses,
                     recoverable : Nat, recovered : Nat]
  /\ found \in 0 .. MaxFound /\ tasked \in 0 .. MaxTasked
  /\ settled \subseteq 1 .. tasked

RecoveryInit ==
  violations = <<>> /\ tasks = <<>> /\ found = 0 /\ tasked = 0 /\ settled = {}

Violation(type, severe, loss) ==
  [id |-> 0, type |-> type, severity |-> IF severe THEN "high" ELSE "medium", loss |-> loss]

(* What scan_license finds, in its order. *)
Found(d) ==
  LET excess == d.used - d.limit
  IN (IF d.limit > 0 /\ excess > 0
        THEN <<Violation("machine_overuse", excess > d.limit, excess * MachineRate)>> ELSE <<>>) \o
     (IF d.overdue > 0 THEN <<Violation("expired_usage", TRUE, d.overdue * ExpiredRate)>> ELSE <<>>) \o
     (IF d.strange > 0
        THEN <<Violation("feature_unauthorized", d.strange > 3, d.strange * FeatureRate)>> ELSE <<>>) \o
     [i \in 1 .. d.over |-> Violation("usage_limit_exceeded", FALSE, 0)]

Numbered(s, from) == [i \in DOMAIN s |-> [s[i] EXCEPT !.id = from + i]]

(* _select_action *)
ActionOf(v) ==
  CASE v.type = "machine_overuse"      -> IF v.severity = "high" THEN "throttle" ELSE "upgrade_prompt"
    [] v.type = "expired_usage"        -> "suspend"
    [] v.type = "feature_unauthorized" -> IF v.severity = "high" THEN "throttle" ELSE "notify"
    [] v.type = "usage_limit_exceeded" -> "upgrade_prompt"

Settled(t) == t.status \in {"completed", "waived"}

TasksWithinOldest(s) == LastOf(s, MaxTasks)

(* _enforce_task_limit: the oldest settled tasks go. *)
TasksWithin(s) ==
  LET closed == Kept(s, {s[i] : i \in {j \in DOMAIN s : Settled(s[j])}})
      excess == Len(s) - MaxTasks
      out == {closed[i].id : i \in {j \in DOMAIN closed : j <= excess}}
  IN Kept(s, {s[i] : i \in {j \in DOMAIN s : s[j].id \notin out}})

(* scan_license stores and trims its violations; its caller passes what it *)
(* returned to generate_recovery_tasks, or does not.                       *)
ScanAndGenerate(d, generate) ==
  LET new == Numbered(Found(d), found)
      more == [i \in DOMAIN new |->
                 [id |-> tasked + i, violation |-> new[i].id, action |-> ActionOf(new[i]),
                  severity |-> new[i].severity, status |-> "pending",
                  recoverable |-> new[i].loss, recovered |-> 0]]
  IN /\ found + Len(new) <= MaxFound /\ found' = found + Len(new)
     /\ violations' = LastOf(violations \o new, MaxViolations)
     /\ IF generate
          THEN /\ tasked + Len(more) <= MaxTasked /\ tasked' = tasked + Len(more)
               /\ tasks' = TasksWithin(tasks \o more)
          ELSE UNCHANGED <<tasks, tasked>>
     /\ UNCHANGED settled

(* complete_task and waive_task look at no status: either may follow the   *)
(* other, and a waived task keeps what it recovered.                       *)
CompleteTask(i, amount) ==
  /\ tasks' = [tasks EXCEPT ![i].status = "completed", ![i].recovered = amount]
  /\ settled' = settled \cup {tasks[i].id}
  /\ UNCHANGED <<violations, found, tasked>>

WaiveTask(i) ==
  /\ tasks' = [tasks EXCEPT ![i].status = "waived"]
  /\ settled' = settled \cup {tasks[i].id}
  /\ UNCHANGED <<violations, found, tasked>>

RecoveryNext ==
  \/ \E d \in LicenceData, g \in BOOLEAN : ScanAndGenerate(d, g)
  \/ \E i \in DOMAIN tasks : WaiveTask(i) \/ \E a \in Recovered : CompleteTask(i, a)

---------------------------------------------------------------------------
(* Work to recover revenue is never dropped: a task disappears only after  *)
(* it was completed or waived, although its violation may be long gone;    *)
(* the violations kept are the newest; and no licence is throttled or      *)
(* suspended for a violation of medium severity.                           *)
RecoverySound ==
  /\ \A t \in 1 .. tasked : t \in settled \/ \E i \in DOMAIN tasks : tasks[i].id = t /\ tasks[i].status = "pending"
  /\ Len(violations) <= MaxViolations
  /\ {violations[i].id : i \in DOMAIN violations} = (found - Len(violations) + 1) .. found
  /\ \A i \in DOMAIN tasks : tasks[i].action \in {"throttle", "suspend"} => tasks[i].severity = "high"
=============================================================================
