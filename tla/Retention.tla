------------------------------- MODULE Retention -------------------------------
(***************************************************************************)
(* ChurnPreventionEngine (churn/prevention.py) for one licence: pauses,    *)
(* one grace period and one win-back campaign (records of their own, that  *)
(* do not meet others), and the assessments of its risk.  Scores are in    *)
(* hundredths, a tick is a day.  Card reminders, which carry a flag, and   *)
(* decline alerts, which nothing reads, are left out.                      *)
(***************************************************************************)
EXTENDS Clock, FiniteSets, Sequences

CONSTANTS
  MaxPauseDays, GraceDays, CampaignDays,
  Signals,     \* the signals assessments are made from
  MaxRecords   \* bound on the records

(* Trend and adoption in hundredths, the rest as the caller counts them.   *)
Signal == [trend : -100 .. 100, idle : Nat, tickets : Nat, adoption : 0 .. 100, failures : Nat]

ASSUME RetentionAssumption ==
  /\ MaxPauseDays \in Nat /\ GraceDays \in Nat /\ CampaignDays \in Nat
  /\ Signals \subseteq Signal /\ MaxRecords \in Nat

Unassessed == [score |-> 0, risk |-> 0]

VARIABLES
  pauses,       \* _pauses
  grace,        \* GracePeriod: its end, and whether it was converted
  campaign,     \* WinBackCampaign
  assessed      \* the last assessment

retentionVars == <<pauses, grace, campaign, assessed>>

RetentionTypeOK ==
  /\ pauses \in Seq([status : {"active", "resumed"}, from : Time, until : Nat, resumed : Time])
  /\ grace \in [status : {"none", "running", "converted"}, ends : Nat]
  /\ campaign \in [status : {"none", "active", "converted"}, ends : Nat]
  /\ assessed \in {Unassessed} \cup [signals : Signals, score : 0 .. 100, risk : 0 .. 3]

RetentionInit ==
  /\ pauses = <<>> /\ assessed = Unassessed
  /\ grace = [status |-> "none", ends |-> 0]
  /\ campaign = [status |-> "none", ends |-> 0]

Records ==
  Len(pauses) + Cardinality({r \in {<<"g", grace.status>>, <<"c", campaign.status>>} : r[2] # "none"})
  + (IF assessed = Unassessed THEN 0 ELSE 1)

(* assess_churn_risk: what each signal adds to the score. *)
Weight(s) ==
  (IF s.trend < -30 THEN 30 ELSE IF s.trend < 0 THEN 10 ELSE 0)
  + (IF s.idle > 30 THEN 25 ELSE IF s.idle > 14 THEN 10 ELSE 0)
  + (IF s.tickets >= 3 THEN 20 ELSE 0)
  + (IF s.adoption < 20 THEN 15 ELSE 0)
  + 10 * s.failures

Score(s) == IF Weight(s) > 100 THEN 100 ELSE Weight(s)

(* low, medium, high and critical as 0 to 3 *)
Risk(score) == Cardinality({threshold \in {30, 50, 70} : score >= threshold})

Assess(s) ==
  /\ Records < MaxRecords
  /\ assessed' = [signals |-> s, score |-> Score(s), risk |-> Risk(Score(s))]
  /\ UNCHANGED <<now, pauses, grace, campaign>>

(* The days of a pause: a request of none, or of 0, takes the maximum.     *)
PausedFor(days) == IF days = 0 \/ days > MaxPauseDays THEN MaxPauseDays ELSE days

(* A licence may be paused again while it is paused. *)
Pause(days) ==
  /\ Records < MaxRecords
  /\ pauses' = Append(pauses, [status |-> "active", from |-> now, until |-> now + PausedFor(days), resumed |-> now])
  /\ UNCHANGED <<now, grace, campaign, assessed>>

(* resume_subscription, also of a pause resumed before, and never by       *)
(* itself: auto_resume and resume_date are only recorded.                  *)
Resume(i) ==
  /\ pauses' = [pauses EXCEPT ![i].status = "resumed", ![i].resumed = now]
  /\ UNCHANGED <<now, grace, campaign, assessed>>

CreateGrace(days) ==
  /\ grace.status = "none" /\ Records < MaxRecords
  /\ grace' = [status |-> "running", ends |-> now + (IF days = 0 THEN GraceDays ELSE days)]
  /\ UNCHANGED <<now, pauses, campaign, assessed>>

(* Both conversions are accepted after their offer has run out. *)
ConvertGrace ==
  /\ grace.status # "none"
  /\ grace' = [grace EXCEPT !.status = "converted"]
  /\ UNCHANGED <<now, pauses, campaign, assessed>>

CreateCampaign ==
  /\ campaign.status = "none" /\ Records < MaxRecords
  /\ campaign' = [status |-> "active", ends |-> now + CampaignDays]
  /\ UNCHANGED <<now, pauses, grace, assessed>>

ConvertCampaign ==
  /\ campaign.status # "none"
  /\ campaign' = [campaign EXCEPT !.status = "converted"]
  /\ UNCHANGED <<now, pauses, grace, assessed>>

(* GracePeriod.is_active *)
InGrace == grace.status = "running" /\ now <= grace.ends

RetentionNext ==
  \/ Tick /\ UNCHANGED retentionVars
  \/ \E s \in Signals : Assess(s)
  \/ \E d \in 0 .. MaxPauseDays + 1 : Pause(d) \/ CreateGrace(d)
  \/ \E i \in DOMAIN pauses : Resume(i)
  \/ ConvertGrace \/ CreateCampaign \/ ConvertCampaign

RetentionSpec == RetentionInit /\ [][RetentionNext]_<<now, retentionVars>>

---------------------------------------------------------------------------
(* Every signal at least as bad. *)
AsBad(s, t) ==
  /\ s.trend <= t.trend /\ s.adoption <= t.adoption
  /\ s.idle >= t.idle /\ s.tickets >= t.tickets /\ s.failures >= t.failures

(* Worse signals than those last assessed would not be given a lower score *)
(* or a lower risk, and no pause is promised beyond the maximum            *)
(* (churn/prevention.py:203-265, 348).                                     *)
RetentionSound ==
  /\ assessed # Unassessed =>
       \A s \in Signals : AsBad(s, assessed.signals) =>
         Score(s) >= assessed.score /\ Risk(Score(s)) >= assessed.risk
  /\ \A i \in DOMAIN pauses :
       pauses[i].from <= pauses[i].until /\ pauses[i].until <= pauses[i].from + MaxPauseDays
=============================================================================
