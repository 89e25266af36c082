-------------------------------- MODULE Trials --------------------------------
(***************************************************************************)
(* TrialEngine (trials/engine.py): one trial, its extensions, the referral *)
(* it made, its conversion and the sweep for abandoned trials.  A tick is  *)
(* a day; usage and features explored are counted up to the thresholds     *)
(* the engine compares them with.  EXPIRED and CONVERTING are statuses the *)
(* engine never sets.                                                      *)
(***************************************************************************)
EXTENDS Clock

CONSTANTS
  TrialDays, MaxExtensionDays, ReferralDays,  \* 14, 7 and 3 days
  MaxExtensions,   \* max_extensions of a trial
  AutoWindow,      \* days_remaining under which engagement extends: 3
  InactiveDays,    \* inactive_days of the sweep
  EngagedUsage,    \* usage that counts as engaged: 10
  EngagedFeatures  \* features explored that count as engaged: 3

ASSUME TrialAssumption ==
  /\ TrialDays \in Nat /\ MaxExtensionDays \in Nat /\ ReferralDays \in Nat
  /\ MaxExtensions \in Nat /\ AutoWindow \in Nat /\ InactiveDays \in Nat
  /\ EngagedUsage \in Nat /\ EngagedFeatures \in Nat

VARIABLES
  trial,      \* [status, ends, extended, uses, usage, features]
  referral,   \* "none", "pending", "converted"
  offers,     \* valid_until of the incentives created
  rewards,    \* history: referrals that moved the trial's end
  via         \* history: the last operation that changed the status

trialVars == <<trial, referral, offers, rewards, via>>

Open == {"active", "extended"}

TrialTypeOK ==
  /\ trial \in [status : Open \cup {"converted", "abandoned"}, ends : Nat,
                extended : Nat, uses : 0 .. MaxExtensions, usage : 0 .. EngagedUsage,
                features : 0 .. EngagedFeatures]
  /\ referral \in {"none", "pending", "converted"}
  /\ offers \subseteq Nat
  /\ rewards \in 0 .. MaxExtensions
  /\ via \in {"none", "extend", "convert", "sweep"}

(* create_trial *)
TrialInit ==
  /\ trial = [status |-> "active", ends |-> TrialDays, extended |-> 0, uses |-> 0,
               usage |-> 0, features |-> 0]
  /\ referral = "none" /\ offers = {} /\ rewards = 0 /\ via = "none"

RecordTrialUsage ==
  /\ \E n \in {1, EngagedUsage} :
       trial' = [trial EXCEPT !.usage = IF @ + n < EngagedUsage THEN @ + n ELSE EngagedUsage]
  /\ UNCHANGED <<now, referral, offers, rewards, via>>

RecordFeatureExplored ==
  /\ trial' = [trial EXCEPT !.features = IF @ < EngagedFeatures THEN @ + 1 ELSE @]
  /\ UNCHANGED <<now, referral, offers, rewards, via>>

Extended(t, days) ==
  [t EXCEPT !.status = "extended", !.ends = @ + days, !.extended = @ + days, !.uses = @ + 1]

(* extend_trial looks at no status: a converted or abandoned trial is open *)
(* again.                                                                  *)
ExtendTrial ==
  /\ trial.uses < MaxExtensions
  /\ \E days \in 1 .. MaxExtensionDays : trial' = Extended(trial, days)
  /\ via' = "extend"
  /\ UNCHANGED <<now, referral, offers, rewards>>

(* auto_extend_if_engaged, asked for a converted trial as for any other.   *)
AutoExtend ==
  /\ trial.uses < MaxExtensions
  /\ trial.ends - now <= AutoWindow
  /\ trial.usage >= EngagedUsage \/ trial.features >= EngagedFeatures
  /\ trial' = Extended(trial, MaxExtensionDays)
  /\ via' = "extend"
  /\ UNCHANGED <<now, referral, offers, rewards>>

(* create_early_conversion_incentive: valid until the end the trial has    *)
(* now; an extension does not move it.                                     *)
CreateIncentive ==
  /\ offers' = offers \cup {trial.ends}
  /\ UNCHANGED <<now, trial, referral, rewards, via>>

ConvertTrial ==
  /\ trial' = [trial EXCEPT !.status = "converted"]
  /\ via' = "convert"
  /\ UNCHANGED <<now, referral, offers, rewards>>

(* detect_abandoned_trials looks at the usage alone: a trial whose         *)
(* features were explored is abandoned all the same.                       *)
DetectAbandoned ==
  /\ trial.status \in Open /\ trial.usage = 0 /\ now >= InactiveDays
  /\ trial' = [trial EXCEPT !.status = "abandoned"]
  /\ via' = "sweep"
  /\ UNCHANGED <<now, referral, offers, rewards>>

CreateReferral ==
  /\ referral = "none"
  /\ referral' = "pending"
  /\ UNCHANGED <<now, trial, offers, rewards, via>>

CompleteUncounted ==
  /\ referral # "none"
  /\ referral' = "converted"
  /\ trial' = [trial EXCEPT !.ends = @ + ReferralDays]
  /\ trial.ends < MaxTime + 3 * ReferralDays
  /\ UNCHANGED <<now, offers, rewards, via>>

(* complete_referral may be called again for the same referral: each call  *)
(* that finds an extension left moves the end and takes one.               *)
CompleteReferral ==
  /\ referral # "none"
  /\ referral' = "converted"
  /\ IF trial.uses < MaxExtensions
     THEN /\ trial' = [trial EXCEPT !.ends = @ + ReferralDays, !.uses = @ + 1]
          /\ rewards' = rewards + 1
     ELSE UNCHANGED <<trial, rewards>>
  /\ UNCHANGED <<now, offers, via>>

TrialNext ==
  \/ Tick /\ UNCHANGED trialVars
  \/ RecordTrialUsage \/ RecordFeatureExplored
  \/ ExtendTrial \/ AutoExtend
  \/ CreateIncentive \/ ConvertTrial \/ DetectAbandoned
  \/ CreateReferral \/ CompleteReferral

TrialSpec == TrialInit /\ [][TrialNext]_<<now, trialVars>>

---------------------------------------------------------------------------
(* The end of a trial is explained: its first days, the days extensions    *)
(* record and three for each rewarded completion of a referral.  The       *)
(* completions and the extensions share one allowance, so no order of them *)
(* makes a trial longer than max_extensions full extensions would; and no  *)
(* incentive to convert early outlasts the trial.                          *)
TrialEndExplained ==
  /\ trial.ends = TrialDays + trial.extended + ReferralDays * rewards
  /\ rewards <= trial.uses /\ trial.uses <= MaxExtensions
  /\ \A end \in offers : end <= trial.ends
  /\ trial.ends <= TrialDays
       + MaxExtensions * (IF MaxExtensionDays > ReferralDays THEN MaxExtensionDays ELSE ReferralDays)
=============================================================================
