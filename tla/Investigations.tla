---------------------------- MODULE Investigations ----------------------------
(***************************************************************************)
(* InvestigationEngine (compliance/investigation.py): evidence adds to a   *)
(* case's score, the score recommends an action and escalates, closed      *)
(* cases are evicted when too many are kept.  Scores are in halves.        *)
(***************************************************************************)
EXTENDS Integers, FiniteSets

CONSTANTS
  MaxKept,   \* max_investigations
  MaxCases,  \* bound on the cases opened
  MaxScore   \* bound on a case's score, in halves

ASSUME CaseAssumption == MaxKept \in Nat /\ MaxCases \in Nat /\ MaxScore \in Nat

Cases == 1 .. MaxCases
Closed == {"resolved", "dismissed"}

AnomalyWeight == [low |-> 1, medium |-> 2, high |-> 4, critical |-> 6]
FraudWeight == [low |-> 2, medium |-> 4, high |-> 6, critical |-> 10]
Weights == {AnomalyWeight[s] : s \in DOMAIN AnomalyWeight} \cup {FraudWeight[s] : s \in DOMAIN FraudWeight}

VARIABLES
  cases,        \* _investigations, by id; ids in the order of creation; no action yet: "none"
  opened,       \* _total_created
  closings,     \* _total_resolved
  evicted       \* history: the status evicted cases had

caseVars == <<cases, opened, closings, evicted>>

CaseRecord == [status : {"open", "investigating", "escalated"} \cup Closed, score : 0 .. MaxScore + 10,
               action : {"none", "monitor", "restrict", "suspend", "revoke"}, manual : BOOLEAN]

CasesTypeOK ==
  /\ DOMAIN cases \subseteq 1 .. opened /\ \A c \in DOMAIN cases : cases[c] \in CaseRecord
  /\ opened \in 0 .. MaxCases /\ closings \in 0 .. MaxCases + 2
  /\ DOMAIN evicted \subseteq 1 .. opened

CasesInit == cases = <<>> /\ opened = 0 /\ closings = 0 /\ evicted = <<>>

Only(f, S) == [c \in S |-> f[c]]

(* _enforce_limit: the oldest closed cases go, as many as there are too    *)
(* many; open ones never do.                                               *)
Evictable(f) ==
  LET closed == {c \in DOMAIN f : f[c].status \in Closed}
      excess == Cardinality(DOMAIN f) - MaxKept
  IN {c \in closed : Cardinality({d \in closed : d < c}) < excess}

OpenCase ==
  /\ opened < MaxCases /\ opened' = opened + 1
  /\ LET new == [c \in DOMAIN cases \cup {opened + 1} |->
                   IF c = opened + 1
                     THEN [status |-> "open", score |-> 0, action |-> "none", manual |-> FALSE]
                     ELSE cases[c]]
         out == Evictable(new)
     IN /\ cases' = Only(new, DOMAIN new \ out)
        /\ evicted' = [c \in DOMAIN evicted \cup out |->
                         IF c \in out THEN new[c].status ELSE evicted[c]]
  /\ UNCHANGED closings

(* _recalculate: the action, and the status evidence leaves behind. *)
ActionFor(score) ==
  IF score >= 18 THEN "revoke" ELSE IF score >= 12 THEN "suspend"
  ELSE IF score >= 6 THEN "restrict" ELSE "monitor"

StatusAfter(score) == IF score >= 18 THEN "escalated" ELSE "investigating"

(* add_evidence, also under add_anomaly_evidence and add_fraud_evidence: a *)
(* closed case takes none; a case escalated by hand is investigated again. *)
EvidenceIn(c, weight) ==
  LET score == cases[c].score + weight
  IN cases' = [cases EXCEPT ![c] = [status |-> StatusAfter(score), score |-> score,
                                    action |-> ActionFor(score), manual |-> FALSE]]

AddEvidenceToClosed(c, weight) ==
  /\ cases[c].score < MaxScore /\ EvidenceIn(c, weight)
  /\ UNCHANGED <<opened, closings, evicted>>

AddEvidence(c, weight) ==
  /\ cases[c].status \notin Closed /\ cases[c].score < MaxScore /\ EvidenceIn(c, weight)
  /\ UNCHANGED <<opened, closings, evicted>>

(* escalate looks at no status: a closed case is open again. *)
Escalate(c) ==
  /\ cases' = [cases EXCEPT ![c].status = "escalated", ![c].manual = TRUE]
  /\ UNCHANGED <<opened, closings, evicted>>

(* resolve and dismiss, repeatable: each call is counted. *)
Close(c, how) ==
  /\ closings < MaxCases + 2 /\ closings' = closings + 1
  /\ cases' = [cases EXCEPT ![c].status = how]
  /\ UNCHANGED <<opened, evicted>>

CasesNext ==
  \/ OpenCase
  \/ \E c \in DOMAIN cases :
       (\E w \in Weights : AddEvidence(c, w)) \/ Escalate(c) \/ \E how \in Closed : Close(c, how)

---------------------------------------------------------------------------
(* No case disappears before it was closed, and no more cases are closed   *)
(* than were closed by a call; a case whose evidence recommends revocation *)
(* is escalated until it is closed by hand; and a case below that score is *)
(* escalated only by hand, which the next evidence undoes.                 *)
CasesSound ==
  /\ 1 .. opened = DOMAIN cases \cup DOMAIN evicted /\ DOMAIN cases \cap DOMAIN evicted = {}
  /\ \A c \in DOMAIN evicted : evicted[c] \in Closed
  /\ Cardinality({c \in DOMAIN cases : cases[c].status \in Closed}) + Cardinality(DOMAIN evicted) <= closings
  /\ \A c \in DOMAIN cases :
       /\ cases[c].score >= 18 => cases[c].status \in {"escalated"} \cup Closed /\ cases[c].action = "revoke"
       /\ cases[c].status = "escalated" => cases[c].manual \/ cases[c].score >= 18

(* A closed case is opened again only by an escalation, and its score      *)
(* never changes while it is closed; and a case opened beyond MaxKept      *)
(* leaves more than MaxKept only when none of them is closed.              *)
CaseStep ==
  /\ opened' > opened /\ Cardinality(DOMAIN cases') > MaxKept =>
       \A c \in DOMAIN cases' : cases'[c].status \notin Closed
  /\ \A c \in DOMAIN cases \cap DOMAIN cases' :
       cases[c].status \in Closed =>
         /\ cases'[c].score = cases[c].score
         /\ cases'[c].status \in Closed \/ (cases'[c].status = "escalated" /\ cases'[c].manual)
=============================================================================
