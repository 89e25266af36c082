---------------------------- MODULE UsageMetering ----------------------------
(***************************************************************************)
(* record_usage (usage/service.py) with the anomaly scan before it         *)
(* (anomaly/service.py, anomaly/detector.py): one transaction per request, *)
(* each statement of which sees what was committed by then.  Two requests  *)
(* for one licence and metric may overlap.                                 *)
(***************************************************************************)
EXTENDS Integers, Lists

CONSTANTS
  Writers,     \* requests in progress at once
  UsageValues, \* values recorded
  UsageLimit,  \* the metric's entitlement
  Window,      \* rows an observation is judged on (30)
  MaxRows      \* bound on the rows

(* A value that is not positive is refused by usage/schemas.py. *)
ASSUME UsageAssumption ==
  UsageValues \subseteq Nat \ {0} /\ UsageLimit \in Nat /\ Window \in Nat \ {0, 1, 2} /\ MaxRows \in Nat

Severities == {"none", "medium", "high", "critical"}
NoTx == [pc |-> "idle", value |-> 0, seen |-> 0, severity |-> "none", total |-> 0, stale |-> FALSE]

VARIABLES
  rows,      \* committed usage records with the verdict on each, oldest first
  txs,       \* the transaction of each writer; stale: another committed since its sum
  lastUsage  \* the last committed answer

meteringVars == <<rows, txs, lastUsage>>

UsageTypeOK ==
  /\ \A i \in DOMAIN rows :
       rows[i] \in [value : UsageValues, seen : 0 .. MaxRows, severity : Severities, resolved : BOOLEAN]
  /\ txs \in [Writers -> [pc : {"idle", "checked", "scanned", "inserted"}, value : UsageValues \cup {0},
                          seen : 0 .. MaxRows, severity : Severities, total : Nat, stale : BOOLEAN]]
  /\ lastUsage \in [total : Nat, remaining : Nat, stale : BOOLEAN, row : 0 .. MaxRows]

UsageInit ==
  /\ rows = <<>> /\ txs = [w \in Writers |-> NoTx]
  /\ lastUsage = [total |-> 0, remaining |-> UsageLimit, stale |-> FALSE, row |-> 0]

(* The values of the first n rows of s, and the last Window of them.  The  *)
(* rows are in the order of their commits; anomaly/service.py:43 orders by *)
(* created_at, set at the INSERT.  Two requests may commit in the other    *)
(* order, which changes the window only where there are more rows than it  *)
(* takes and one of its ends falls between the two: a row then stands in   *)
(* for its neighbour.                                                      *)
Values(s, n) == [i \in 1 .. n |-> s[i].value]
History(s, n) ==
  LET from == IF n < Window THEN 0 ELSE n - Window
  IN [i \in 1 .. n - from |-> s[from + i].value]

(* detect_anomalies on n values: |z| > k as integers, where                *)
(* z = (v - mean) / stddev (n - 1 in the variance).  All values equal      *)
(* leave the right side 0: any other value is critical.                    *)
Beyond(v, h, knum, kden) ==
  LET n == Len(h)
      s == SumOf(h)
      q == SumOf([i \in DOMAIN h |-> h[i] * h[i]])
      d == n * v - s
  IN kden * kden * d * d * (n - 1) > knum * knum * n * (n * q - s * s)

Verdict(v, h) ==
  IF Len(h) < 3 THEN "none"
  ELSE IF Beyond(v, h, 3, 1) THEN "critical"
  ELSE IF Beyond(v, h, 2, 1) THEN "high"
  ELSE IF Beyond(v, h, 3, 2) THEN "medium" ELSE "none"

(* record_usage has read the licence and found it usable; for a suspended, *)
(* revoked or expired one nothing is changed.                              *)
CheckLicence(w, v) ==
  /\ txs[w].pc = "idle"
  /\ txs' = [txs EXCEPT ![w] = [NoTx EXCEPT !.pc = "checked", !.value = v]]
  /\ UNCHANGED <<rows, lastUsage>>

(* scan_and_record: an anomaly is inserted in the same transaction. *)
Scan(w) ==
  /\ txs[w].pc = "checked"
  /\ txs' = [txs EXCEPT ![w].pc = "scanned", ![w].seen = Len(rows),
                        ![w].severity = Verdict(txs[w].value, History(rows, Len(rows)))]
  /\ UNCHANGED <<rows, lastUsage>>

(* The insert and the sum over the metric, which sees it. *)
InsertAndSum(w) ==
  /\ txs[w].pc = "scanned"
  /\ txs' = [txs EXCEPT ![w].pc = "inserted",
                        ![w].total = SumOf(Values(rows, Len(rows))) + txs[w].value]
  /\ UNCHANGED <<rows, lastUsage>>

(* The limit is reported, never enforced. *)
RemainingUnclamped(total) == UsageLimit - total

Remaining(total) == IF total < UsageLimit THEN UsageLimit - total ELSE 0

CommitUsage(w) ==
  /\ txs[w].pc = "inserted" /\ Len(rows) < MaxRows
  /\ rows' = Append(rows, [value |-> txs[w].value, seen |-> txs[w].seen,
                           severity |-> txs[w].severity, resolved |-> FALSE])
  /\ lastUsage' = [total |-> txs[w].total, remaining |-> Remaining(txs[w].total),
                   stale |-> txs[w].stale, row |-> Len(rows) + 1]
  /\ txs' = [u \in Writers |-> IF u = w THEN NoTx
                               ELSE [txs[u] EXCEPT !.stale = @ \/ txs[u].pc = "inserted"]]

(* The session is rolled back: a database error, or the client hung up. *)
RollbackUsage(w) ==
  /\ txs[w].pc # "idle" /\ txs' = [txs EXCEPT ![w] = NoTx]
  /\ UNCHANGED <<rows, lastUsage>>

(* resolve_anomaly may be repeated. *)
ResolveAnomaly(i) ==
  /\ rows[i].severity # "none" /\ rows' = [rows EXCEPT ![i].resolved = TRUE]
  /\ UNCHANGED <<txs, lastUsage>>

UsageNext ==
  \/ \E w \in Writers :
       \/ \E v \in UsageValues : CheckLicence(w, v)
       \/ Scan(w) \/ InsertAndSum(w) \/ CommitUsage(w) \/ RollbackUsage(w)
  \/ \E i \in DOMAIN rows : ResolveAnomaly(i)

---------------------------------------------------------------------------
(* A reported total is the sum of the rows up to its own unless another    *)
(* request committed between its sum and its commit: then it is too small, *)
(* and its remainder too large.  An observation is judged on the last      *)
(* Window rows committed before its scan: never on fewer than three, never *)
(* anomalous when it repeats a constant history, always critical when it   *)
(* leaves one.                                                             *)
Constant(h) == \A i, j \in DOMAIN h : h[i] = h[j]

Judged(severity, v, h) ==
  IF Len(h) < 3 THEN severity = "none"
  ELSE Constant(h) => severity = (IF v = h[1] THEN "none" ELSE "critical")

MeteringSound ==
  /\ lastUsage.row > 0 =>
       LET true == SumOf(Values(rows, lastUsage.row))
       IN /\ IF lastUsage.stale THEN lastUsage.total < true ELSE lastUsage.total = true
          /\ ~lastUsage.stale => lastUsage.remaining + true >= UsageLimit
  /\ \A i \in DOMAIN rows :
       rows[i].seen < i /\ Judged(rows[i].severity, rows[i].value, History(rows, rows[i].seen))
=============================================================================
