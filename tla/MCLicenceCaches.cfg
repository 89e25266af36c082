SPECIFICATION Spec
CONSTANTS
 Licences = {l1, l2}
 Requests = {r1}
 Expiries = {1}
 ValTTL = 1
 EntTTL = 1
 MaxSize = 1
 TopN = 1
 MaxWarm = 1
 Grace = 0
 Retention = 1
 Batch = 1
 ProbeInterval = 1
 MaxLatency = 1
 MaxTime = 4
SYMMETRY Symmetry
INVARIANTS
 TypeOK
 ApprovalIsRecent
 OnlyWarmerApprovesLate
 StaleApprovalRanOut
 ComposedCatchesUp
 OrphansAreHistory
CHECK_DEADLOCK FALSE
