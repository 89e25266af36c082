SPECIFICATION Spec
CONSTANTS
  Sweeper = Sweeper
  Keep = Keep
  Requests = {r1, r2}
  Fingerprints = {f1, f2}
  Ops = {"activate", "deactivate", "heartbeat", "update", "delete"}
  Statuses = {"suspended"}
  Limits = {1}
  MaxLimit = 1
  TTL = 1
  MaxLatency = 0
SYMMETRY Symmetry
INVARIANTS TypeOK CounterExactUnlessRaced SeatLimitUnlessRaced
PROPERTIES ActivationAuthorised ImplementsLedger
