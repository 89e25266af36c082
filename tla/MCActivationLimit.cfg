SPECIFICATION Spec
CONSTANTS
  Sweeper = Sweeper
  Keep = Keep
  Requests = {r1, r2}
  Fingerprints = {f1, f2}
  Ops = {"activate"}
  Statuses = {"active", "suspended"}
  Limits = {1}
  MaxLimit = 1
  TTL = 0
  MaxLatency = 0
INVARIANT MachinesWithinLimit
