SPECIFICATION LicSpec
CONSTANTS
  Sweeper = Sweeper
  Keep = Keep
  Requests = {r1, r2}
  Ops = {"validate", "update"}
  Statuses = {"active", "suspended"}
  Limits = {1}
  TTL = 1
  MaxLatency = 1
INVARIANT NoStaleResponse
