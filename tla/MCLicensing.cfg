SPECIFICATION LicFairSpec
CONSTANTS
  Sweeper = Sweeper
  Keep = Keep
  Requests = {r1, r2}
  Ops = {"validate", "update", "delete"}
  Statuses = {"active", "suspended"}
  Limits = {1}
  TTL = 1
  MaxLatency = 1
INVARIANTS LicTypeOK BoundedStaleness StaleOnlyByOverlap
PROPERTIES SuspensionSticks ExpiryIsRecorded
