SPECIFICATION FairSpec
CONSTANTS
  Senders = {s1}
  Pass = Pass
  Admin = Admin
  MaxRetries = 1
  AttemptsCap = 2
  Cascades = TRUE
PROPERTY PendingIsAttempted
