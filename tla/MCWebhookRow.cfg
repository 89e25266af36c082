SPECIFICATION Spec
CONSTANTS
  Senders = {s1}
  Pass = Pass
  Admin = Admin
  MaxRetries = 2
  AttemptsCap = 3
  Cascades = FALSE
INVARIANTS TypeOK PhantomIsBounded FailedIsScheduled NoFalseSuccess
