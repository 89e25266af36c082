SPECIFICATION Spec
CONSTANTS
  Deliveries = {d1, d2}
  Replays = {r1}
  MaxRetries = 2
  MaxSize = 1
  BatchSize = 2
INVARIANT DeadIsReplayable
