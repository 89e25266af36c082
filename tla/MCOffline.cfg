SPECIFICATION Spec
CONSTANTS
  Syncers = {s1, s2}
  Callers = {c1}
  Licenses = {l1}
  MaxEvents = 3
  MaxBuffer = 2
  MaxAttempts = 1
  Batch = 2
SYMMETRY Symmetry
INVARIANTS TypeOK CountedOnceBySync FlagMeansSyncing NothingVanishes SyncingIsInFlight
