SPECIFICATION Spec
CONSTANTS
  MaxTime = 2
  MaxRetries = 2
  MaxCalls = 1
  LeaseKeys = {"a", "b"}
  LeaseTtl = 1
  CacheAge = 1
  KeyHashes = {"k1", "k2", "k3"}
  OfflineTtl = 1
  CacheSize = 2
  Threshold = 2
  MaxProbes = 4
  MaxFailures = 2
  MaxOpen = 2
  QueueSize = 2
  MaxEvents = 3
  Writers = {"w1", "w2"}
  UsageValues = {2, 9}
  UsageLimit = 8
  Window = 3
  MaxRows = 5
  MaxKept = 1
  MaxCases = 2
  MaxScore = 12
  LicenceData <- MCLicenceData
  MachineRate = 10
  ExpiredRate = 5
  FeatureRate = 25
  Recovered = {0, 10}
  MaxViolations = 3
  MaxTasks = 2
  MaxFound = 5
  MaxTasked = 4
  Tables = {"t"}
  Columns = {"a", "b"}
  ColumnTypes = {"String", "Integer"}
  MaxLicences = 3
  Limits = {3, 5}
  TokenLimits = {2, 4}
  TierRanks = {0, 1}
  Base = 2
  MaxVersion = 2
  LegacyChars = {0, 1}
  MaxIssued = 3
  Licensees = {"l1", "l2"}
  Sources = {"s1", "s2"}
  Instants = {1, 2, 4}
  VelocityWindow = 1
  VelocityLimit = 1
  BurstWindow = 1
  BurstLimit = 2
  DriftTolerance = 1
  ProfileSize = 3
  MaxSignals = 1
  MaxAnalyzed = 4
  TierTables <- MCTierTables
  Readings = {1, 2, 5}
  MeterDefs <- MCMeterDefs
  MaxReadings = 4
INVARIANTS TypeOK ComponentsHold ResultsHold
PROPERTY NothingUndone
CHECK_DEADLOCK FALSE
