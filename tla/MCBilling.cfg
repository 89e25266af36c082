SPECIFICATION Spec
CONSTANTS
  MaxTime = 3
  Packages <- MCPackages
  Amounts = {1, 2}
  MaxCredits = 4
  Minimum = 3
  TrueUpRate = 2
  PeriodEnd = 1
  Values = {1, 2}
  PromoStart = 1
  PromoEnd = 2
  MaxRedemptions = 2
  Discounts <- MCDiscounts
  Prices = {300, 1050}
  MaxUses = 3
  Windows = {"rpm", "burst"}
  TierCapacity <- MCTierCapacity
  TierRefill <- MCTierRefill
  MaxChecks = 6
  TrialDays = 2
  MaxExtensionDays = 2
  ReferralDays = 1
  MaxExtensions = 2
  AutoWindow = 1
  InactiveDays = 2
  EngagedUsage = 2
  EngagedFeatures = 2
  SalePrices = {1}
  Period = 2
  MaxEntries = 2
  MaxSales = 3
  Thresholds <- MCThresholds
  Milestones = {1, 2, 4}
  Spends <- MCSpends
  MaxSpend = 9
  MaxTenure = 4
  UsageLimits <- MCUsageLimits
  Attempts = {1, 2}
  Rate = 1
  MaxAttempts = 4
  MaxPauseDays = 2
  GraceDays = 1
  CampaignDays = 2
  Signals <- MCSignals
  MaxRecords = 3
INVARIANTS TypeOK CreditsExplained LedgersAddUp LimitsHold TrialEndExplained LoyaltyFair
PROPERTY FinalStays
CHECK_DEADLOCK FALSE
