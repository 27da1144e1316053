SPECIFICATION ReadSpec
CONSTANTS
  u1 = u1
  u2 = u2
  u3 = u3
  Keys = {1, 2}
  MaxCopies = 2
  Players = {u1, u2, u3}
  ChunkSize = 2
  Logs <- SomeLogs
  Payloads <- SomePayloads
  MaxRuns = 3
  Platforms = {"java", "bedrock"}
  DaysPerMonth = 30
  MinCohort = 5
  StampShare = 550
  StampPopulation = 50
  ContaminationMax = 300
  Batches <- RBatches
  Windows <- RWindows
  Clock <- RClock
  MaxRows = 4
  MaxLate = 1
  MaxAsks = 2
  Proxy = "proxy"
  Servers <- HServers
  Deployments <- HDeployments
  Readings <- HReadings
  MinEntryRate = 700
  MinSample = 4
  MaxSyncAge = 2
  OfflineWindow = 7
  MaxOfflineShare = 500
  MaxSilence = 2
  Interval = 1
  MaxMinutes = 3
  MaxDeploys = 1
  Newcomers <- Arrivals
  Plans <- Plans3
  RetentionSections <- Tables
  HealthSections = {"ok"}
  WeekMonth = 2
  MaxReports = 2
  MaxWindow = 2
  WindowDays = 2
  MaxCohortLines = 2
  MaxLines = 11
  LastInstant = 6
  MaxSyncs = 1
  Buyers = {"a", "b", "c"}
  platformOf <- PlatformBy
  registered <- FirstSeen
  Shop <- Shop5
  Ledger <- Ledger5
  Progress <- Positions
  Days <- Calendar
  ContactDays = 2
  TutorialAmount = 100
  RepeatedPair = 2
  FundingMany = 2
  NewAccountDays = 2
  MinWindowForOutlier = 2
  MaxEvents = 3
INVARIANTS
  ReadTypeOK
  CopyHoldsWhatWasRead
  SeriesStands
  DimensionIsWhole
  CohortsAreEvidence
  OkMeansMeasured
  TotalsAreWhole
  DeliveredIsInTheChannel
  ReportsAgree
  CohortsAreFounded
  MarksCountPayments
PROPERTY
  StalledSourceKeepsNumbers
