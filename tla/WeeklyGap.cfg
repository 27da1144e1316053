SPECIFICATION Spec
CONSTANTS
  Platforms = {"java", "bedrock"}
  Newcomers <- WNewcomers
  DaysPerMonth = 2
  MaxWindow = 4
  WindowDays = 2
  RetentionSections <- WRetention
  HealthSections = {"ok"}
  MaxCohortLines = 2
  MaxLines = 11
  Plans <- WPlans
  MaxRuns = 2
  LastInstant = 6
  MaxSyncs = 1
INVARIANT WeekWasCopied
CHECK_DEADLOCK FALSE
