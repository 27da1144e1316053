SPECIFICATION Spec
CONSTANTS
  Platforms = {"java", "bedrock"}
  Players = {"a", "b", "c"}
  platformOf <- EPlatformOf
  registered <- ERegistered
  DaysPerMonth = 30
  Shop <- EShop
  Ledger <- ELedger
  Progress <- EProgress
  ContactDays = 2
  TutorialAmount = 100
  RepeatedPair = 2
  FundingMany = 2
  NewAccountDays = 2
  MinWindowForOutlier = 2
  Clock <- EClock
  MaxEvents = 4
INVARIANT D7HadItsChance
CHECK_DEADLOCK FALSE
