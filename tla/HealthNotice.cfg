SPECIFICATION Spec
CONSTANTS
  c1 = c1
  Checks = {c1}
  BlindSpots = {}
  ReAlertAfter = 1
  ConfirmRecoveryAfter = 1
  MaxAlertsPerWindow = 1
  MaxTime = 4
  MaxRows = 4
INVARIANTS
  NoticeAfterMutedWindow
