SPECIFICATION Spec
CONSTANTS
  c1 = c1
  Checks = {c1}
  BlindSpots = {}
  ReAlertAfter = 2
  ConfirmRecoveryAfter = 2
  MaxAlertsPerWindow = 1
  MaxTime = 4
  MaxRows = 4
INVARIANTS
  TypeOK
  StampedWasHeard
  MessagesFollow
  SilenceEnds
  RepetitionBounded
