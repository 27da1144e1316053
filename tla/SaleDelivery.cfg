SPECIFICATION FairSpec
CONSTANTS
  s1 = s1
  s2 = s2
  i1 = i1
  Sales = {s1}
  Items = {i1}
  itemOf <- MCItemOf
  Worker = Worker
  GuardCodes = {401, 429}
  BatchLimit = 1
  MaxEdits = 2
  MaxStops = 2
  MaxLate = 2
  MaxQueued = 1
INVARIANTS
  TypeOK
  SettledWithCause
  NothingStoredIsLost
  WorkerWaitsForATask
PROPERTIES
  ImplementsLedger
  EveryRowSettles
  TerminalIsFinal
