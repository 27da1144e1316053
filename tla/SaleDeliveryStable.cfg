SPECIFICATION FairSpec
CONSTANTS
  s1 = s1
  s2 = s2
  i1 = i1
  Sales = {s1, s2}
  Items = {i1}
  itemOf <- MCItemOf
  Worker = Worker
  GuardCodes = {}
  BatchLimit = 1
  MaxEdits = 0
  MaxStops = 0
  MaxLate = 0
  MaxQueued = 1
PROPERTY
  EveryStoredSaleIsRecorded
