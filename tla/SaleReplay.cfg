SPECIFICATION Spec
CONSTANTS
  s1 = s1
  s2 = s2
  i1 = i1
  Sales = {s1}
  Items = {i1}
  itemOf <- MCItemOf
  Worker = Worker
  GuardCodes = {}
  BatchLimit = 1
  MaxEdits = 2
  MaxStops = 2
  MaxLate = 2
  MaxQueued = 2
PROPERTIES
  ReplayIsAcknowledged
