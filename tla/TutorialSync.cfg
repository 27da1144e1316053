SPECIFICATION FairSpec
CONSTANTS
  c1 = c1
  c2 = c2
  r1 = r1
  Calls = {c1, c2}
  Readers = {r1}
  Scans <- FewScans
  MaxRuns = 3
INVARIANTS
  SeriesIsOfLastRun
  FloorsHold
  AnswersAreHonest
PROPERTIES
  RunsEnd
