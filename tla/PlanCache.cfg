SPECIFICATION Spec
CONSTANTS
  r1 = r1
  r2 = r2
  r3 = r3
  k1 = k1
  k2 = k2
  Nobody = Nobody
  Readers = {r1, r2, r3}
  Keys = {k1, k2}
  TTL <- TTLs
  MaxEntries = 1
  MaxTime = 2
SYMMETRY Alike
INVARIANTS
  TypeOK
  SingleFlight
  DatesAreHonest
PROPERTIES
  RefetchesAreSpaced
  FallbackIsCurrent
