SPECIFICATION Spec
CONSTANTS
  h1 = h1
  h2 = h2
  m1 = m1
  t1 = t1
  t2 = t2
  a1 = a1
  a2 = a2
  BadText = BadText
  Nobody = Nobody
  Handlers = {h1, h2}
  Messages = {m1}
  Texts = {t1, t2}
  Tallies = {1}
  Actors = {a1, a2}
  MaxRequests = 3
SYMMETRY Alike
INVARIANTS
  TypeOK
  TrailIsChain
  RefusalsAreTruthful
  AnswersAreRecorded
  SomebodyCanGoOn
PROPERTIES
  ImplementsLifecycle
CHECK_DEADLOCK FALSE
