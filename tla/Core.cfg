CONSTANTS
  Orders = {o1}
  Masters = {m1, m2}
  m1 = m1
  m2 = m2
  Tiers = {t1, t2}
  Requests = {r1, r2}
  Workers = {w1}
  Reach <- NearAndFar
  SerialEdits = TRUE
  MaxFailures = 1
  None = None
SPECIFICATION Spec
INVARIANTS
  TypeOK
  SequentialOffers
  OneAccepted
  QuoteCurrent
PROPERTIES
  ImplementsLifecycle
  HistoryChain
SYMMETRY HandlerSymmetry
