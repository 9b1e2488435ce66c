CONSTANTS
  Orders = {o1}
  Masters = {m1}
  m1 = m1
  m2 = m2
  Tiers = {t1}
  Requests = {r1, r2}
  Workers = {w1, w2}
  Reach <- AllNear
  SerialEdits = FALSE
  MaxFailures = 2
  None = None
SPECIFICATION Spec
INVARIANTS
  AssignedMasterAccepted
  OneLatePenalty
PROPERTIES
  NoSecondOffer
SYMMETRY HandlerSymmetry
