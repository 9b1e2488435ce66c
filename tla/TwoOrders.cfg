CONSTANTS
  Orders = {o1, o2}
  Masters = {m1}
  m1 = m1
  m2 = m2
  Tiers = {t1}
  Requests = {r1, r2}
  Workers = {w1}
  Reach <- AllNear
  SerialEdits = TRUE
  MaxFailures = 0
  None = None
SPECIFICATION Spec
INVARIANTS
  JobsDoneCounted
SYMMETRY RequestSymmetry
