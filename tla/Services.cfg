CONSTANTS
  Parts = {"accounts", "failing", "codes", "logins", "trust", "reviews", "guarantee", "trial"}
  Requests = {r1, r2}
  Sessions = {s1, s2}
  Orders = {o1, o2}
  Admins = {a1}
  Filings = {f1}
  Decisions = {d1, d2}
  OTP_MAX_ATTEMPTS = 1
  OTP_DAILY_CAP = 1
  LOGIN_MAX_ATTEMPTS = 2
  MaxPasswords = 2
  MaxCodes = 2
  TrialDays = 2
  MaxDay = 5
  StoredRatings = {0, 333, 450, 500}
  StoredJobs = {0, 24, 48}
  MaxEvents = 2
  GuaranteeDays = 1
  MaxDays = 0
  MaxFailures = 1
  None = None
SPECIFICATION MCSpec
CHECK_DEADLOCK FALSE
INVARIANTS
  TypesOK
  SingleUse
  OneComplaintPerOrder
  OneDecision
  AuditTruthful
PROPERTIES
  LimitsHold
  TrustScoreSound
SYMMETRY MCSymmetry
