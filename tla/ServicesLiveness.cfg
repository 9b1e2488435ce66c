CONSTANTS
  Parts = {"failing", "guarantee"}
  Requests = {r1, r2}
  Sessions = {s1}
  Orders = {o1}
  Admins = {a1, a2}
  Filings = {f1}
  Decisions = {d1, d2}
  OTP_MAX_ATTEMPTS = 1
  OTP_DAILY_CAP = 1
  LOGIN_MAX_ATTEMPTS = 2
  MaxPasswords = 2
  MaxCodes = 2
  TrialDays = 2
  MaxDay = 5
  StoredRatings = {0}
  StoredJobs = {0}
  MaxEvents = 2
  GuaranteeDays = 1
  MaxDays = 1
  MaxFailures = 0
  None = None
SPECIFICATION FairSpec
CHECK_DEADLOCK FALSE
PROPERTIES
  SuspensionTakesEffect
  AdminActionsAudited
