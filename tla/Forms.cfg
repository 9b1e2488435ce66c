CONSTANTS
  None = None
  Details = {leak, wiring}
  Tiers = {standard, urgent}
  DefaultTier = standard
  Calls = {save}
  MaxOrders = 2
  MaxMedia = 1
  MaxLost = 1
  MaxReloads = 1
  Files = {diploma}
  Skills = {plumbing}
  Admins = {a1, a2}
  Clicks = {s1, s2}
  MaxRequests = 2
  MaxCopies = 2
  Users = {ali, vali}
  MaxTokens = 4
  MaxLoads = 2
  Statuses = {done, open}
  Done = done
  Me = ali
  Take = 1
  MaxRows = 3
  Orders = {o1, o2}
  Customers = {c1}
  Masters = {m1}
  MaxMoves = 1
  MaxMounts = 2
  Requests = {r1}
  StartStatuses = {"SEARCHING", "COMPLETED"}
  Navigated = FALSE
  MaxPayments = 2
SPECIFICATION MCSpec
CHECK_DEADLOCK FALSE
INVARIANTS
  TypesOK
  WizardConsistent
  OnboardingConsistent
  ListsConsistent
  MapFollowsJobs
  FreshOffersAccepted
  SessionKept
PROPERTIES
  NobodyTurnedAway
