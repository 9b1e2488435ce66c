CONSTANTS
  Orders = {o1, o2}
  Calls = {c1}
  Loaded = TRUE
  CustomerCancels = TRUE
  MaxToggles = 1
  MaxReopens = 1
  MaxMedia = 1
  MaxUploads = 1
  MaxLost = 1
  None = None
SPECIFICATION MCSpec
CHECK_DEADLOCK FALSE
INVARIANTS
  TypeOK
  AmountIsForJob
  FreshActionsAccepted
PROPERTIES
  VisitCatchesUp
