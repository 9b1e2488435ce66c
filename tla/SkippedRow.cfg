CONSTANTS
  Users = {u1}
  Statuses = {s1, s2}
  None = None
  Done = s1
  Me = u1
  Take = 1
  MaxRows = 3
  Reading = TRUE
  Browsing = FALSE
SPECIFICATION Spec
CHECK_DEADLOCK FALSE
INVARIANT
  NoneSkipped
