CONSTANTS
  Requests = {r1}
  None = None
SPECIFICATION Spec
CHECK_DEADLOCK FALSE
PROPERTIES
  PageCatchesUp
