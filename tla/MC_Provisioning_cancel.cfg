\* One worker, no failures: the owner cancels while a step is in progress.
SPECIFICATION Spec
CONSTANTS
  Requests = {r1}
  Workers = {w1}
  Last = 3
  Academy = 1
  Branding = 2
  Threshold = 2
  Attempts = 2
  MaxTrouble = 0
  None = None
INVARIANTS CancelIsRespected
CHECK_DEADLOCK FALSE
