\* One request, two workers, and any three failures among them; the steps that
\* do no work (tenant, subdomain, domain) are left out of the order.
SPECIFICATION Spec
CONSTANTS
  Requests = {r1}
  Workers = {w1, w2}
  Last = 3
  Academy = 1
  Branding = 2
  Threshold = 2
  Attempts = 2
  MaxTrouble = 3
  None = None
INVARIANTS TypeOK ReadyMeansBuilt RestingCancelHolds OneTicket
PROPERTIES RetriedBuildSettles
\* A system whose requests are all ready or cancelled stops.
CHECK_DEADLOCK FALSE
