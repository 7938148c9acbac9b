\* One dispatch at a time, and the scheduler keeps dispatching; the third backoff meets the cap.
CONSTANTS
  x = x
  y = y
  z = z
  p = p
  q = q
  w1 = w1
  w2 = w2
  none = none
  Events <- ThreeEvents
  Endpoints <- OneEndpoint
  Workers <- OneWorker
  NoWorker <- none
  MaxAttempts = 4
  MaxBackoff = 3
  Limit = 2
  Faults = {"deactivate"}
SPECIFICATION FairSpec
INVARIANT AttemptsExact
PROPERTY DeliveredStays
PROPERTY EveryEventSettles
\* Once every delivery is settled, nothing is left to do.
CHECK_DEADLOCK FALSE
