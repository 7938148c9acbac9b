\* Two overlapping dispatches, with crashes, lock timeouts and a deactivation.
CONSTANTS
  x = x
  y = y
  z = z
  p = p
  q = q
  w1 = w1
  w2 = w2
  none = none
  Events <- OneEvent
  Endpoints <- TwoEndpoints
  Workers <- TwoWorkers
  NoWorker <- none
  MaxAttempts = 3
  MaxBackoff = 1
  Limit = 2
  Faults = {"crash", "timeout", "deactivate"}
SPECIFICATION Spec
INVARIANT TypeOK
INVARIANT DeliveredWasAccepted
INVARIANT FailedWasExhausted
INVARIANT AttemptsCovered
PROPERTY SettledStays
\* Once every delivery is settled, nothing is left to do.
CHECK_DEADLOCK FALSE
SYMMETRY Symmetry
