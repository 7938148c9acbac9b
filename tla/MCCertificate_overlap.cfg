\* Certificates and approvals while readings, corrections and the completion are committed.
CONSTANTS
  s = s
  d = d
  w1 = w1
  w2 = w2
  Ships <- OneShip
  Devices <- OneDevice
  DevicesOf <- EveryDevice
  Low <- Lows
  High <- Highs
  Budget <- Budgets
  Minute = 2
  Readings <- TripReadings
  TimeOrder = FALSE
  Workers <- TwoWorkers
  Builders <- FirstWorker
  Closers <- OtherWorker
  Started <- AtOne
  Ends <- NowOrLater
  Covered <- AllReadings
  Skew = 0
  Mkt <- Mean
  MktLimit <- Limits
  MaxNow = 4
  MaxBuilds = 2
SPECIFICATION CertificateSpec
INVARIANT CertificateTypeOK
INVARIANT FinalFacts
INVARIANT SignedFinal
INVARIANT FailureSticks
INVARIANT StableOnceClosed
INVARIANT BreachAnnounced
\* Once everything is stored and shown, nothing happens.
CHECK_DEADLOCK FALSE
