\* One worker; a shipment is completed with an excursion open.
CONSTANTS
  s = s
  d = d
  w1 = w1
  w2 = w2
  Ships <- OneShip
  Devices <- OneDevice
  DevicesOf <- EveryDevice
  Low <- Lows
  High <- Highs
  Budget <- Budgets
  Minute = 2
  Readings <- TripReadings
  TimeOrder = FALSE
  Workers <- FirstWorker
  Builders <- FirstWorker
  Closers <- FirstWorker
  Started <- AtOne
  Ends <- NowOrLater
  Covered <- AllReadings
  Skew = 0
  Mkt <- Mean
  MktLimit <- Limits
  MaxNow = 4
  MaxBuilds = 2
SPECIFICATION CertificateSpec
INVARIANT ContentStable
\* Once everything is stored and shown, nothing happens.
CHECK_DEADLOCK FALSE
