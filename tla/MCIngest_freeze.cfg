\* A month is locked while readings and corrections are on their way.
CONSTANTS
  a = a
  b = b
  d = d
  e = e
  w1 = w1
  w2 = w2
  none = none
  Orgs <- OneOrg
  Devices <- OneDevice
  OrgOf <- OwnedByA
  Workers <- TwoWorkers
  NoWorker <- none
  PhysMin = 0
  PhysMax = 5
  Skew = 1
  MonthLen = 2
  Messages <- OnePair
  Batches <- PairBatches
  FixTemps = {3}
  Windows <- PairWindows
  LockPeriods <- LockFirst
  MaxNow = 1
  MaxCorrections = 0
  Faults = {}
SPECIFICATION Spec
INVARIANT LockedFrozen
