\* One worker, so requests never overlap; two organizations, month locks, crashes.
CONSTANTS
  a = a
  b = b
  d = d
  e = e
  w1 = w1
  w2 = w2
  none = none
  Orgs <- TwoOrgs
  Devices <- TwoDevices
  OrgOf <- OwnedByBoth
  Workers <- OneWorker
  NoWorker <- none
  PhysMin = 0
  PhysMax = 5
  Skew = 1
  MonthLen = 2
  Messages <- SharedMessages
  Batches <- SharedBatches
  FixTemps = {3}
  Windows <- PairWindows
  LockPeriods <- LockBoth
  MaxNow = 1
  MaxCorrections = 2
  Faults = {"crash"}
SPECIFICATION Spec
INVARIANT AuditComplete
INVARIANT LockedFrozen
INVARIANT SupersededOnce
