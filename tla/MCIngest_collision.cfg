\* Two organizations share the numbering of the audit table; one worker, no faults.
CONSTANTS
  a = a
  b = b
  d = d
  e = e
  w1 = w1
  w2 = w2
  none = none
  Orgs <- TwoOrgs
  Devices <- TwoDevices
  OrgOf <- OwnedByBoth
  Workers <- OneWorker
  NoWorker <- none
  PhysMin = 0
  PhysMax = 5
  Skew = 1
  MonthLen = 2
  Messages <- SharedMessages
  Batches <- SharedBatches
  FixTemps = {3}
  Windows <- SharedWindows
  LockPeriods <- NoLocks
  MaxNow = 1
  MaxCorrections = 0
  Faults = {}
SPECIFICATION Spec
INVARIANT AckedIsStored
