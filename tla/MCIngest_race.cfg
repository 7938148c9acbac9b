\* Two workers, one device: racing single readings, batches and corrections;
\* a thread that has a request keeps executing it.
CONSTANTS
  a = a
  b = b
  d = d
  e = e
  w1 = w1
  w2 = w2
  none = none
  Orgs <- OneOrg
  Devices <- OneDevice
  OrgOf <- OwnedByA
  Workers <- TwoWorkers
  NoWorker <- none
  PhysMin = 0
  PhysMax = 5
  Skew = 1
  MonthLen = 2
  Messages <- RaceMessages
  Batches <- RaceBatches
  FixTemps = {3}
  Windows <- RaceWindows
  LockPeriods <- NoLocks
  MaxNow = 1
  MaxCorrections = 2
  Faults = {"timeout"}
SPECIFICATION FairSpec
INVARIANT TypeOK
INVARIANT AckedIsStored
INVARIANT QuarantineSound
INVARIANT SupersedeLinks
INVARIANT OneAnswer
PROPERTY WriteOnce
PROPERTY RequestsFinish
