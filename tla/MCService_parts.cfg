\* Keys, audit chain, conversions and simulator, each for itself.
\* Every part stops: its requests, entries, questions and runs are bounded.
CONSTANTS
  a = a
  b = b
  logger = logger
  probe = probe
  k = k
  l = l
  w1 = w1
  w2 = w2
  none = none
  Companies <- TwoCompanies
  Keys <- TwoKeys
  NoKey = none
  Threads <- TwoThreads
  NoThread = none
  Requests <- SomeRequests
  MaxRequests = 4
  Outages = {"crash", "timeout"}
  Tenants <- TwoCompanies
  Notices <- TwoNotices
  MaxEntry = 3
  MaxDamages = 3
  Digits <- SomeDigits
  Years <- SomeYears
  Offsets <- HalfDay
  MinMc <- Coldest
  MaxMc = 100000
  Fleet <- TwoDevices
  Targets <- SomeTargets
  Steps = 2
  Drawn = {2}
  Measured = {1}
  MaxRuns = 2
  MaxNumber = 0
SPECIFICATION ServiceSpec
CHECK_DEADLOCK FALSE
INVARIANT RegistryTypeOK
INVARIANT KeyHonoured
INVARIANT ReplayBacked
INVARIANT NothingAfterRetirement
INVARIANT IntactVerifies
INVARIANT CheckedGenuine
INVARIANT ParseExact
INVARIANT LockCoversSnapshot
INVARIANT SimulationWhole
PROPERTY KeepsRegister
PROPERTY SimulationKeepsLog
