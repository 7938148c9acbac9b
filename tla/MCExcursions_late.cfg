\* Two shipments that share a device; readings arrive in any order.
CONSTANTS
  s = s
  u = u
  d = d
  e = e
  Ships <- TwoShips
  Devices <- TwoDevices
  DevicesOf <- UCarriesE
  Low <- Lows
  High <- Highs
  Budget <- Budgets
  Minute = 2
  Readings <- JumpyReadings
  TimeOrder = FALSE
SPECIFICATION Spec
INVARIANT OneOpen
INVARIANT SpansSound
INVARIANT BreachExact
INVARIANT OrderedRuns
PROPERTY EvidenceKept
\* Once every shipment is complete and every reading stored, nothing happens.
CHECK_DEADLOCK FALSE
