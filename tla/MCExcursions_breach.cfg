\* Two devices; readings arrive in time order.
CONSTANTS
  s = s
  u = u
  d = d
  e = e
  Ships <- OneShip
  Devices <- TwoDevices
  DevicesOf <- EveryDevice
  Low <- Lows
  High <- Highs
  Budget <- Budgets
  Minute = 2
  Readings <- PairReadings
  TimeOrder = TRUE
SPECIFICATION Spec
INVARIANT BreachExactlyOnce
\* Once every shipment is complete and every reading stored, nothing happens.
CHECK_DEADLOCK FALSE
