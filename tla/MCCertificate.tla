----------------------------- MODULE MCCertificate -----------------------------
(***************************************************************************)
(* Small instances of Certificate for TLC: one shipment whose only           *)
(* temperature within bounds is 1, a minute of two clock units, no excursion  *)
(* minutes allowed.  A mean of temperatures stands for the MKT: one too warm  *)
(* reading exceeds the limit, with one more, of temperature 1, it does not.   *)
(***************************************************************************)
EXTENDS Certificate, FiniteSetsExt

CONSTANTS s, d, w1, w2

OneShip == {s}
OneDevice == {d}
FirstWorker == {w1}
OtherWorker == {w2}
TwoWorkers == {w1, w2}

EveryDevice == [x \in Ships |-> Devices]
Lows == [x \in Ships |-> 1]
Highs == [x \in Ships |-> 1]
Budgets == [x \in Ships |-> 0]
Limits == [x \in Ships |-> 2]
AtOne == [x \in Ships |-> 1]

Reading(n, t, temp) == [dev |-> d, seq |-> n, ts |-> t, temp |-> temp]

(* Out of bounds at 2, back at 4, and a correction of the former. *)
TripReadings ==
  {Reading(1, 2, 3), Reading(2, 4, 1), Reading(3, 2, 1)}

Total(f) == MapThenSumSet(LAMBDA t : f[t], DOMAIN f)
Mean(temps) == Total([t \in DOMAIN temps |-> t * temps[t]]) \div Total(temps)

AllReadings == TripReadings
NowOrLater == {0, 4}
=============================================================================
