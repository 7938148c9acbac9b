----------------------------- MODULE MCExcursions -----------------------------
(***************************************************************************)
(* Small instances of Excursions for TLC.  Temperature 1 is the only one     *)
(* within bounds for shipment s; 0 is too cold, 2 and 3 are too warm, but 2   *)
(* is within the bounds of shipment u.  A minute is two clock units.         *)
(***************************************************************************)
EXTENDS Excursions

CONSTANTS s, u, d, e

OneShip == {s}
TwoShips == {s, u}
OneDevice == {d}
TwoDevices == {d, e}

EveryDevice == [x \in Ships |-> Devices]
UCarriesE == [x \in Ships |-> IF x = s THEN {d} ELSE {d, e}]
Lows == [x \in Ships |-> 1]
Highs == [x \in Ships |-> IF x = s THEN 1 ELSE 2]
Budgets == [x \in Ships |-> 1]

Reading(x, n, t, temp) == [dev |-> x, seq |-> n, ts |-> t, temp |-> temp]

(* Readings of device x, number n taken at time 3n. *)
Regular(x, numbers, temps) == {Reading(x, n, 3 * n, t) : n \in numbers, t \in temps}

(* Four readings of device d, whose clock jumps back once, and two of e. *)
JumpyReadings ==
  Regular(d, {1, 3}, {1, 3}) \union Regular(d, {2}, {0, 1, 2}) \union {Reading(d, 4, 5, 1)}
  \union {Reading(e, 1, 4, 3), Reading(e, 2, 7, 1)}

PairReadings ==
  {Reading(x, n, t, temp) : x \in {d, e}, n \in 1..2, t \in 1..4, temp \in {1, 3}}
=============================================================================
