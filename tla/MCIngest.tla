------------------------------- MODULE MCIngest -------------------------------
(***************************************************************************)
(* Small instances of Ingest for TLC.  Months are two time units long, so    *)
(* times 1 and 2 fall into different months; a reading at time 2 is in the   *)
(* future while the clock is at 0 (Skew is 1); the calibration windows cover *)
(* both times of a device or only one of them.                              *)
(***************************************************************************)
EXTENDS Ingest

CONSTANTS a, b, d, e, w1, w2, none

OneOrg == {a}
TwoOrgs == {a, b}
OneDevice == {d}
TwoDevices == {d, e}
OneWorker == {w1}
TwoWorkers == {w1, w2}

OwnedByA == [x \in Devices |-> a]
OwnedByBoth == [x \in Devices |-> IF x = d THEN a ELSE b]

Msg(x, n, t, temp) == [dev |-> x, seq |-> n, ts |-> t, temp |-> temp]

First == Msg(d, 0, 1, 1)
Second == Msg(d, 1, 2, 1)
Reset == Msg(d, 0, 1, 2)      \* the counter restarted: number 0 again, another value
Broken == Msg(d, 2, 1, 9)     \* no physical temperature
Other == Msg(e, 0, 1, 1)

Whole(x) == [dev |-> x, from |-> 0, until |-> 9]
Early(x) == [dev |-> x, from |-> 0, until |-> 2]

(* Two workers race on the readings of one device: single readings, a batch, *)
(* a restarted counter and a reading out of range.                          *)
RaceMessages == {First, Second, Reset, Broken}
RaceBatches == {<<First>>, <<Second, Reset>>, <<First, Second>>, <<Broken>>}
RaceWindows == {Early(d)}

OnePair == {First, Second}
PairBatches == {<<First>>, <<Second>>}
LiveBatches == {<<First>>, <<Second, First>>}
PairWindows == {Whole(d)}
LockFirst == {<<a, 0>>}
LockBoth == {<<a, 0>>, <<a, 1>>}
NoLocks == {}

SharedMessages == {First, Second, Other}
SharedBatches == {<<First>>, <<Second, First>>, <<Other>>, <<First, Other>>}
SharedWindows == {Whole(d), Whole(e)}

=============================================================================
