------------------------------- MODULE MCOutbox -------------------------------
(***************************************************************************)
(* Small instances of Outbox for TLC.                                        *)
(***************************************************************************)
EXTENDS Outbox, TLC

CONSTANTS x, y, z, p, q, w1, w2, none

OneEvent == {x}
ThreeEvents == {x, y, z}
OneEndpoint == {p}
TwoEndpoints == {p, q}
OneWorker == {w1}
TwoWorkers == {w1, w2}

(* Workers and endpoints are interchangeable, and the properties of the run  *)
(* that uses this are about states and steps only.                           *)
Symmetry == Permutations({w1, w2}) \union Permutations({p, q})
=============================================================================
