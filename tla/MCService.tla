------------------------------ MODULE MCService ------------------------------
(***************************************************************************)
(* Small instances for TLC of the parts of the service that share no table   *)
(* with each other in what they are checked for: requests with idempotency    *)
(* keys, the audit chain, the conversions and the simulator.  Each behaviour   *)
(* is one of a single part, so that their states add up and do not multiply.  *)
(***************************************************************************)
EXTENDS Registry, AuditChain, Conversions, Simulation

CONSTANTS a, b, logger, probe, k, l, w1, w2, none

VARIABLE part

TwoDevices == {logger, probe}
TwoCompanies == {a, b}
TwoKeys == {k, l}
TwoThreads == {w1, w2}

Req(o, key, kind, name, uses, rest) ==
  [org |-> o, key |-> key,
   body |-> [kind |-> kind, name |-> name, uses |-> uses,
             profile |-> IF kind = "shipment" THEN 2 ELSE 0, rest |-> rest]]

(* One key for two serials, in two organizations; a shipment of device 1 with  *)
(* profile 2, keyed or not; two readings of device 1 with one number; and the *)
(* end of the first and the third thing.                                     *)
SomeRequests ==
  {Req(a, k, "device", "x", {}, 0), Req(a, k, "device", "y", {}, 0), Req(b, k, "device", "x", {}, 0),
   Req(a, none, "profile", "x", {}, 0),
   Req(a, k, "shipment", "x", {1}, 0), Req(a, none, "shipment", "x", {1}, 0),
   Req(a, l, "reading", "n", {1}, 0), Req(a, l, "reading", "n", {1}, 1),
   Req(a, none, "reading", "n", {1}, 0),
   Req(a, none, "settle", "", {1}, 0), Req(a, none, "settle", "", {3}, 0)}

(* An entry whose detail has one line, and one whose detail has two. *)
TwoNotices ==
  {[target |-> <<"t">>, detail |-> <<"x">>], [target |-> <<"t">>, detail |-> <<"x", "y">>]}

(* Around zero, around the physical bounds, and the ties between them. *)
Around(v) == (v - 30)..(v + 30)
SomeDigits == [u \in {"C", "F", "K"} |->
  CASE u = "C" -> Around(0) \union Around(1000000) \union Around(-1000000)
    [] u = "F" -> Around(320000) \union Around(2120000) \union Around(-1480000)
    [] u = "K" -> Around(2731500) \union Around(3731500) \union Around(1731500)]
Coldest == -100000

(* The ends of the calendar, leap years and centuries. *)
SomeYears == {0, 1970, 1999, 2000, 2023, 2024, 2100, 9999}
HalfDay == -1..1

(* Two devices, and one that is listed twice. *)
SomeTargets == {<<logger, probe>>, <<logger, logger>>}

-----------------------------------------------------------------------------
ServiceInit ==
  /\ part \in {"registry", "audit", "conversions", "simulation"}
  /\ RegistryInit /\ AuditInit /\ ConversionInit /\ SimulationInit

ServiceNext ==
  \/ /\ part = "registry" /\ RegistryNext
     /\ UNCHANGED <<part, auditVars, conversionVars, simVars>>
  \/ /\ part = "audit" /\ AuditNext
     /\ UNCHANGED <<part, registryVars, conversionVars, simVars>>
  \/ /\ part = "conversions" /\ ConversionNext
     /\ UNCHANGED <<part, registryVars, auditVars, simVars>>
  \/ /\ part = "simulation" /\ SimulationNext
     /\ UNCHANGED <<part, registryVars, auditVars, conversionVars>>

ServiceSpec == ServiceInit /\ [][ServiceNext]_<<part, registryVars, auditVars, conversionVars, simVars>>
=============================================================================
