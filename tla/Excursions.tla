------------------------------ MODULE Excursions ------------------------------
(***************************************************************************)
(* Excursion detection: every accepted reading is evaluated, once, against   *)
(* the shipments in transit that carry its device.  A temperature outside    *)
(* the profile of the shipment opens an excursion or extends the open one; a *)
(* temperature inside closes it, and a close that pushes the cumulative time *)
(* over the budget of the profile announces the breach.                      *)
(*                                                                         *)
(* The evaluation runs in the transaction that stores the reading, under the *)
(* database's write lock (Ingest), so it is one step here.  Readings reach   *)
(* it in the order in which they are stored; devices retry and corrections   *)
(* come with the time of the reading they replace, so that order is in       *)
(* general neither the order of sequence numbers nor that of time.           *)
(* The code sums floating-point minutes; sums are exact here.                *)
(***************************************************************************)
EXTENDS Integers, Sequences, FiniteSets, FiniteSetsExt, Functions

CONSTANTS
  Ships, Devices,
  DevicesOf,        \* the devices attached to each shipment
  Low, High,        \* bounds of each shipment's profile, inclusive
  Budget,           \* its max_excursion_minutes
  Minute,           \* clock units per minute, MS_PER_MINUTE
  Readings,         \* accepted readings that may be stored
  TimeOrder         \* whether readings arrive in the order of their times

ReadingType == [dev : Devices, seq : Nat, ts : Nat, temp : Int]

ASSUME ShipmentsAssumption ==
  /\ IsFiniteSet(Devices)
  /\ DevicesOf \in [Ships -> SUBSET Devices]
  /\ Low \in [Ships -> Int] /\ High \in [Ships -> Int]
  /\ Budget \in [Ships -> Nat]
  /\ Minute \in Nat \ {0}
  /\ Readings \subseteq ReadingType
  /\ TimeOrder \in BOOLEAN

VARIABLES
  phase,     \* status of each shipment, "none" before it is created
  excs,      \* the excursions of each shipment, in the order they were opened
  outbox,    \* the excursion events of each shipment, in the order enqueued
  stored,    \* readings stored and evaluated
  seen,      \* those evaluated against each shipment
  ordered    \* whether they came in the order of their devices' numbers

vars == <<phase, excs, outbox, stored, seen, ordered>>

ExcType == [dev : Devices, started : Nat, ended : Nat, peak : Int, trough : Int,
            status : {"open", "closed"}]
EventType == [kind : {"opened", "closed", "budget_breached"}, exc : Nat \ {0}]

-----------------------------------------------------------------------------
(* evaluate_reading, for one shipment. *)

Larger(x, y) == IF x >= y THEN x ELSE y
Smaller(x, y) == IF x <= y THEN x ELSE y

InBounds(s, temp) == Low[s] <= temp /\ temp <= High[s]

(* Variant: only the newest excursion of the shipment is looked at. *)
NewestOpen(es, d) == {i \in DOMAIN es : i = Len(es) /\ es[i].dev = d /\ es[i].status = "open"}

OpenOf(es, d) == {i \in DOMAIN es : es[i].dev = d /\ es[i].status = "open"}

(* ORDER BY started_ts_ms, the first one. *)
FirstOpen(es, d) ==
  CHOOSE i \in OpenOf(es, d) : \A j \in OpenOf(es, d) : es[i].started <= es[j].started

Opened(r) ==
  [dev |-> r.dev, started |-> r.ts, ended |-> 0, peak |-> r.temp, trough |-> r.temp,
   status |-> "open"]

(* Variant: the last reading replaces both extremes. *)
Replaced(e, r) == [e EXCEPT !.peak = r.temp, !.trough = r.temp]

Extended(e, r) ==
  [e EXCEPT !.peak = Larger(@, r.temp), !.trough = Smaller(@, r.temp)]

(* Variant: the end is the time of the reading, whenever that is. *)
ClosedAt(e, r) == [e EXCEPT !.status = "closed", !.ended = r.ts]

Closed(e, r) == [e EXCEPT !.status = "closed", !.ended = Larger(r.ts, e.started)]

Evaluate(s, es, r) ==
  LET i == FirstOpen(es, r.dev) IN
  CASE OpenOf(es, r.dev) = {} /\ InBounds(s, r.temp) -> es
    [] OpenOf(es, r.dev) = {} /\ ~ InBounds(s, r.temp) -> Append(es, Opened(r))
    [] OpenOf(es, r.dev) # {} /\ InBounds(s, r.temp) -> [es EXCEPT ![i] = Closed(@, r)]
    [] OpenOf(es, r.dev) # {} /\ ~ InBounds(s, r.temp) -> [es EXCEPT ![i] = Extended(@, r)]

(* An open excursion counts up to now, and nothing counts as negative. *)
Span(e, now) == Larger((IF e.status = "open" THEN now ELSE e.ended) - e.started, 0)

TotalSpan(es, now) == SumFunction([i \in DOMAIN es |-> Span(es[i], now)])

(* Variant: every close over the budget is a breach. *)
OverBudget(s, es, i, now) == TotalSpan(es, now) > Budget[s] * Minute

(* Variant: a budget used up exactly cannot be crossed any more. *)
CrossesInside(s, es, i, now) ==
  LET total == TotalSpan(es, now)
  IN  total - Span(es[i], now) < Budget[s] * Minute /\ Budget[s] * Minute < total

(* The close of excursion i crosses the budget: without it the cumulative    *)
(* time is within, with it beyond.                                          *)
CrossesBudget(s, es, i, now) ==
  LET total == TotalSpan(es, now)
  IN  /\ total - Span(es[i], now) <= Budget[s] * Minute
      /\ Budget[s] * Minute < total

Event(kind, i) == [kind |-> kind, exc |-> i]

(* What the evaluation of r enqueues, es being the excursions after it. *)
Events(s, es0, es, r) ==
  LET i == FirstOpen(es0, r.dev) IN
  CASE OpenOf(es0, r.dev) = {} /\ ~ InBounds(s, r.temp) -> <<Event("opened", Len(es))>>
    [] OpenOf(es0, r.dev) # {} /\ InBounds(s, r.temp) ->
         IF CrossesBudget(s, es, i, r.ts)
           THEN <<Event("closed", i), Event("budget_breached", i)>>
           ELSE <<Event("closed", i)>>
    [] OTHER -> <<>>

-----------------------------------------------------------------------------
(* Operations. *)

CreateShipment(s) ==
  /\ phase[s] = "none"
  /\ phase' = [phase EXCEPT ![s] = "in_transit"]
  /\ UNCHANGED <<excs, outbox, stored, seen, ordered>>

CompleteShipment(s) ==
  /\ phase[s] = "in_transit"
  /\ phase' = [phase EXCEPT ![s] = "complete"]
  /\ UNCHANGED <<excs, outbox, stored, seen, ordered>>

(* Unless the environment sees to it, readings come in any order. *)
InTime(r) == TimeOrder => \A q \in stored : q.ts <= r.ts

Newest(s, r) == \A q \in seen[s] : q.dev = r.dev => q.seq < r.seq

(* Variant: completed shipments are evaluated, too. *)
Departed(r) == {s \in Ships : phase[s] # "none" /\ r.dev \in DevicesOf[s]}

InTransit(r) == {s \in Ships : phase[s] = "in_transit" /\ r.dev \in DevicesOf[s]}

(* A reading is stored once per (device, seq), and evaluated when it is. *)
EvaluateReading(r) ==
  /\ \A q \in stored : q.dev = r.dev => q.seq # r.seq
  /\ InTime(r)
  /\ stored' = stored \union {r}
  /\ excs' = [s \in Ships |-> IF s \in InTransit(r) THEN Evaluate(s, excs[s], r) ELSE excs[s]]
  /\ outbox' = [s \in Ships |->
                  IF s \in InTransit(r)
                    THEN outbox[s] \o Events(s, excs[s], Evaluate(s, excs[s], r), r)
                    ELSE outbox[s]]
  /\ seen' = [s \in Ships |-> IF s \in InTransit(r) THEN seen[s] \union {r} ELSE seen[s]]
  /\ ordered' = [s \in Ships |-> IF s \in InTransit(r) THEN ordered[s] /\ Newest(s, r) ELSE ordered[s]]
  /\ UNCHANGED phase

Init ==
  /\ phase = [s \in Ships |-> "none"]
  /\ excs = [s \in Ships |-> <<>>]
  /\ outbox = [s \in Ships |-> <<>>]
  /\ stored = {}
  /\ seen = [s \in Ships |-> {}]
  /\ ordered = [s \in Ships |-> TRUE]

Next ==
  \/ \E s \in Ships : CreateShipment(s) \/ CompleteShipment(s)
  \/ \E r \in Readings : EvaluateReading(r)

Spec == Init /\ [][Next]_vars

-----------------------------------------------------------------------------
(* Properties. *)

(* Type correctness; every event is about an excursion of its shipment.      *)
TypeOK ==
  /\ phase \in [Ships -> {"none", "in_transit", "complete"}]
  /\ excs \in [Ships -> Seq(ExcType)]
  /\ outbox \in [Ships -> Seq(EventType)]
  /\ stored \subseteq Readings
  /\ seen \in [Ships -> SUBSET Readings]
  /\ ordered \in [Ships -> BOOLEAN]
  /\ \A s \in Ships : \A k \in 1..Len(outbox[s]) : outbox[s][k].exc <= Len(excs[s])

OpenAt(es, x) == {i \in DOMAIN es : es[i].dev = x /\ es[i].status = "open"}

(* At most one excursion is open for each shipment and device, in whatever    *)
(* order the readings of its devices come.                                   *)
OneOpen ==
  \A s \in Ships : \A x \in Devices : \A i, j \in OpenAt(excs[s], x) : i = j

(* Late data cannot turn a span negative, and the extremes of an excursion    *)
(* were measured by its own device, both out of the shipment's bounds.       *)
SpansSound ==
  \A s \in Ships : \A i \in DOMAIN excs[s] :
    LET x == excs[s][i] IN
      /\ x.status = "closed" => x.started <= x.ended
      /\ \A t \in {x.peak, x.trough} :
           ~ InBounds(s, t) /\ \E r \in seen[s] : r.dev = x.dev /\ r.temp = t

Breaches(s) == {k \in DOMAIN outbox[s] : outbox[s][k].kind = "budget_breached"}

(* A shipment with one device, in whatever order its readings come: the       *)
(* breach has been announced once if its closed excursions exceed the budget, *)
(* and not at all otherwise.                                                 *)
BreachExact ==
  \A s \in Ships : Cardinality(DevicesOf[s]) = 1 =>
    Cardinality(Breaches(s)) = IF TotalSpan(excs[s], 0) > Budget[s] * Minute THEN 1 ELSE 0

(* What a step may never do: lose an excursion, move its start, reopen or     *)
(* alter a closed one, or touch the excursions of a completed shipment.      *)
EvidenceKept ==
  [][\A s \in Ships :
       /\ \A i \in DOMAIN excs[s] :
            /\ i \in DOMAIN excs'[s]
            /\ excs'[s][i].started = excs[s][i].started
            /\ excs[s][i].status = "closed" => excs'[s][i] = excs[s][i]
       /\ phase[s] = "complete" => excs'[s] = excs[s]]_vars

(* The reference: the maximal runs of out-of-bounds readings of each device,  *)
(* by sequence number, each ended by the first in-bounds reading after it.   *)
Hot(s) == {r \in seen[s] : ~ InBounds(s, r.temp)}
Between(s, q, r) == {p \in seen[s] : p.dev = r.dev /\ q.seq < p.seq /\ p.seq < r.seq}
SameRun(s, q, r) ==
  /\ q.dev = r.dev /\ q.seq <= r.seq
  /\ Between(s, q, r) \subseteq Hot(s)
RunStarts(s) == {r \in Hot(s) : \A q \in Hot(s) : SameRun(s, q, r) => q = r}
Run(s, r) == {q \in Hot(s) : SameRun(s, r, q)}
RunEnds(s, r) == {p \in seen[s] \ Hot(s) : SameRun(s, r, p)}

Excursion(s, r) ==
  [dev |-> r.dev, started |-> r.ts,
   ended |-> IF RunEnds(s, r) = {} THEN 0 ELSE Max({r.ts} \union {p.ts : p \in RunEnds(s, r)}),
   peak |-> Max({q.temp : q \in Run(s, r)}),
   trough |-> Min({q.temp : q \in Run(s, r)}),
   status |-> IF RunEnds(s, r) = {} THEN "open" ELSE "closed"]

AreRuns(s) ==
  /\ {excs[s][i] : i \in DOMAIN excs[s]} = {Excursion(s, r) : r \in RunStarts(s)}
  /\ Len(excs[s]) = Cardinality(RunStarts(s))

(* As long as the readings of each device come in the order of their numbers, *)
(* however those of different devices interleave and whatever their clocks    *)
(* say, the excursions of a shipment are the runs of its readings.           *)
OrderedRuns == \A s \in Ships : ordered[s] => AreRuns(s)

(* "budget_breached is emitted at most once per crossing", and the test of it  *)
(* expects exactly one: BreachExact for any number of devices, once the       *)
(* excursions of the shipment are all closed.                                *)
BreachExactlyOnce ==
  \A s \in Ships : (\A i \in DOMAIN excs[s] : excs[s][i].status = "closed") =>
    Cardinality(Breaches(s)) = IF TotalSpan(excs[s], 0) > Budget[s] * Minute THEN 1 ELSE 0
=============================================================================
