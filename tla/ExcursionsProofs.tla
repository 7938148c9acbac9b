--------------------------- MODULE ExcursionsProofs ---------------------------
(***************************************************************************)
(* Proofs about Excursions, for every set of shipments, devices, profiles    *)
(* and readings, and every order of arrival.                                *)
(***************************************************************************)
EXTENDS Excursions, FiniteSums

(* No device has two open excursions in es. *)
Single(es) == \A x \in Devices : \A i, j \in OpenOf(es, x) : i = j

(* fs continues es: no excursion is lost or moved, none that is closed changes. *)
Continues(es, fs) ==
  /\ Len(es) <= Len(fs)
  /\ \A i \in 1..Len(es) :
       /\ fs[i].started = es[i].started
       /\ es[i].status = "closed" => fs[i] = es[i]

(* Records are equal if their fields are; what a reading does to each field. *)
LEMMA SameExcursion ==
  ASSUME NEW e \in ExcType, NEW f \in ExcType,
         e.dev = f.dev, e.started = f.started, e.ended = f.ended,
         e.peak = f.peak, e.trough = f.trough, e.status = f.status
  PROVE  e = f
BY DEF ExcType

LEMMA ClosedFields ==
  ASSUME NEW e \in ExcType, NEW r \in ReadingType
  PROVE  /\ Closed(e, r) \in ExcType
         /\ Closed(e, r).dev = e.dev /\ Closed(e, r).started = e.started
         /\ Closed(e, r).ended = Larger(r.ts, e.started)
         /\ Closed(e, r).peak = e.peak /\ Closed(e, r).trough = e.trough
         /\ Closed(e, r).status = "closed"
BY DEF ExcType, ReadingType, Closed, Larger

LEMMA ExtendedFields ==
  ASSUME NEW e \in ExcType, NEW r \in ReadingType
  PROVE  /\ Extended(e, r) \in ExcType
         /\ Extended(e, r).dev = e.dev /\ Extended(e, r).started = e.started
         /\ Extended(e, r).ended = e.ended /\ Extended(e, r).status = e.status
         /\ Extended(e, r).peak = Larger(e.peak, r.temp)
         /\ Extended(e, r).trough = Smaller(e.trough, r.temp)
BY DEF ExcType, ReadingType, Extended, Larger, Smaller

(* The query for the open excursion finds one if there is one. *)
LEMMA FirstOpenFound ==
  ASSUME NEW es \in Seq(ExcType), NEW x \in Devices, Single(es), OpenOf(es, x) # {}
  PROVE  FirstOpen(es, x) \in OpenOf(es, x)
<1>1. PICK i \in OpenOf(es, x) : TRUE
  OBVIOUS
<1>2. i \in 1..Len(es) /\ es[i] \in ExcType
  BY <1>1 DEF OpenOf
<1>3. \A j \in OpenOf(es, x) : es[i].started <= es[j].started
  BY <1>1, <1>2 DEF Single, ExcType
<1> QED
  BY <1>1, <1>3 DEF FirstOpen

(* A reading leaves an excursion list well typed and single, and continues it. *)
LEMMA EvaluateOK ==
  ASSUME NEW s \in Ships, NEW es \in Seq(ExcType), NEW r \in ReadingType, Single(es)
  PROVE  /\ Evaluate(s, es, r) \in Seq(ExcType)
         /\ Single(Evaluate(s, es, r))
         /\ Continues(es, Evaluate(s, es, r))
<1> DEFINE i == FirstOpen(es, r.dev)
<1> DEFINE fs == Evaluate(s, es, r)
<1>r. r.dev \in Devices /\ r.ts \in Nat /\ r.temp \in Int
  BY DEF ReadingType
<1>1. CASE OpenOf(es, r.dev) = {} /\ InBounds(s, r.temp)
  <2>1. fs = es
    BY <1>1 DEF Evaluate
  <2> QED
    BY <2>1 DEF Continues
<1>2. CASE OpenOf(es, r.dev) = {} /\ ~ InBounds(s, r.temp)
  <2>1. fs = Append(es, Opened(r))
    BY <1>2 DEF Evaluate
  <2>2. Opened(r) \in ExcType
    BY <1>r DEF Opened, ExcType
  <2>3. fs \in Seq(ExcType) /\ Len(fs) = Len(es) + 1
    BY <2>1, <2>2
  <2>4. fs[Len(es) + 1] = Opened(r) /\ \A k \in 1..Len(es) : fs[k] = es[k]
    BY <2>1, <2>2
  <2>5. Single(fs)
    <3> SUFFICES ASSUME NEW x \in Devices, NEW j \in OpenOf(fs, x), NEW k \in OpenOf(fs, x)
                 PROVE  j = k
      BY DEF Single
    <3>1. j \in 1..(Len(es) + 1) /\ k \in 1..(Len(es) + 1)
      BY <2>3 DEF OpenOf
    <3>2. CASE x = r.dev
      <4>1. \A n \in 1..Len(es) : n \notin OpenOf(fs, x)
        BY <1>2, <2>3, <2>4, <3>2 DEF OpenOf
      <4> QED
        BY <3>1, <4>1
    <3>3. CASE x # r.dev
      <4>1. Len(es) + 1 \notin OpenOf(fs, x)
        BY <2>4, <3>3 DEF OpenOf, Opened
      <4>2. j \in OpenOf(es, x) /\ k \in OpenOf(es, x)
        BY <2>4, <3>1, <4>1 DEF OpenOf
      <4> QED
        BY <4>2 DEF Single
    <3> QED
      BY <3>2, <3>3
  <2> QED
    BY <2>3, <2>4, <2>5 DEF Continues
<1>3. CASE OpenOf(es, r.dev) # {}
  <2>1. i \in OpenOf(es, r.dev)
    BY <1>3, <1>r, FirstOpenFound
  <2>2. i \in 1..Len(es) /\ es[i] \in ExcType /\ es[i].dev = r.dev /\ es[i].status = "open"
    BY <2>1 DEF OpenOf
  <2>3. PICK e \in ExcType : /\ fs = [es EXCEPT ![i] = e]
                             /\ e.dev = r.dev /\ e.started = es[i].started
    <3>1. CASE InBounds(s, r.temp)
      <4>1. fs = [es EXCEPT ![i] = Closed(es[i], r)]
        BY <1>3, <3>1, <2>2 DEF Evaluate
      <4>2. Closed(es[i], r) \in ExcType
        BY <1>r, <2>2 DEF Closed, Larger, ExcType
      <4>3. Closed(es[i], r).dev = r.dev /\ Closed(es[i], r).started = es[i].started
        BY <2>2 DEF Closed, ExcType
      <4> QED
        BY <4>1, <4>2, <4>3
    <3>2. CASE ~ InBounds(s, r.temp)
      <4>1. fs = [es EXCEPT ![i] = Extended(es[i], r)]
        BY <1>3, <3>2, <2>2 DEF Evaluate
      <4>2. Extended(es[i], r) \in ExcType
        BY <1>r, <2>2 DEF Extended, Larger, Smaller, ExcType
      <4>3. Extended(es[i], r).dev = r.dev /\ Extended(es[i], r).started = es[i].started
        BY <2>2 DEF Extended, ExcType
      <4> QED
        BY <4>1, <4>2, <4>3
    <3> QED
      BY <3>1, <3>2
  <2>4. fs \in Seq(ExcType) /\ Len(fs) = Len(es)
    BY <2>2, <2>3
  <2>5. \A k \in 1..Len(es) : fs[k] = IF k = i THEN e ELSE es[k]
    BY <2>2, <2>3
  <2>6. \A x \in Devices : OpenOf(fs, x) \subseteq OpenOf(es, x)
    BY <2>2, <2>3, <2>4, <2>5 DEF OpenOf
  <2>7. Single(fs)
    BY <2>6 DEF Single
  <2>8. Continues(es, fs)
    BY <2>2, <2>3, <2>4, <2>5 DEF Continues
  <2> QED
    BY <2>4, <2>7, <2>8
<1> QED
  BY <1>1, <1>2, <1>3

(* The events of a reading are about excursions in the list it leaves. *)
LEMMA EventsOK ==
  ASSUME NEW s \in Ships, NEW es \in Seq(ExcType), NEW r \in ReadingType, Single(es)
  PROVE  LET fs == Evaluate(s, es, r)
             evs == Events(s, es, fs, r)
         IN  /\ evs \in Seq(EventType)
             /\ \A k \in 1..Len(evs) : evs[k].exc <= Len(fs)
<1> DEFINE i == FirstOpen(es, r.dev)
<1> DEFINE fs == Evaluate(s, es, r)
<1> DEFINE evs == Events(s, es, fs, r)
<1> DEFINE Fine(ev) == ev \in EventType /\ ev.exc <= Len(fs)
<1> SUFFICES evs \in Seq(EventType) /\ \A k \in 1..Len(evs) : evs[k].exc <= Len(fs)
  OBVIOUS
<1>1. fs \in Seq(ExcType) /\ Len(es) <= Len(fs)
  BY EvaluateOK DEF Continues
<1>2. CASE OpenOf(es, r.dev) = {} /\ ~ InBounds(s, r.temp)
  <2>1. evs = <<Event("opened", Len(fs))>>
    BY <1>2 DEF Events
  <2>2. fs = Append(es, Opened(r))
    BY <1>2 DEF Evaluate
  <2>3. Len(fs) \in Nat \ {0}
    BY <1>1, <2>2
  <2>4. Fine(Event("opened", Len(fs)))
    BY <2>3 DEF Event, EventType
  <2> HIDE DEF evs, fs
  <2> QED
    BY <2>1, <2>4
<1>3. CASE OpenOf(es, r.dev) # {} /\ InBounds(s, r.temp)
  <2>1. i \in 1..Len(es)
    BY <1>3, FirstOpenFound DEF OpenOf, ReadingType
  <2> DEFINE closed == Event("closed", i)
  <2> DEFINE breach == Event("budget_breached", i)
  <2>2. Fine(closed) /\ Fine(breach)
    BY <1>1, <2>1 DEF Event, EventType
  <2>3. evs = IF CrossesBudget(s, fs, i, r.ts) THEN <<closed, breach>> ELSE <<closed>>
    BY <1>3 DEF Events
  <2> HIDE DEF i, evs, fs, closed, breach
  <2> QED
    BY <2>2, <2>3
<1>4. CASE OpenOf(es, r.dev) = {} <=> InBounds(s, r.temp)
  <2>1. evs = <<>>
    BY <1>4 DEF Events
  <2> HIDE DEF evs
  <2> QED
    BY <2>1
<1> QED
  BY <1>2, <1>3, <1>4

-----------------------------------------------------------------------------
(* The inductive invariant: types, and no two open excursions of a device. *)
SingleInv == TypeOK /\ \A s \in Ships : Single(excs[s])

LEMMA InitSingle == Init => SingleInv
<1> SUFFICES ASSUME Init PROVE SingleInv
  OBVIOUS
<1>1. \A s \in Ships : excs[s] = <<>> /\ outbox[s] = <<>>
  BY DEF Init
<1>2. TypeOK
  BY <1>1 DEF Init, TypeOK
<1>3. \A s \in Ships : Single(excs[s])
  BY <1>1 DEF Single, OpenOf
<1> QED
  BY <1>2, <1>3 DEF SingleInv

(* Evaluating a reading preserves it, shipment by shipment. *)
LEMMA EvaluateSingle ==
  ASSUME SingleInv, NEW r \in Readings, EvaluateReading(r)
  PROVE  /\ SingleInv'
         /\ \A s \in Ships : Continues(excs[s], excs'[s])
<1>0. r \in ReadingType
  BY ShipmentsAssumption
<1>1. ASSUME NEW s \in Ships
      PROVE  /\ excs'[s] \in Seq(ExcType) /\ Single(excs'[s])
             /\ Continues(excs[s], excs'[s])
             /\ outbox'[s] \in Seq(EventType)
             /\ \A k \in 1..Len(outbox'[s]) : outbox'[s][k].exc <= Len(excs'[s])
  <2>0. /\ excs[s] \in Seq(ExcType) /\ Single(excs[s]) /\ outbox[s] \in Seq(EventType)
        /\ \A k \in 1..Len(outbox[s]) : outbox[s][k].exc <= Len(excs[s])
    BY DEF SingleInv, TypeOK
  <2>1. CASE s \in InTransit(r)
    <3> DEFINE fs == Evaluate(s, excs[s], r)
    <3> DEFINE evs == Events(s, excs[s], fs, r)
    <3>1. excs'[s] = fs /\ outbox'[s] = outbox[s] \o evs
      BY <2>1 DEF EvaluateReading
    <3>2. fs \in Seq(ExcType) /\ Single(fs) /\ Continues(excs[s], fs)
      BY <1>0, <2>0, EvaluateOK
    <3>3. evs \in Seq(EventType) /\ \A k \in 1..Len(evs) : evs[k].exc <= Len(fs)
      BY <1>0, <2>0, EventsOK
    <3> HIDE DEF fs, evs
    <3>4. Len(excs[s]) <= Len(fs) /\ Len(excs[s]) \in Nat /\ Len(fs) \in Nat
      BY <2>0, <3>2 DEF Continues
    <3>5. outbox'[s] \in Seq(EventType)
      BY <2>0, <3>1, <3>3
    <3>6. ASSUME NEW k \in 1..Len(outbox'[s]) PROVE outbox'[s][k].exc <= Len(fs)
      <4>1. CASE k <= Len(outbox[s])
        <5>1. outbox'[s][k] = outbox[s][k] /\ k \in 1..Len(outbox[s])
          BY <2>0, <3>1, <3>3, <3>6, <4>1
        <5>2. outbox[s][k] \in EventType
          BY <2>0, <5>1
        <5>3. outbox[s][k].exc \in Nat
          BY <5>2 DEF EventType
        <5> QED
          BY <2>0, <3>4, <5>1, <5>3
      <4>2. CASE k > Len(outbox[s])
        <5>1. /\ k - Len(outbox[s]) \in 1..Len(evs)
              /\ outbox'[s][k] = evs[k - Len(outbox[s])]
          BY <2>0, <3>1, <3>3, <3>6, <4>2
        <5> QED
          BY <3>3, <5>1
      <4> QED
        BY <2>0, <3>5, <3>6, <4>1, <4>2
    <3> QED
      BY <3>1, <3>2, <3>5, <3>6
  <2>2. CASE s \notin InTransit(r)
    <3>1. excs'[s] = excs[s] /\ outbox'[s] = outbox[s]
      BY <2>2 DEF EvaluateReading
    <3> QED
      BY <2>0, <3>1 DEF Continues
  <2> QED
    BY <2>1, <2>2
<1>2. TypeOK'
  <2>1. phase' \in [Ships -> {"none", "in_transit", "complete"}]
    BY DEF EvaluateReading, SingleInv, TypeOK
  <2>2. excs' \in [Ships -> Seq(ExcType)] /\ outbox' \in [Ships -> Seq(EventType)]
    BY <1>1 DEF EvaluateReading
  <2>3. stored' \subseteq Readings /\ seen' \in [Ships -> SUBSET Readings]
    BY DEF EvaluateReading, SingleInv, TypeOK
  <2>4. ordered' \in [Ships -> BOOLEAN]
    <3>1. \A s \in Ships : ordered[s] \in BOOLEAN /\ (ordered[s] /\ Newest(s, r)) \in BOOLEAN
      BY DEF SingleInv, TypeOK, Newest
    <3> QED
      BY <3>1 DEF EvaluateReading
  <2> QED
    BY <1>1, <2>1, <2>2, <2>3, <2>4 DEF TypeOK
<1> QED
  BY <1>1, <1>2 DEF SingleInv

LEMMA StepSingle ==
  ASSUME SingleInv, [Next]_vars
  PROVE  SingleInv' /\ \A s \in Ships : Continues(excs[s], excs'[s])
<1>1. ASSUME NEW s \in Ships, CreateShipment(s) \/ CompleteShipment(s)
      PROVE  SingleInv' /\ \A x \in Ships : Continues(excs[x], excs'[x])
  <2>1. phase' \in [Ships -> {"none", "in_transit", "complete"}] /\ excs' = excs
        /\ outbox' = outbox /\ stored' = stored /\ seen' = seen /\ ordered' = ordered
    BY <1>1 DEF CreateShipment, CompleteShipment, SingleInv, TypeOK
  <2> QED
    BY <2>1 DEF SingleInv, TypeOK, Continues
<1>2. ASSUME NEW r \in Readings, EvaluateReading(r)
      PROVE  SingleInv' /\ \A s \in Ships : Continues(excs[s], excs'[s])
  BY <1>2, EvaluateSingle
<1>3. CASE UNCHANGED vars
  BY <1>3 DEF vars, SingleInv, TypeOK, Single, OpenOf, Continues
<1> QED
  BY <1>1, <1>2, <1>3 DEF Next

LEMMA SingleInvariant == Spec => []SingleInv
<1>1. SingleInv /\ [Next]_vars => SingleInv'
  BY StepSingle
<1> QED
  BY InitSingle, <1>1, PTL DEF Spec

(* The tables stay well typed, and no event dangles. *)
THEOREM TypeCorrect == Spec => []TypeOK
<1>1. SingleInv => TypeOK
  BY DEF SingleInv
<1> QED
  BY SingleInvariant, <1>1, PTL

(* Never two open excursions of one device in a shipment, for any profiles,  *)
(* readings and order of arrival.                                           *)
THEOREM OneOpenAlways == Spec => []OneOpen
<1>1. SingleInv => OneOpen
  BY DEF SingleInv, OneOpen, Single, OpenOf, OpenAt
<1> QED
  BY SingleInvariant, <1>1, PTL

(* The action of EvidenceKept. *)
KeepsEvidence ==
  \A s \in Ships :
    /\ \A i \in DOMAIN excs[s] :
         /\ i \in DOMAIN excs'[s]
         /\ excs'[s][i].started = excs[s][i].started
         /\ excs[s][i].status = "closed" => excs'[s][i] = excs[s][i]
    /\ phase[s] = "complete" => excs'[s] = excs[s]

LEMMA StepKept ==
  ASSUME SingleInv, [Next]_vars
  PROVE  KeepsEvidence
<1>1. \A s \in Ships : excs[s] \in Seq(ExcType) /\ excs'[s] \in Seq(ExcType)
  BY StepSingle DEF SingleInv, TypeOK
<1>2. ASSUME NEW s \in Ships, NEW i \in DOMAIN excs[s]
      PROVE  /\ i \in DOMAIN excs'[s]
             /\ excs'[s][i].started = excs[s][i].started
             /\ excs[s][i].status = "closed" => excs'[s][i] = excs[s][i]
  <2>1. Continues(excs[s], excs'[s])
    BY StepSingle
  <2> QED
    BY <1>1, <1>2, <2>1 DEF Continues
<1>3. ASSUME NEW s \in Ships, phase[s] = "complete" PROVE excs'[s] = excs[s]
  <2>1. CASE \E x \in Ships : CreateShipment(x) \/ CompleteShipment(x)
    BY <2>1 DEF CreateShipment, CompleteShipment
  <2>2. CASE \E r \in Readings : EvaluateReading(r)
    <3>1. PICK r \in Readings : EvaluateReading(r)
      BY <2>2
    <3>2. s \notin InTransit(r)
      BY <1>3 DEF InTransit
    <3> QED
      BY <3>1, <3>2 DEF EvaluateReading
  <2>3. CASE UNCHANGED vars
    BY <2>3 DEF vars
  <2> QED
    BY <2>1, <2>2, <2>3 DEF Next
<1> QED
  BY <1>2, <1>3 DEF KeepsEvidence

(* No step loses or moves an excursion, alters a closed one, or touches those *)
(* of a completed shipment.                                                 *)
THEOREM EvidenceIsKept == Spec => EvidenceKept
<1>1. SingleInv /\ [Next]_vars => [KeepsEvidence]_vars
  BY StepKept
<1> QED
  BY SingleInvariant, <1>1, PTL DEF Spec, EvidenceKept, KeepsEvidence

-----------------------------------------------------------------------------
(* What SpansSound says of one excursion e of shipment s, given the readings *)
(* sn evaluated against it.                                                 *)
SoundExc(s, e, sn) ==
  /\ e.status = "closed" => e.started <= e.ended
  /\ \A t \in {e.peak, e.trough} :
       ~ InBounds(s, t) /\ \E r \in sn : r.dev = e.dev /\ r.temp = t

(* A reading leaves the excursions of a shipment sound. *)
LEMMA EvaluateSound ==
  ASSUME NEW s \in Ships, NEW es \in Seq(ExcType), NEW r \in ReadingType, NEW sn,
         Single(es),
         \A i \in 1..Len(es) : SoundExc(s, es[i], sn)
  PROVE  LET fs == Evaluate(s, es, r)
         IN  \A i \in 1..Len(fs) : SoundExc(s, fs[i], sn \union {r})
<1> DEFINE i == FirstOpen(es, r.dev)
<1> DEFINE fs == Evaluate(s, es, r)
<1> SUFFICES ASSUME NEW k \in 1..Len(fs) PROVE SoundExc(s, fs[k], sn \union {r})
  OBVIOUS
<1>r. r.dev \in Devices /\ r.ts \in Nat /\ r.temp \in Int
  BY DEF ReadingType
<1>0. \A j \in 1..Len(es) : SoundExc(s, es[j], sn \union {r})
  BY DEF SoundExc
<1>1. CASE OpenOf(es, r.dev) = {} /\ InBounds(s, r.temp)
  BY <1>0, <1>1 DEF Evaluate
<1>2. CASE OpenOf(es, r.dev) = {} /\ ~ InBounds(s, r.temp)
  <2>1. fs = Append(es, Opened(r))
    BY <1>2 DEF Evaluate
  <2>2. SoundExc(s, Opened(r), sn \union {r})
    BY <1>2 DEF SoundExc, Opened
  <2> HIDE DEF fs
  <2>3. \/ k \in 1..Len(es) /\ fs[k] = es[k]
        \/ fs[k] = Opened(r)
    BY <2>1
  <2> QED
    BY <1>0, <2>2, <2>3
<1>3. CASE OpenOf(es, r.dev) # {}
  <2>1. i \in 1..Len(es) /\ es[i] \in ExcType /\ es[i].dev = r.dev /\ es[i].status = "open"
    BY <1>3, <1>r, FirstOpenFound DEF OpenOf
  <2>2. CASE InBounds(s, r.temp)
    <3>1. fs = [es EXCEPT ![i] = Closed(es[i], r)]
      BY <1>3, <2>2, <2>1 DEF Evaluate
    <3>2. SoundExc(s, Closed(es[i], r), sn \union {r})
      <4>1. SoundExc(s, es[i], sn \union {r})
        BY <1>0, <2>1
      <4>2. /\ Closed(es[i], r).started <= Closed(es[i], r).ended
            /\ Closed(es[i], r).dev = es[i].dev
            /\ Closed(es[i], r).peak = es[i].peak /\ Closed(es[i], r).trough = es[i].trough
        <5>1. es[i].started \in Nat
          BY <2>1 DEF ExcType
        <5>2. es[i].started <= Larger(r.ts, es[i].started)
          BY <1>r, <5>1 DEF Larger
        <5> QED
          BY <2>1, <5>2, ClosedFields
      <4> QED
        BY <4>1, <4>2 DEF SoundExc
    <3> HIDE DEF i, fs
    <3>3. k \in 1..Len(es) /\ fs[k] = IF k = i THEN Closed(es[i], r) ELSE es[k]
      BY <3>1
    <3> QED
      BY <1>0, <3>2, <3>3
  <2>3. CASE ~ InBounds(s, r.temp)
    <3>1. fs = [es EXCEPT ![i] = Extended(es[i], r)]
      BY <1>3, <2>3, <2>1 DEF Evaluate
    <3>2. SoundExc(s, Extended(es[i], r), sn \union {r})
      <4>1. SoundExc(s, es[i], sn \union {r})
        BY <1>0, <2>1
      <4>2. /\ Extended(es[i], r).status = "open"
            /\ Extended(es[i], r).dev = r.dev
            /\ Extended(es[i], r).peak \in {es[i].peak, r.temp}
            /\ Extended(es[i], r).trough \in {es[i].trough, r.temp}
        BY <2>1, ExtendedFields DEF Larger, Smaller
      <4>3. \A t \in {es[i].peak, es[i].trough, r.temp} :
              ~ InBounds(s, t) /\ \E q \in sn \union {r} : q.dev = r.dev /\ q.temp = t
        BY <4>1, <2>1, <2>3 DEF SoundExc
      <4> QED
        BY <4>2, <4>3 DEF SoundExc
    <3> HIDE DEF i, fs
    <3>3. k \in 1..Len(es) /\ fs[k] = IF k = i THEN Extended(es[i], r) ELSE es[k]
      BY <3>1
    <3> QED
      BY <1>0, <3>2, <3>3
  <2> QED
    BY <2>2, <2>3
<1> QED
  BY <1>1, <1>2, <1>3

(* Late data never makes a span negative, and the extremes of an excursion    *)
(* are temperatures its own device measured out of the shipment's bounds.    *)
THEOREM SpansAreSound == Spec => []SpansSound
<1>1. Init => SpansSound
  BY DEF Init, SpansSound
<1>2. ASSUME SingleInv, SpansSound, [Next]_vars PROVE SpansSound'
  <2>1. ASSUME NEW x \in Ships, CreateShipment(x) \/ CompleteShipment(x) PROVE SpansSound'
    BY <1>2, <2>1 DEF CreateShipment, CompleteShipment, SpansSound
  <2>2. ASSUME NEW r \in Readings, EvaluateReading(r) PROVE SpansSound'
    <3>0. r \in ReadingType
      BY ShipmentsAssumption
    <3>1. ASSUME NEW s \in Ships
          PROVE  \A k \in 1..Len(excs'[s]) : SoundExc(s, excs'[s][k], seen'[s])
      <4>1. /\ excs[s] \in Seq(ExcType) /\ Single(excs[s])
            /\ \A k \in 1..Len(excs[s]) : SoundExc(s, excs[s][k], seen[s])
        BY <1>2 DEF SingleInv, TypeOK, SpansSound, SoundExc
      <4>2. CASE s \in InTransit(r)
        <5>1. excs'[s] = Evaluate(s, excs[s], r) /\ seen'[s] = seen[s] \union {r}
          BY <2>2, <4>2 DEF EvaluateReading
        <5> DEFINE fs == Evaluate(s, excs[s], r)
        <5>2. \A k \in 1..Len(fs) : SoundExc(s, fs[k], seen[s] \union {r})
          BY <3>0, <4>1, EvaluateSound
        <5> HIDE DEF fs
        <5> QED
          BY <5>1, <5>2 DEF fs
      <4>3. CASE s \notin InTransit(r)
        <5>1. excs'[s] = excs[s] /\ seen'[s] = seen[s]
          BY <2>2, <4>3 DEF EvaluateReading
        <5> QED
          BY <4>1, <5>1
      <4> QED
        BY <4>2, <4>3
    <3>2. \A s \in Ships : excs'[s] \in Seq(ExcType)
      BY <1>2, StepSingle DEF SingleInv, TypeOK
    <3> QED
      BY <3>1, <3>2 DEF SpansSound, SoundExc
  <2>3. CASE UNCHANGED vars
    BY <1>2, <2>3 DEF vars, SpansSound, InBounds
  <2> QED
    BY <1>2, <2>1, <2>2, <2>3 DEF Next
<1> QED
  BY <1>1, <1>2, SingleInvariant, PTL DEF Spec

-----------------------------------------------------------------------------
(* The sum that total_excursion_minutes computes. *)
Spans(es, t) == [i \in DOMAIN es |-> Span(es[i], t)]

LEMMA TotalIsSum ==
  ASSUME NEW es, NEW t
  PROVE  TotalSpan(es, t) = SumFunctionOnSet(Spans(es, t), DOMAIN es)
<1>1. DOMAIN Spans(es, t) = DOMAIN es
  BY DEF Spans
<1> QED
  BY <1>1 DEF TotalSpan, SumFunction, Spans

(* A span is a number of clock units; an open excursion has lasted for none   *)
(* at time 0, and the longer the later it is looked at; a closed one has the  *)
(* same length at any time.                                                 *)
LEMMA SpanNumber ==
  ASSUME NEW e \in ExcType, NEW t \in Nat
  PROVE  /\ Span(e, t) \in Nat
         /\ e.status = "open" => Span(e, 0) = 0
         /\ \A u \in Nat : t <= u => Span(e, t) <= Span(e, u)
         /\ \A u \in Nat : e.status = "closed" => Span(e, t) = Span(e, u)
BY DEF Span, Larger, ExcType

LEMMA SpansNumbers ==
  ASSUME NEW es \in Seq(ExcType), NEW t \in Nat
  PROVE  /\ IsFiniteSet(DOMAIN es)
         /\ \A i \in DOMAIN es : es[i] \in ExcType /\ Spans(es, t)[i] = Span(es[i], t)
                                 /\ Spans(es, t)[i] \in Nat
<1>1. DOMAIN es = 1..Len(es) /\ Len(es) \in Nat
  OBVIOUS
<1>2. IsFiniteSet(DOMAIN es)
  BY <1>1, FS_Interval
<1>3. ASSUME NEW i \in DOMAIN es PROVE es[i] \in ExcType /\ Span(es[i], t) \in Nat
  <2>1. es[i] \in ExcType
    OBVIOUS
  <2> QED
    BY <2>1, SpanNumber
<1> QED
  BY <1>2, <1>3 DEF Spans

(* The total is the span of any one excursion and the rest. *)
LEMMA TotalSplit ==
  ASSUME NEW es \in Seq(ExcType), NEW t \in Nat, NEW i \in DOMAIN es
  PROVE  /\ TotalSpan(es, t) = Span(es[i], t) + SumFunctionOnSet(Spans(es, t), DOMAIN es \ {i})
         /\ SumFunctionOnSet(Spans(es, t), DOMAIN es \ {i}) \in Int
<1> DEFINE S == DOMAIN es
           f == Spans(es, t)
<1>1. IsFiniteSet(S) /\ \A j \in S : f[j] \in Int
  BY SpansNumbers
<1>2. f[i] = Span(es[i], t)
  BY SpansNumbers
<1>3. IsFiniteSet(S \ {i}) /\ \A j \in S \ {i} : f[j] \in Int
  BY <1>1, FS_RemoveElement
<1> HIDE DEF f
<1>4. SumFunctionOnSet(f, S) = f[i] + SumFunctionOnSet(f, S \ {i})
  BY <1>1, SumRemove
<1>5. SumFunctionOnSet(f, S \ {i}) \in Int
  BY <1>3, SumPicked
<1> QED
  BY <1>2, <1>4, <1>5, TotalIsSum DEF f

LEMMA TotalNumber ==
  ASSUME NEW es \in Seq(ExcType), NEW t \in Nat
  PROVE  TotalSpan(es, t) \in Int
<1>1. IsFiniteSet(DOMAIN es) /\ \A j \in DOMAIN es : Spans(es, t)[j] \in Int
  BY SpansNumbers
<1> QED
  BY <1>1, SumPicked, TotalIsSum

(* The total never shrinks with time, and stands still if nothing is open. *)
LEMMA TotalGrows ==
  ASSUME NEW es \in Seq(ExcType), NEW t \in Nat, NEW u \in Nat, t <= u
  PROVE  /\ TotalSpan(es, t) \in Int
         /\ TotalSpan(es, t) <= TotalSpan(es, u)
         /\ (\A i \in DOMAIN es : es[i].status = "closed") => TotalSpan(es, t) = TotalSpan(es, u)
<1> DEFINE S == DOMAIN es
           f == Spans(es, t)
           g == Spans(es, u)
<1>1. IsFiniteSet(S) /\ \A j \in S : f[j] \in Int /\ g[j] \in Int /\ f[j] <= g[j]
  <2>1. IsFiniteSet(S) /\ \A j \in S : f[j] \in Int /\ f[j] = Span(es[j], t)
    BY SpansNumbers
  <2>2. \A j \in S : g[j] \in Int /\ g[j] = Span(es[j], u)
    BY SpansNumbers
  <2>3. \A j \in S : es[j] \in ExcType
    OBVIOUS
  <2>4. \A j \in S : Span(es[j], t) <= Span(es[j], u)
    BY <2>3, SpanNumber
  <2> HIDE DEF f, g
  <2> QED
    BY <2>1, <2>2, <2>4
<1>2. ASSUME \A i \in DOMAIN es : es[i].status = "closed"
      PROVE  \A j \in S : g[j] = f[j]
  <2> TAKE j \in S
  <2>1. es[j] \in ExcType /\ f[j] = Span(es[j], t) /\ g[j] = Span(es[j], u)
    BY SpansNumbers
  <2>2. Span(es[j], t) = Span(es[j], u)
    BY <1>2, <2>1, SpanNumber
  <2> QED
    BY <2>1, <2>2
<1> HIDE DEF f, g
<1>3. SumFunctionOnSet(f, S) <= SumFunctionOnSet(g, S)
  BY <1>1, SumMonotone
<1>4. SumFunctionOnSet(f, S) \in Int
  BY <1>1, SumPicked
<1>5. ASSUME \A i \in DOMAIN es : es[i].status = "closed"
      PROVE  SumFunctionOnSet(f, S) = SumFunctionOnSet(g, S)
  <2>1. \A j \in S : f[j] \in Int /\ g[j] = f[j]
    BY <1>1, <1>2, <1>5
  <2> QED
    BY <1>1, <2>1, SumSame
<1> QED
  BY <1>3, <1>4, <1>5, TotalIsSum DEF f, g

(* An excursion that has lasted for no time adds nothing. *)
LEMMA TotalAppend ==
  ASSUME NEW es \in Seq(ExcType), NEW e \in ExcType, NEW t \in Nat, Span(e, t) = 0
  PROVE  TotalSpan(Append(es, e), t) = TotalSpan(es, t)
<1> DEFINE fs == Append(es, e)
           n == Len(es) + 1
           f == Spans(es, t)
           g == Spans(fs, t)
<1>0. DOMAIN es = 1..Len(es) /\ Len(es) \in Nat /\ DOMAIN fs = 1..(Len(es) + 1)
  OBVIOUS
<1>1. fs \in Seq(ExcType) /\ n \in DOMAIN fs /\ DOMAIN fs \ {n} = DOMAIN es /\ fs[n] = e
  <2>1. fs \in Seq(ExcType) /\ fs[n] = e
    OBVIOUS
  <2>2. n \in DOMAIN fs /\ DOMAIN fs \ {n} = DOMAIN es
    BY <1>0
  <2> QED
    BY <2>1, <2>2
<1>2. \A j \in DOMAIN es : fs[j] = es[j] /\ j \in DOMAIN fs
  OBVIOUS
<1> HIDE DEF fs, n
<1>3. IsFiniteSet(DOMAIN es) /\ \A j \in DOMAIN es : g[j] \in Int /\ f[j] = g[j]
  BY <1>1, <1>2, SpansNumbers
<1>4. /\ TotalSpan(fs, t) = Span(fs[n], t) + SumFunctionOnSet(g, DOMAIN fs \ {n})
      /\ SumFunctionOnSet(g, DOMAIN fs \ {n}) \in Int
  BY <1>1, TotalSplit
<1> HIDE DEF f, g
<1>5. SumFunctionOnSet(g, DOMAIN es) = SumFunctionOnSet(f, DOMAIN es)
  BY <1>3, SumSame
<1> QED
  BY <1>1, <1>4, <1>5, TotalIsSum DEF fs, f

(* Replacing an excursion changes the total by the difference of the spans. *)
LEMMA TotalReplace ==
  ASSUME NEW es \in Seq(ExcType), NEW i \in DOMAIN es, NEW e \in ExcType, NEW t \in Nat
  PROVE  TotalSpan([es EXCEPT ![i] = e], t) - Span(e, t) = TotalSpan(es, t) - Span(es[i], t)
<1> DEFINE fs == [es EXCEPT ![i] = e]
           S == DOMAIN es \ {i}
           f == Spans(es, t)
           g == Spans(fs, t)
<1>1. fs \in Seq(ExcType) /\ DOMAIN fs = DOMAIN es /\ fs[i] = e
  OBVIOUS
<1>2. \A j \in S : fs[j] = es[j]
  OBVIOUS
<1> HIDE DEF fs
<1>3. IsFiniteSet(DOMAIN es) /\ \A j \in S : f[j] \in Int /\ g[j] = f[j]
  BY <1>1, <1>2, SpansNumbers
<1>4. IsFiniteSet(S)
  BY <1>3, FS_RemoveElement
<1>5. /\ TotalSpan(fs, t) = Span(e, t) + SumFunctionOnSet(g, S)
      /\ TotalSpan(es, t) = Span(es[i], t) + SumFunctionOnSet(f, S)
      /\ SumFunctionOnSet(f, S) \in Int /\ SumFunctionOnSet(g, S) \in Int
  BY <1>1, TotalSplit
<1>6. Span(e, t) \in Nat /\ Span(es[i], t) \in Nat
  <2>1. es[i] \in ExcType
    OBVIOUS
  <2> QED
    BY <2>1, SpanNumber
<1> HIDE DEF f, g, S
<1>7. SumFunctionOnSet(f, S) = SumFunctionOnSet(g, S)
  BY <1>3, <1>4, SumSame
<1> QED
  BY <1>5, <1>6, <1>7 DEF fs

-----------------------------------------------------------------------------
(* What BreachExact says of one shipment with one device: its excursions are *)
(* of that device, so only one can be open, and the total at the close of it *)
(* is what the closed ones will count for good.                             *)
OwnExcs(s, es) == \A i \in DOMAIN es : es[i].dev \in DevicesOf[s]
BreachesIn(ob) == {k \in DOMAIN ob : ob[k].kind = "budget_breached"}
Told(s, es, ob) ==
  Cardinality(BreachesIn(ob)) = IF TotalSpan(es, 0) > Budget[s] * Minute THEN 1 ELSE 0

BreachInv ==
  /\ SingleInv
  /\ \A s \in Ships : OwnExcs(s, excs[s])
  /\ BreachExact

(* Events other than a breach are not counted; a breach is counted once. *)
LEMMA CountEvents ==
  ASSUME NEW ob \in Seq(EventType), NEW evs \in Seq(EventType)
  PROVE  LET n == Len(ob) IN
         /\ IsFiniteSet(BreachesIn(ob))
         /\ (\A k \in DOMAIN evs : evs[k].kind # "budget_breached") =>
              BreachesIn(ob \o evs) = BreachesIn(ob)
         /\ (Len(evs) = 2 /\ evs[1].kind # "budget_breached" /\ evs[2].kind = "budget_breached") =>
              Cardinality(BreachesIn(ob \o evs)) = Cardinality(BreachesIn(ob)) + 1
<1> DEFINE n == Len(ob)
           oe == ob \o evs
<1>1. /\ DOMAIN ob = 1..n /\ n \in Nat /\ DOMAIN evs = 1..Len(evs) /\ Len(evs) \in Nat
      /\ DOMAIN oe = 1..(n + Len(evs))
      /\ \A k \in 1..n : oe[k] = ob[k]
      /\ \A k \in 1..Len(evs) : oe[n + k] = evs[k]
  OBVIOUS
<1>2. IsFiniteSet(BreachesIn(ob))
  <2>1. IsFiniteSet(1..n) /\ BreachesIn(ob) \subseteq 1..n
    BY <1>1, FS_Interval DEF BreachesIn
  <2> QED
    BY <2>1, FS_Subset
<1> HIDE DEF n, oe
<1>3. \A k \in (n + 1)..(n + Len(evs)) : k - n \in 1..Len(evs) /\ oe[k] = evs[k - n]
  <2> TAKE k \in (n + 1)..(n + Len(evs))
  <2>1. k - n \in 1..Len(evs) /\ n + (k - n) = k
    BY <1>1
  <2>2. oe[n + (k - n)] = evs[k - n]
    BY <1>1, <2>1
  <2> QED
    BY <2>1, <2>2
<1>4. ASSUME \A k \in DOMAIN evs : evs[k].kind # "budget_breached"
      PROVE  BreachesIn(oe) = BreachesIn(ob)
  <2>1. \A k \in (n + 1)..(n + Len(evs)) : oe[k].kind # "budget_breached"
    BY <1>1, <1>3, <1>4
  <2>2. \A k \in 1..(n + Len(evs)) : k \in 1..n \/ k \in (n + 1)..(n + Len(evs))
    BY <1>1
  <2>3. 1..n \subseteq 1..(n + Len(evs))
    BY <1>1
  <2> QED
    BY <1>1, <2>1, <2>2, <2>3 DEF BreachesIn
<1>5. ASSUME Len(evs) = 2, evs[1].kind # "budget_breached", evs[2].kind = "budget_breached"
      PROVE  Cardinality(BreachesIn(oe)) = Cardinality(BreachesIn(ob)) + 1
  <2>1. oe[n + 1].kind # "budget_breached" /\ oe[n + 2].kind = "budget_breached"
    BY <1>1, <1>5
  <2>2. \A k : k \in 1..(n + 2) <=> k \in 1..n \/ k = n + 1 \/ k = n + 2
    BY <1>1
  <2>3. BreachesIn(oe) = BreachesIn(ob) \union {n + 2} /\ n + 2 \notin BreachesIn(ob)
    BY <1>1, <1>5, <2>1, <2>2 DEF BreachesIn
  <2> QED
    BY <1>2, <2>3, FS_AddElement
<1> QED
  BY <1>2, <1>4, <1>5 DEF oe

(* A reading of the shipment's own device: if it closes the excursion, the    *)
(* total is that of the closed ones before, plus the span of this one.       *)
LEMMA EvaluateTold ==
  ASSUME NEW s \in Ships, NEW x \in Devices, DevicesOf[s] = {x},
         NEW es \in Seq(ExcType), Single(es), OwnExcs(s, es),
         NEW ob \in Seq(EventType), Told(s, es, ob),
         NEW r \in ReadingType, r.dev = x
  PROVE  LET fs == Evaluate(s, es, r)
         IN  Told(s, fs, ob \o Events(s, es, fs, r))
<1> DEFINE i == FirstOpen(es, r.dev)
           fs == Evaluate(s, es, r)
           evs == Events(s, es, fs, r)
           B == Budget[s] * Minute
<1> SUFFICES Told(s, fs, ob \o evs)
  OBVIOUS
<1>r. r.dev \in Devices /\ r.ts \in Nat /\ r.temp \in Int
  BY DEF ReadingType
<1>f. fs \in Seq(ExcType) /\ evs \in Seq(EventType)
  BY EvaluateOK, EventsOK
<1>B. B \in Int
  BY ShipmentsAssumption
<1>1. CASE OpenOf(es, r.dev) = {} /\ InBounds(s, r.temp)
  <2>1. fs = es /\ evs = <<>>
    BY <1>1 DEF Evaluate, Events
  <2> HIDE DEF fs, evs
  <2> QED
    BY <2>1
<1>2. CASE OpenOf(es, r.dev) = {} /\ ~ InBounds(s, r.temp)
  <2>1. fs = Append(es, Opened(r)) /\ evs = <<Event("opened", Len(fs))>>
    BY <1>2 DEF Evaluate, Events
  <2>2. Opened(r) \in ExcType /\ Opened(r).status = "open"
    BY <1>r DEF Opened, ExcType
  <2>3. TotalSpan(fs, 0) = TotalSpan(es, 0)
    <3> DEFINE e == Opened(r)
    <3> HIDE DEF e, fs, evs, i, B
    <3>1. fs = Append(es, e) /\ e \in ExcType /\ e.status = "open"
      BY <2>1, <2>2 DEF e
    <3>2. 0 \in Nat
      OBVIOUS
    <3>3. Span(e, 0) = 0
      BY <3>1, <3>2, SpanNumber
    <3>4. TotalSpan(Append(es, e), 0) = TotalSpan(es, 0)
      BY <3>1, <3>2, <3>3, TotalAppend
    <3> QED
      BY <3>1, <3>4
  <2> HIDE DEF fs
  <2>4. \A k \in DOMAIN evs : evs[k].kind # "budget_breached"
    BY <2>1 DEF Event
  <2> HIDE DEF evs
  <2>5. BreachesIn(ob \o evs) = BreachesIn(ob)
    BY <1>f, <2>4, CountEvents
  <2> QED
    BY <2>3, <2>5 DEF Told
<1>3. CASE OpenOf(es, r.dev) # {}
  <2>1. i \in 1..Len(es) /\ es[i] \in ExcType /\ es[i].dev = x /\ es[i].status = "open"
    BY <1>3, <1>r, FirstOpenFound DEF OpenOf
  <2>2. \A j \in DOMAIN es : j # i => es[j].status = "closed"
    <3> TAKE j \in DOMAIN es
    <3>1. es[j] \in ExcType /\ es[j].dev = x
      BY DEF OwnExcs
    <3>2. es[j].status = "open" => j = i
      BY <2>1, <3>1 DEF Single, OpenOf
    <3> QED
      BY <3>1, <3>2 DEF ExcType
  <2>3. Span(es[i], 0) = 0
    BY <2>1, SpanNumber
  <2>4. CASE InBounds(s, r.temp)
    <3> DEFINE e == Closed(es[i], r)
    <3>1. fs = [es EXCEPT ![i] = e]
      BY <1>3, <2>1, <2>4 DEF Evaluate
    <3>2. e \in ExcType /\ e.status = "closed"
      BY <1>r, <2>1 DEF Closed, Larger, ExcType
    <3>3. evs = IF CrossesBudget(s, fs, i, r.ts)
                  THEN <<Event("closed", i), Event("budget_breached", i)>>
                  ELSE <<Event("closed", i)>>
      BY <1>3, <2>4 DEF Events
    <3> HIDE DEF i, e, fs
    <3>4. fs[i] = e /\ \A j \in DOMAIN fs : fs[j].status = "closed"
      BY <2>1, <2>2, <3>1, <3>2
    <3>5. TotalSpan(fs, 0) - Span(e, 0) = TotalSpan(es, 0)
      <4>0. i \in DOMAIN es
        BY <2>1
      <4>1. TotalSpan([es EXCEPT ![i] = e], 0) - Span(e, 0) = TotalSpan(es, 0) - Span(es[i], 0)
        BY <3>2, <4>0, TotalReplace
      <4>2. TotalSpan(es, 0) \in Int
        BY TotalGrows
      <4> QED
        BY <2>3, <3>1, <4>1, <4>2
    <3>6. TotalSpan(fs, r.ts) = TotalSpan(fs, 0) /\ TotalSpan(fs, 0) \in Int
      <4>1. 0 \in Nat /\ 0 <= r.ts
        BY <1>r
      <4>2. TotalSpan(fs, 0) = TotalSpan(fs, r.ts) /\ TotalSpan(fs, 0) \in Int
        BY <1>r, <1>f, <3>4, <4>1, TotalGrows
      <4> QED
        BY <4>2
    <3>7. Span(e, r.ts) = Span(e, 0) /\ Span(e, 0) \in Nat
      BY <1>r, <3>2, SpanNumber
    <3> HIDE DEF B
    <3>8. CrossesBudget(s, fs, i, r.ts) <=> TotalSpan(es, 0) <= B /\ B < TotalSpan(fs, 0)
      BY <3>4, <3>5, <3>6, <3>7 DEF CrossesBudget, B
    <3>9. TotalSpan(es, 0) <= TotalSpan(fs, 0)
      BY <3>5, <3>6, <3>7
    <3>10. CASE TotalSpan(es, 0) <= B /\ B < TotalSpan(fs, 0)
      <4>1. evs = <<Event("closed", i), Event("budget_breached", i)>>
        BY <3>3, <3>8, <3>10
      <4>2. Len(evs) = 2 /\ evs[1].kind # "budget_breached" /\ evs[2].kind = "budget_breached"
        BY <4>1 DEF Event
      <4> HIDE DEF evs
      <4>3. Cardinality(BreachesIn(ob \o evs)) = Cardinality(BreachesIn(ob)) + 1
        BY <1>f, <4>2, CountEvents
      <4>4. Cardinality(BreachesIn(ob)) = 0
        BY <1>B, <3>5, <3>6, <3>7, <3>10 DEF Told, B
      <4> QED
        BY <1>B, <3>6, <3>10, <4>3, <4>4 DEF Told, B
    <3>11. CASE ~ (TotalSpan(es, 0) <= B /\ B < TotalSpan(fs, 0))
      <4>1. evs = <<Event("closed", i)>>
        BY <3>3, <3>8, <3>11
      <4>2. \A k \in DOMAIN evs : evs[k].kind # "budget_breached"
        BY <4>1 DEF Event
      <4> HIDE DEF evs
      <4>3. BreachesIn(ob \o evs) = BreachesIn(ob)
        BY <1>f, <4>2, CountEvents
      <4>4. TotalSpan(fs, 0) > B <=> TotalSpan(es, 0) > B
        BY <1>B, <3>5, <3>6, <3>7, <3>9, <3>11
      <4> QED
        BY <4>3, <4>4 DEF Told, B
    <3> QED
      BY <3>10, <3>11
  <2>5. CASE ~ InBounds(s, r.temp)
    <3> DEFINE e == Extended(es[i], r)
    <3>1. fs = [es EXCEPT ![i] = e] /\ evs = <<>>
      BY <1>3, <2>1, <2>5 DEF Evaluate, Events
    <3>2. e \in ExcType /\ e.status = "open"
      BY <1>r, <2>1 DEF Extended, Larger, Smaller, ExcType
    <3>3. Span(e, 0) = 0
      BY <3>2, SpanNumber
    <3> HIDE DEF i, e, fs, evs
    <3>4. TotalSpan([es EXCEPT ![i] = e], 0) - Span(e, 0) = TotalSpan(es, 0) - Span(es[i], 0)
      <4>1. i \in DOMAIN es
        BY <2>1
      <4> QED
        BY <3>2, <4>1, TotalReplace
    <3>5. TotalSpan(fs, 0) = TotalSpan(es, 0)
      <4>1. TotalSpan(fs, 0) \in Int /\ TotalSpan(es, 0) \in Int
        BY <1>f, TotalNumber
      <4> QED
        BY <2>3, <3>1, <3>3, <3>4, <4>1
    <3>6. ob \o evs = ob
      BY <3>1
    <3> QED
      BY <3>5, <3>6 DEF Told
  <2> QED
    BY <2>4, <2>5
<1> QED
  BY <1>1, <1>2, <1>3

(* The excursions of a shipment are of its devices. *)
LEMMA EvaluateOwn ==
  ASSUME NEW s \in Ships, NEW es \in Seq(ExcType), Single(es), OwnExcs(s, es),
         NEW r \in ReadingType, r.dev \in DevicesOf[s]
  PROVE  OwnExcs(s, Evaluate(s, es, r))
<1> DEFINE i == FirstOpen(es, r.dev)
           fs == Evaluate(s, es, r)
<1> SUFFICES OwnExcs(s, fs)
  OBVIOUS
<1>1. CASE OpenOf(es, r.dev) = {} /\ InBounds(s, r.temp)
  BY <1>1 DEF Evaluate
<1>2. CASE OpenOf(es, r.dev) = {} /\ ~ InBounds(s, r.temp)
  <2>1. fs = Append(es, Opened(r)) /\ Opened(r).dev = r.dev
    BY <1>2 DEF Evaluate, Opened
  <2> HIDE DEF fs
  <2>2. \A k \in DOMAIN fs : (k \in DOMAIN es /\ fs[k] = es[k]) \/ fs[k] = Opened(r)
    BY <2>1
  <2> QED
    BY <2>1, <2>2 DEF OwnExcs
<1>3. CASE OpenOf(es, r.dev) # {}
  <2>1. i \in 1..Len(es) /\ es[i] \in ExcType /\ es[i].dev = r.dev
    BY <1>3, FirstOpenFound DEF OpenOf, ReadingType
  <2>2. PICK e : fs = [es EXCEPT ![i] = e] /\ e.dev = r.dev
    <3>1. Closed(es[i], r).dev = r.dev /\ Extended(es[i], r).dev = r.dev
      BY <2>1 DEF Closed, Extended, ExcType
    <3> QED
      BY <1>3, <2>1, <3>1 DEF Evaluate
  <2> HIDE DEF i, fs
  <2>3. \A k \in DOMAIN fs : k \in DOMAIN es /\ fs[k] = IF k = i THEN e ELSE es[k]
    BY <2>1, <2>2
  <2> QED
    BY <2>2, <2>3 DEF OwnExcs
<1> QED
  BY <1>1, <1>2, <1>3

LEMMA OneDevice ==
  ASSUME NEW s \in Ships, Cardinality(DevicesOf[s]) = 1, NEW x \in DevicesOf[s]
  PROVE  DevicesOf[s] = {x} /\ x \in Devices
<1>1. IsFiniteSet(DevicesOf[s])
  <2>1. IsFiniteSet(Devices) /\ DevicesOf[s] \in SUBSET Devices
    BY ShipmentsAssumption
  <2> QED
    BY <2>1, FS_Subset
<1>2. \E y : DevicesOf[s] = {y}
  BY <1>1, FS_Singleton
<1> QED
  BY <1>2, ShipmentsAssumption

LEMMA StepTold ==
  ASSUME BreachInv, [Next]_vars
  PROVE  BreachInv'
<1>0. SingleInv /\ SingleInv'
  BY StepSingle DEF BreachInv
<1>1. ASSUME NEW s \in Ships
      PROVE  /\ OwnExcs(s, excs[s])
             /\ Cardinality(DevicesOf[s]) = 1 => Told(s, excs[s], outbox[s])
             /\ excs[s] \in Seq(ExcType) /\ Single(excs[s]) /\ outbox[s] \in Seq(EventType)
  BY DEF BreachInv, SingleInv, TypeOK, BreachExact, Breaches, Told, BreachesIn
<1>2. ASSUME NEW s \in Ships
      PROVE  /\ OwnExcs(s, excs'[s])
             /\ Cardinality(DevicesOf[s]) = 1 => Told(s, excs'[s], outbox'[s])
  <2>1. CASE UNCHANGED <<excs, outbox>>
    BY <1>1, <2>1
  <2>2. ASSUME NEW r \in Readings, EvaluateReading(r)
        PROVE  /\ OwnExcs(s, excs'[s])
               /\ Cardinality(DevicesOf[s]) = 1 => Told(s, excs'[s], outbox'[s])
    <3>1. CASE s \notin InTransit(r)
      <4>1. excs'[s] = excs[s] /\ outbox'[s] = outbox[s]
        BY <2>2, <3>1 DEF EvaluateReading
      <4> QED
        BY <1>1, <4>1
    <3>2. CASE s \in InTransit(r)
      <4> DEFINE fs == Evaluate(s, excs[s], r)
                 evs == Events(s, excs[s], fs, r)
      <4>1. excs'[s] = fs /\ outbox'[s] = outbox[s] \o evs
        BY <2>2, <3>2 DEF EvaluateReading
      <4>2. r \in ReadingType /\ r.dev \in DevicesOf[s]
        BY <3>2, ShipmentsAssumption DEF InTransit
      <4>3. OwnExcs(s, fs)
        BY <1>1, <4>2, EvaluateOwn
      <4>4. ASSUME Cardinality(DevicesOf[s]) = 1 PROVE Told(s, fs, outbox[s] \o evs)
        <5>1. DevicesOf[s] = {r.dev} /\ r.dev \in Devices
          BY <4>2, <4>4, OneDevice
        <5> QED
          BY <1>1, <4>2, <4>4, <5>1, EvaluateTold
      <4> HIDE DEF fs, evs
      <4> QED
        BY <4>1, <4>3, <4>4
    <3> QED
      BY <3>1, <3>2
  <2>3. ASSUME NEW x \in Ships, CreateShipment(x) \/ CompleteShipment(x)
        PROVE  UNCHANGED <<excs, outbox>>
    BY <2>3 DEF CreateShipment, CompleteShipment
  <2> QED
    BY <2>1, <2>2, <2>3 DEF Next, vars
<1> QED
  BY <1>0, <1>2 DEF BreachInv, BreachExact, Breaches, Told, BreachesIn

(* A breach stays announced. *)
LEMMA StepBreaches ==
  ASSUME SingleInv, [Next]_vars, NEW s \in Ships
  PROVE  Breaches(s) \subseteq Breaches(s)'
<1>1. CASE outbox'[s] = outbox[s]
  BY <1>1 DEF Breaches
<1>2. ASSUME NEW r \in Readings, EvaluateReading(r) PROVE Breaches(s) \subseteq Breaches(s)'
  <2>1. CASE s \notin InTransit(r)
    BY <1>1, <1>2, <2>1 DEF EvaluateReading
  <2>2. CASE s \in InTransit(r)
    <3> DEFINE evs == Events(s, excs[s], Evaluate(s, excs[s], r), r)
    <3>1. outbox'[s] = outbox[s] \o evs
      BY <1>2, <2>2 DEF EvaluateReading
    <3>2. outbox[s] \in Seq(EventType) /\ evs \in Seq(EventType)
      BY EventsOK, ShipmentsAssumption DEF SingleInv, TypeOK
    <3> HIDE DEF evs
    <3>3. \A k \in DOMAIN outbox[s] : k \in DOMAIN outbox'[s] /\ outbox'[s][k] = outbox[s][k]
      BY <3>1, <3>2
    <3> QED
      BY <3>3 DEF Breaches
  <2> QED
    BY <2>1, <2>2
<1>3. ASSUME NEW x \in Ships, CreateShipment(x) \/ CompleteShipment(x)
      PROVE  Breaches(s) \subseteq Breaches(s)'
  BY <1>1, <1>3 DEF CreateShipment, CompleteShipment
<1> QED
  BY <1>1, <1>2, <1>3 DEF Next, vars

LEMMA InitTold ==
  ASSUME Init
  PROVE  BreachInv
<1>1. SingleInv
  BY InitSingle
<1>2. \A s \in Ships : excs[s] = <<>> /\ outbox[s] = <<>>
  BY DEF Init
<1>3. TotalSpan(<<>>, 0) = 0
  <2>1. IsFiniteSet({}) /\ DOMAIN <<>> = {}
    BY FS_EmptySet
  <2>2. SumFunctionOnSet(Spans(<<>>, 0), {}) = 0
    BY <2>1, SumPicked
  <2> QED
    BY <2>1, <2>2, TotalIsSum
<1>4. \A s \in Ships : Breaches(s) = {} /\ Budget[s] * Minute \in Nat
  BY <1>2, ShipmentsAssumption DEF Breaches
<1>5. Cardinality({}) = 0
  BY FS_EmptySet
<1>6. BreachExact
  <2> SUFFICES ASSUME NEW s \in Ships
               PROVE  Cardinality(Breaches(s)) = IF TotalSpan(excs[s], 0) > Budget[s] * Minute THEN 1 ELSE 0
    BY DEF BreachExact
  <2>1. TotalSpan(excs[s], 0) = 0 /\ Cardinality(Breaches(s)) = 0
    BY <1>2, <1>3, <1>4, <1>5
  <2> DEFINE B == Budget[s] * Minute
  <2>2. B \in Nat
    BY <1>4
  <2> HIDE DEF B
  <2>3. ~ (0 > B)
    BY <2>2
  <2> QED
    BY <2>1, <2>3 DEF B
<1> QED
  BY <1>1, <1>2, <1>6 DEF BreachInv, OwnExcs

LEMMA BreachInvariant == Spec => []BreachInv
BY InitTold, StepTold, PTL DEF Spec

(* A shipment with one device: whatever the order of its readings, the breach *)
(* has been announced once if the closed excursions exceed the budget, and    *)
(* not otherwise.                                                           *)
THEOREM BreachesExact == Spec => []BreachExact
<1>1. BreachInv => BreachExact
  BY DEF BreachInv
<1> QED
  BY BreachInvariant, <1>1, PTL

-----------------------------------------------------------------------------
(* Readings in the order of their numbers: excursions are runs.  q is lasting *)
(* if it is out of bounds and nothing in bounds has come after it.           *)
Lasting(s, q) ==
  /\ q \in Hot(s)
  /\ \A p \in seen[s] : p.dev = q.dev /\ q.seq < p.seq => p \in Hot(s)

DistinctSeqs(s) == \A q, p \in seen[s] : q.dev = p.dev /\ q.seq = p.seq => q = p

(* A run has no end exactly if its start is lasting. *)
LEMMA LastingOpen ==
  ASSUME NEW s, seen[s] \subseteq ReadingType, DistinctSeqs(s), NEW q \in Hot(s)
  PROVE  RunEnds(s, q) = {} <=> Lasting(s, q)
<1>0. q \in seen[s] /\ \A p \in seen[s] : p.seq \in Nat
  BY DEF Hot, ReadingType
<1>1. ASSUME ~ Lasting(s, q) PROVE RunEnds(s, q) # {}
  <2> DEFINE T == {n \in Nat : \E p \in seen[s] \ Hot(s) : p.dev = q.dev /\ q.seq < p.seq /\ p.seq = n}
  <2>1. T # {}
    BY <1>0, <1>1 DEF Lasting
  <2>2. PICK n \in T : \A m \in T : n <= m
    BY <2>1, LeastNumber
  <2>3. PICK p \in seen[s] \ Hot(s) : p.dev = q.dev /\ q.seq < p.seq /\ p.seq = n
    OBVIOUS
  <2>4. Between(s, q, p) \subseteq Hot(s)
    <3> SUFFICES ASSUME NEW u \in Between(s, q, p), u \notin Hot(s) PROVE FALSE
      OBVIOUS
    <3>1. u \in seen[s] /\ u.dev = q.dev /\ q.seq < u.seq /\ u.seq < n
      BY <2>3 DEF Between
    <3>2. u.seq \in T
      BY <1>0, <3>1
    <3> QED
      BY <1>0, <2>2, <2>3, <3>1, <3>2
  <2>5. p \in RunEnds(s, q)
    BY <1>0, <2>3, <2>4 DEF RunEnds, SameRun
  <2> QED
    BY <2>5
<1>2. ASSUME Lasting(s, q), NEW p \in RunEnds(s, q) PROVE FALSE
  <2>1. p \in seen[s] /\ p \notin Hot(s) /\ p.dev = q.dev /\ q.seq <= p.seq
    BY DEF RunEnds, SameRun
  <2>2. q.seq # p.seq
    BY <1>0, <2>1 DEF DistinctSeqs
  <2> QED
    BY <1>0, <1>2, <2>1, <2>2 DEF Lasting
<1> QED
  BY <1>1, <1>2

(* A device has one start of a run at most that is lasting. *)
LEMMA OneLasting ==
  ASSUME NEW s, seen[s] \subseteq ReadingType,
         NEW q \in RunStarts(s), NEW p \in RunStarts(s), q.dev = p.dev,
         Lasting(s, q), Lasting(s, p)
  PROVE  q = p
<1>0. q \in Hot(s) /\ p \in Hot(s) /\ q.seq \in Nat /\ p.seq \in Nat
  BY DEF RunStarts, Hot, ReadingType
<1>1. SameRun(s, q, p) \/ SameRun(s, p, q)
  BY <1>0 DEF SameRun, Between, Lasting
<1> QED
  BY <1>0, <1>1 DEF RunStarts

(* It has one if any of its readings is. *)
LEMMA LastingStart ==
  ASSUME NEW s, seen[s] \subseteq ReadingType, DistinctSeqs(s), NEW q, Lasting(s, q)
  PROVE  \E p \in RunStarts(s) : p.dev = q.dev /\ Lasting(s, p)
<1>0. \A p \in seen[s] : p.seq \in Nat
  BY DEF ReadingType
<1> DEFINE T == {n \in Nat : \E p \in seen[s] : Lasting(s, p) /\ p.dev = q.dev /\ p.seq = n}
<1>1. q \in seen[s]
  BY DEF Lasting, Hot
<1>2. T # {}
  BY <1>0, <1>1
<1>3. PICK n \in T : \A m \in T : n <= m
  BY <1>2, LeastNumber
<1>4. PICK p \in seen[s] : Lasting(s, p) /\ p.dev = q.dev /\ p.seq = n
  OBVIOUS
<1>5. p \in RunStarts(s)
  <2>1. p \in Hot(s)
    BY <1>4 DEF Lasting
  <2> SUFFICES ASSUME NEW u \in Hot(s), SameRun(s, u, p) PROVE u = p
    BY <2>1 DEF RunStarts
  <2>2. u \in seen[s] /\ u.dev = p.dev /\ u.seq <= p.seq /\ Between(s, u, p) \subseteq Hot(s)
    BY DEF SameRun, Hot
  <2>3. Lasting(s, u)
    <3> SUFFICES ASSUME NEW v \in seen[s], v.dev = u.dev, u.seq < v.seq PROVE v \in Hot(s)
      BY DEF Lasting
    <3>1. CASE v.seq < p.seq
      BY <2>2, <3>1 DEF Between
    <3>2. CASE v.seq = p.seq
      BY <1>4, <2>1, <2>2, <3>2 DEF DistinctSeqs
    <3>3. CASE p.seq < v.seq
      BY <1>4, <2>2, <3>3 DEF Lasting
    <3> QED
      BY <1>0, <3>1, <3>2, <3>3
  <2>4. u.seq \in T
    BY <1>0, <1>4, <2>2, <2>3
  <2>5. u.seq = p.seq
    BY <1>0, <1>3, <1>4, <2>2, <2>4
  <2> QED
    BY <2>2, <2>5 DEF DistinctSeqs
<1> QED
  BY <1>4, <1>5
-----------------------------------------------------------------------------
(* What a reading, the last of its device, changes about runs. *)
Arrives(s, r) ==
  /\ seen[s] \subseteq ReadingType /\ r \in ReadingType
  /\ DistinctSeqs(s) /\ Newest(s, r)
  /\ seen'[s] = seen[s] \union {r}

LEMMA RunsMove ==
  ASSUME NEW s, NEW r, Arrives(s, r)
  PROVE  /\ r \notin seen[s]
         /\ DistinctSeqs(s)'
         /\ Hot(s)' = Hot(s) \union (IF InBounds(s, r.temp) THEN {} ELSE {r})
         /\ \A q, p \in seen[s] : SameRun(s, q, p)' <=> SameRun(s, q, p)
         /\ \A q \in seen[s] : ~ SameRun(s, r, q)'
         /\ \A q \in Hot(s) : SameRun(s, q, r)' <=> q.dev = r.dev /\ Lasting(s, q)
         /\ SameRun(s, r, r)'
<1>0. /\ \A p \in seen[s] : p.seq \in Nat
      /\ r.seq \in Nat
      /\ \A q \in seen[s] : q.dev = r.dev => q.seq < r.seq
      /\ seen'[s] = seen[s] \union {r}
  BY DEF Arrives, Newest, ReadingType
<1>1. r \notin seen[s]
  BY <1>0
<1>2. DistinctSeqs(s)'
  <2>1. \A q, p \in seen'[s] : q.dev = p.dev /\ q.seq = p.seq => q = p
    BY <1>0 DEF Arrives, DistinctSeqs
  <2> QED
    BY <2>1 DEF DistinctSeqs
<1>3. Hot(s)' = Hot(s) \union (IF InBounds(s, r.temp) THEN {} ELSE {r})
  BY <1>0 DEF Hot, InBounds
<1>4. \A q, p \in seen[s] : Between(s, q, p)' = Between(s, q, p)
  BY <1>0 DEF Between
<1>5. \A q \in seen[s] : Between(s, q, r)' = {p \in seen[s] : p.dev = r.dev /\ q.seq < p.seq /\ p.seq < r.seq}
  BY <1>0 DEF Between
<1>6. Between(s, r, r)' = {}
  BY <1>0 DEF Between
<1>7. \A q, p \in seen[s] : SameRun(s, q, p)' <=> SameRun(s, q, p)
  <2> SUFFICES ASSUME NEW q \in seen[s], NEW p \in seen[s]
               PROVE  SameRun(s, q, p)' <=> SameRun(s, q, p)
    OBVIOUS
  <2>1. r \notin Between(s, q, p)
    BY <1>1 DEF Between
  <2>2. Between(s, q, p)' \subseteq Hot(s)' <=> Between(s, q, p) \subseteq Hot(s)
    BY <1>3, <1>4, <2>1
  <2> QED
    BY <2>2 DEF SameRun
<1>8. \A q \in seen[s] : ~ SameRun(s, r, q)'
  BY <1>0 DEF SameRun
<1>9. \A q \in Hot(s) : SameRun(s, q, r)' <=> q.dev = r.dev /\ Lasting(s, q)
  <2> SUFFICES ASSUME NEW q \in Hot(s)
               PROVE  SameRun(s, q, r)' <=> q.dev = r.dev /\ Lasting(s, q)
    OBVIOUS
  <2>1. q \in seen[s]
    BY DEF Hot
  <2> DEFINE B == {p \in seen[s] : p.dev = r.dev /\ q.seq < p.seq /\ p.seq < r.seq}
  <2>2. SameRun(s, q, r)' <=> q.dev = r.dev /\ q.seq <= r.seq /\ Between(s, q, r)' \subseteq Hot(s)'
    BY DEF SameRun
  <2>3. B \subseteq Hot(s)' <=> B \subseteq Hot(s)
    BY <1>1, <1>3
  <2>4. q.dev = r.dev => (B \subseteq Hot(s) <=> Lasting(s, q))
    BY <1>0 DEF Lasting
  <2> QED
    BY <1>0, <1>5, <2>1, <2>2, <2>3, <2>4
<1>10. SameRun(s, r, r)'
  BY <1>0, <1>6 DEF SameRun
<1> QED
  BY <1>1, <1>2, <1>3, <1>7, <1>8, <1>9, <1>10

(* It starts a run if it is out of bounds and no run of its device lasts. *)
LEMMA StartsMove ==
  ASSUME NEW s, NEW r, Arrives(s, r)
  PROVE  LET lasts == \E q \in RunStarts(s) : q.dev = r.dev /\ Lasting(s, q)
         IN  RunStarts(s)' = RunStarts(s) \union (IF InBounds(s, r.temp) \/ lasts THEN {} ELSE {r})
<1> DEFINE lasts == \E q \in RunStarts(s) : q.dev = r.dev /\ Lasting(s, q)
<1>0. /\ r \notin seen[s] /\ Hot(s) \subseteq seen[s] /\ RunStarts(s) \subseteq Hot(s)
      /\ RunStarts(s)' \subseteq Hot(s)'
  BY RunsMove DEF Hot, RunStarts
<1>1. \A q \in Hot(s) : q \in RunStarts(s)' <=> q \in RunStarts(s)
  <2> SUFFICES ASSUME NEW q \in Hot(s) PROVE q \in RunStarts(s)' <=> q \in RunStarts(s)
    OBVIOUS
  <2>1. q \in RunStarts(s)' <=> q \in Hot(s)' /\ \A p \in Hot(s)' : SameRun(s, p, q)' => p = q
    BY DEF RunStarts
  <2>2. q \in RunStarts(s) <=> \A p \in Hot(s) : SameRun(s, p, q) => p = q
    BY DEF RunStarts
  <2> QED
    BY <1>0, <2>1, <2>2, RunsMove
<1>2. ASSUME ~ InBounds(s, r.temp) PROVE r \in RunStarts(s)' <=> ~ lasts
  <2>1. r \in RunStarts(s)' <=> \A p \in Hot(s)' : SameRun(s, p, r)' => p = r
    BY <1>2, RunsMove DEF RunStarts
  <2>2. r \in RunStarts(s)' <=> \A p \in Hot(s) : ~ (p.dev = r.dev /\ Lasting(s, p))
    BY <1>0, <1>2, <2>1, RunsMove
  <2>3. ASSUME NEW p \in Hot(s), p.dev = r.dev, Lasting(s, p) PROVE lasts
    BY <2>3, LastingStart DEF Arrives
  <2> QED
    BY <1>0, <2>2, <2>3
<1>3. InBounds(s, r.temp) => r \notin RunStarts(s)'
  BY <1>0, RunsMove
<1> HIDE DEF lasts
<1>4. Hot(s)' \subseteq Hot(s) \union {r}
  BY RunsMove
<1>5. \A q : q \in RunStarts(s)' <=> q \in RunStarts(s) \/ (q = r /\ ~ (InBounds(s, r.temp) \/ lasts))
  BY <1>0, <1>1, <1>2, <1>3, <1>4
<1>6. RunStarts(s)' = RunStarts(s) \union (IF InBounds(s, r.temp) \/ lasts THEN {} ELSE {r})
  BY <1>5
<1> QED
  BY <1>6 DEF lasts
(* A finite set of integers has extremes, and another number moves them as    *)
(* evaluate_reading moves a peak or a trough.                                *)
LEMMA Extremes ==
  ASSUME NEW T, IsFiniteSet(T), T # {}, \A x \in T : x \in Int
  PROVE  /\ Max(T) \in T /\ \A x \in T : x <= Max(T)
         /\ Min(T) \in T /\ \A x \in T : Min(T) <= x
<1>1. \E n \in T : \A m \in T : m <= n
  BY GreatestNumber
<1>2. Max(T) \in T /\ \A x \in T : x <= Max(T)
  BY <1>1 DEF Max
<1> DEFINE f == [x \in T |-> 0 - x]
           N == {f[x] : x \in T}
<1>3. IsFiniteSet(N)
  <2> HIDE DEF f
  <2> QED
    BY FiniteImage
<1>4. N # {} /\ \A x \in N : x \in Int
  OBVIOUS
<1>5. \E n \in N : \A m \in N : m <= n
  <2> HIDE DEF N, f
  <2> QED
    BY <1>3, <1>4, GreatestNumber
<1>6. PICK y \in T : \A x \in T : f[x] <= f[y]
  BY <1>5
<1>7. \A x \in T : y <= x
  BY <1>6
<1>8. Min(T) \in T /\ \A x \in T : Min(T) <= x
  BY <1>7 DEF Min
<1> QED
  BY <1>2, <1>8

LEMMA ExtremesAdd ==
  ASSUME NEW T, IsFiniteSet(T), T # {}, \A x \in T : x \in Int, NEW y \in Int
  PROVE  /\ Max(T \union {y}) = Larger(Max(T), y)
         /\ Min(T \union {y}) = Smaller(Min(T), y)
<1> DEFINE U == T \union {y}
<1>1. IsFiniteSet(U)
  BY FS_AddElement
<1>2. U # {} /\ \A x \in U : x \in Int
  OBVIOUS
<1>3. /\ Max(T) \in T /\ \A x \in T : x <= Max(T)
      /\ Min(T) \in T /\ \A x \in T : Min(T) <= x
  BY Extremes
<1>4. /\ Max(U) \in U /\ \A x \in U : x <= Max(U)
      /\ Min(U) \in U /\ \A x \in U : Min(U) <= x
  <2> HIDE DEF U
  <2> QED
    BY <1>1, <1>2, Extremes
<1> QED
  BY <1>3, <1>4 DEF Larger, Smaller

(* The temperatures of a run are finitely many integers. *)
LEMMA RunTemps ==
  ASSUME NEW s, seen[s] \subseteq ReadingType, IsFiniteSet(seen[s]), NEW q \in Hot(s)
  PROVE  /\ q \in Run(s, q)
         /\ LET T == {p.temp : p \in Run(s, q)}
            IN  IsFiniteSet(T) /\ T # {} /\ \A x \in T : x \in Int
<1> DEFINE f == [p \in Run(s, q) |-> p.temp]
           T == {p.temp : p \in Run(s, q)}
<1>1. q \in seen[s] /\ q.seq \in Nat
  BY DEF Hot, ReadingType
<1>2. q \in Run(s, q)
  <2>1. Between(s, q, q) = {}
    BY <1>1 DEF Between, ReadingType
  <2> QED
    BY <1>1, <2>1 DEF Run, SameRun
<1>3. Run(s, q) \subseteq seen[s]
  BY DEF Run, Hot
<1>4. IsFiniteSet(Run(s, q))
  BY <1>3, FS_Subset
<1>5. IsFiniteSet({f[p] : p \in Run(s, q)})
  <2> HIDE DEF f
  <2> QED
    BY <1>4, FiniteImage
<1>6. T = {f[p] : p \in Run(s, q)}
  OBVIOUS
<1>7. \A x \in T : x \in Int
  BY <1>3 DEF ReadingType
<1> QED
  BY <1>2, <1>5, <1>6, <1>7

(* It extends or ends the run that lasts, and no other. *)
LEMMA ExcursionMoves ==
  ASSUME NEW s, NEW r, Arrives(s, r), IsFiniteSet(seen[s]), NEW q \in RunStarts(s)
  PROVE  Excursion(s, q)' =
           IF ~ (q.dev = r.dev /\ Lasting(s, q)) THEN Excursion(s, q)
           ELSE IF InBounds(s, r.temp) THEN Closed(Excursion(s, q), r)
           ELSE Extended(Excursion(s, q), r)
<1>0. /\ q \in Hot(s) /\ q \in seen[s] /\ seen[s] \subseteq ReadingType
      /\ r \in ReadingType /\ r.temp \in Int /\ r.ts \in Nat /\ q.ts \in Nat
      /\ r \notin seen[s] /\ seen'[s] = seen[s] \union {r}
  BY RunsMove DEF RunStarts, Hot, Arrives, ReadingType
<1> DEFINE lasts == q.dev = r.dev /\ Lasting(s, q)
           runs == Run(s, q)
           ends == RunEnds(s, q)
<1>1. Hot(s) \subseteq seen[s]
  BY DEF Hot
<1>2. Run(s, q)' = runs \union (IF lasts /\ ~ InBounds(s, r.temp) THEN {r} ELSE {})
  <2>1. \A p : p \in Run(s, q)' <=> p \in Hot(s)' /\ SameRun(s, q, p)'
    BY DEF Run
  <2>2. \A p : p \in runs <=> p \in Hot(s) /\ SameRun(s, q, p)
    BY DEF Run
  <2>3. \A p \in seen[s] : p \in Run(s, q)' <=> p \in runs
    BY <1>0, <1>1, <2>1, <2>2, RunsMove
  <2>4. r \in Run(s, q)' <=> lasts /\ ~ InBounds(s, r.temp)
    BY <1>0, <1>1, <2>1, RunsMove
  <2>5. \A p : p \in Run(s, q)' => p \in seen[s] \/ p = r
    BY <1>1, <2>1, RunsMove
  <2>6. \A p : p \in runs => p \in seen[s]
    BY <1>1, <2>2
  <2> HIDE DEF lasts, runs
  <2> QED
    BY <1>0, <2>3, <2>4, <2>5, <2>6
<1>3. RunEnds(s, q)' = ends \union (IF lasts /\ InBounds(s, r.temp) THEN {r} ELSE {})
  <2>1. \A p : p \in RunEnds(s, q)' <=> p \in seen'[s] /\ p \notin Hot(s)' /\ SameRun(s, q, p)'
    BY DEF RunEnds
  <2>2. \A p : p \in ends <=> p \in seen[s] /\ p \notin Hot(s) /\ SameRun(s, q, p)
    BY DEF RunEnds
  <2>3. \A p \in seen[s] : p \in RunEnds(s, q)' <=> p \in ends
    BY <1>0, <1>1, <2>1, <2>2, RunsMove
  <2>4. r \in RunEnds(s, q)' <=> lasts /\ InBounds(s, r.temp)
    BY <1>0, <1>1, <2>1, RunsMove
  <2>5. \A p : p \in RunEnds(s, q)' => p \in seen[s] \/ p = r
    BY <1>0, <2>1
  <2> HIDE DEF lasts, ends
  <2> QED
    BY <1>0, <2>2, <2>3, <2>4, <2>5
<1>4. lasts => ends = {}
  BY <1>0, LastingOpen DEF Arrives
<1> DEFINE temps == {p.temp : p \in Run(s, q)}
           times == {p.ts : p \in RunEnds(s, q)}
           temps1 == {p.temp : p \in Run(s, q)'}
           times1 == {p.ts : p \in RunEnds(s, q)'}
           exc == Excursion(s, q)
<1>5. Excursion(s, q)' =
        [dev |-> q.dev, started |-> q.ts,
         ended |-> IF RunEnds(s, q)' = {} THEN 0 ELSE Max({q.ts} \union times1),
         peak |-> Max(temps1), trough |-> Min(temps1),
         status |-> IF RunEnds(s, q)' = {} THEN "open" ELSE "closed"]
  BY DEF Excursion
<1>6. exc =
        [dev |-> q.dev, started |-> q.ts,
         ended |-> IF ends = {} THEN 0 ELSE Max({q.ts} \union times),
         peak |-> Max(temps), trough |-> Min(temps),
         status |-> IF ends = {} THEN "open" ELSE "closed"]
  BY DEF Excursion
<1>10. q.dev \in Devices /\ Max(temps) \in Int /\ Min(temps) \in Int
  <2>1. IsFiniteSet(temps) /\ temps # {} /\ \A x \in temps : x \in Int
    BY <1>0, RunTemps
  <2> HIDE DEF temps
  <2>2. Max(temps) \in temps /\ Min(temps) \in temps
    BY <2>1, Extremes
  <2> QED
    BY <1>0, <2>1, <2>2 DEF ReadingType
<1>7. ASSUME ~ lasts PROVE Excursion(s, q)' = exc
  <2>1. Run(s, q)' = Run(s, q) /\ RunEnds(s, q)' = RunEnds(s, q)
    BY <1>2, <1>3, <1>7
  <2>2. temps1 = temps /\ times1 = times
    BY <2>1
  <2> HIDE DEF temps, times, temps1, times1, exc
  <2> QED
    BY <1>5, <1>6, <2>1, <2>2
<1>8. ASSUME lasts, InBounds(s, r.temp) PROVE Excursion(s, q)' = Closed(exc, r)
  <2>1. Run(s, q)' = Run(s, q) /\ RunEnds(s, q)' = {r} /\ ends = {}
    BY <1>2, <1>3, <1>4, <1>8
  <2>2. temps1 = temps /\ times1 = {r.ts}
    BY <2>1
  <2>3. Max({q.ts} \union {r.ts}) = Larger(r.ts, q.ts)
    <3> DEFINE t == q.ts
               u == r.ts
    <3> HIDE DEF t, u
    <3>1. t \in Int /\ u \in Int
      BY <1>0 DEF t, u
    <3>2. IsFiniteSet({t})
      BY FS_Singleton
    <3>3. Max({t}) = t
      BY <3>1 DEF Max
    <3>4. Max({t} \union {u}) = Larger(t, u)
      BY <3>1, <3>2, <3>3, ExtremesAdd
    <3>5. Max({t} \union {u}) = Larger(u, t)
      BY <3>1, <3>4 DEF Larger
    <3> QED
      BY <3>5 DEF t, u
  <2> HIDE DEF temps, times, temps1, times1, exc, ends
  <2>4. exc = [dev |-> q.dev, started |-> q.ts, ended |-> 0,
               peak |-> Max(temps), trough |-> Min(temps), status |-> "open"]
    BY <1>6, <2>1
  <2>5. exc \in ExcType
    BY <1>0, <1>10, <2>4 DEF ExcType
  <2>6. Excursion(s, q)' = [dev |-> q.dev, started |-> q.ts, ended |-> Larger(r.ts, q.ts),
                            peak |-> Max(temps), trough |-> Min(temps), status |-> "closed"]
    BY <1>5, <2>1, <2>2, <2>3
  <2>7. Larger(r.ts, q.ts) \in Nat
    BY <1>0 DEF Larger
  <2>8. Excursion(s, q)' \in ExcType
    BY <1>0, <1>10, <2>6, <2>7 DEF ExcType
  <2>9. /\ Closed(exc, r).dev = q.dev /\ Closed(exc, r).started = q.ts
        /\ Closed(exc, r).ended = Larger(r.ts, q.ts) /\ Closed(exc, r).status = "closed"
        /\ Closed(exc, r).peak = Max(temps) /\ Closed(exc, r).trough = Min(temps)
        /\ Closed(exc, r) \in ExcType
    BY <1>0, <2>4, <2>5, ClosedFields
  <2> QED
    BY <2>6, <2>8, <2>9, SameExcursion
<1>9. ASSUME lasts, ~ InBounds(s, r.temp) PROVE Excursion(s, q)' = Extended(exc, r)
  <2>1. Run(s, q)' = Run(s, q) \union {r} /\ RunEnds(s, q)' = {} /\ ends = {}
    BY <1>2, <1>3, <1>4, <1>9
  <2>2. temps1 = temps \union {r.temp}
    BY <2>1
  <2>3. IsFiniteSet(temps) /\ temps # {} /\ \A x \in temps : x \in Int
    BY <1>0, RunTemps
  <2> HIDE DEF temps, times, temps1, times1, exc, ends
  <2>4. Max(temps1) = Larger(Max(temps), r.temp) /\ Min(temps1) = Smaller(Min(temps), r.temp)
    BY <1>0, <2>2, <2>3, ExtremesAdd
  <2>5. exc = [dev |-> q.dev, started |-> q.ts, ended |-> 0,
               peak |-> Max(temps), trough |-> Min(temps), status |-> "open"]
    BY <1>6, <2>1
  <2>6. exc \in ExcType
    BY <1>0, <1>10, <2>5 DEF ExcType
  <2>7. Excursion(s, q)' = [dev |-> q.dev, started |-> q.ts, ended |-> 0,
                            peak |-> Max(temps1), trough |-> Min(temps1), status |-> "open"]
    BY <1>5, <2>1
  <2>8. Excursion(s, q)' \in ExcType
    <3>1. Max(temps1) \in Int /\ Min(temps1) \in Int
      BY <1>0, <1>10, <2>4 DEF Larger, Smaller
    <3> QED
      BY <1>0, <1>10, <2>7, <3>1 DEF ExcType
  <2>9. /\ Extended(exc, r).dev = q.dev /\ Extended(exc, r).started = q.ts
        /\ Extended(exc, r).ended = 0 /\ Extended(exc, r).status = "open"
        /\ Extended(exc, r).peak = Max(temps1) /\ Extended(exc, r).trough = Min(temps1)
        /\ Extended(exc, r) \in ExcType
    BY <1>0, <2>4, <2>5, <2>6, ExtendedFields
  <2> QED
    BY <2>7, <2>8, <2>9, SameExcursion
<1> QED
  BY <1>7, <1>8, <1>9
(* A new run is the excursion that is opened. *)
LEMMA ExcursionBegins ==
  ASSUME NEW s, NEW r, Arrives(s, r), ~ InBounds(s, r.temp),
         ~ \E q \in RunStarts(s) : q.dev = r.dev /\ Lasting(s, q)
  PROVE  Excursion(s, r)' = Opened(r)
<1>1. r.temp \in Int /\ \A q \in Hot(s) : ~ SameRun(s, q, r)'
  BY RunsMove, LastingStart DEF Arrives, ReadingType
<1>2. /\ Hot(s)' = Hot(s) \union {r} /\ Hot(s) \subseteq seen[s] /\ seen'[s] = seen[s] \union {r}
      /\ \A q \in seen[s] : ~ SameRun(s, r, q)'
      /\ SameRun(s, r, r)'
  BY RunsMove DEF Arrives, Hot
<1>3. Run(s, r)' = {r}
  <2>1. \A p : p \in Run(s, r)' <=> p \in Hot(s)' /\ SameRun(s, r, p)'
    BY DEF Run
  <2> QED
    BY <1>2, <2>1
<1>4. RunEnds(s, r)' = {}
  <2>1. \A p : p \in RunEnds(s, r)' <=> p \in seen'[s] /\ p \notin Hot(s)' /\ SameRun(s, r, p)'
    BY DEF RunEnds
  <2> QED
    BY <1>2, <2>1
<1>5. {p.temp : p \in Run(s, r)'} = {r.temp}
  BY <1>3
<1>6. Max({r.temp}) = r.temp /\ Min({r.temp}) = r.temp
  BY <1>1 DEF Max, Min
<1> QED
  BY <1>4, <1>5, <1>6 DEF Excursion, Opened

-----------------------------------------------------------------------------
(* The excursions of a shipment in the order they were opened: es[i] is the   *)
(* run that starts with st[i].                                               *)
Lists(s, st) ==
  /\ st \in [1..Len(excs[s]) -> RunStarts(s)]
  /\ \A i, j \in 1..Len(excs[s]) : st[i] = st[j] => i = j
  /\ \A q \in RunStarts(s) : \E i \in 1..Len(excs[s]) : st[i] = q
  /\ \A i \in 1..Len(excs[s]) : excs[s][i] = Excursion(s, st[i])

RunsListed(s) ==
  /\ IsFiniteSet(seen[s]) /\ DistinctSeqs(s)
  /\ \E st \in [1..Len(excs[s]) -> RunStarts(s)] : Lists(s, st)

LEMMA ListedRuns ==
  ASSUME NEW s, excs[s] \in Seq(ExcType), RunsListed(s)
  PROVE  AreRuns(s)
<1>1. PICK st \in [1..Len(excs[s]) -> RunStarts(s)] : Lists(s, st)
  BY DEF RunsListed
<1>2. DOMAIN excs[s] = 1..Len(excs[s]) /\ Len(excs[s]) \in Nat
  OBVIOUS
<1>3. {excs[s][i] : i \in DOMAIN excs[s]} = {Excursion(s, r) : r \in RunStarts(s)}
  <2>1. ASSUME NEW i \in DOMAIN excs[s] PROVE \E r \in RunStarts(s) : excs[s][i] = Excursion(s, r)
    BY <1>1, <1>2, <2>1 DEF Lists
  <2>2. ASSUME NEW r \in RunStarts(s) PROVE \E i \in DOMAIN excs[s] : excs[s][i] = Excursion(s, r)
    BY <1>1, <1>2, <2>2 DEF Lists
  <2> QED
    BY <2>1, <2>2
<1>4. st \in Bijection(1..Len(excs[s]), RunStarts(s))
  BY <1>1 DEF Lists, Bijection, Injection, Surjection, IsInjective
<1>5. IsFiniteSet(1..Len(excs[s])) /\ Cardinality(1..Len(excs[s])) = Len(excs[s])
  BY <1>2, FS_Interval
<1>6. Cardinality(RunStarts(s)) = Len(excs[s])
  <2>1. ExistsBijection(1..Len(excs[s]), RunStarts(s))
    BY <1>4 DEF ExistsBijection
  <2> QED
    BY <1>5, <2>1, FS_Bijection
<1> QED
  BY <1>3, <1>6 DEF AreRuns
(* An excursion is open if its run lasts, so the query for an open excursion  *)
(* of a device finds the run that its next reading extends or ends.          *)
LEMMA OpenLasts ==
  ASSUME NEW s, excs[s] \in Seq(ExcType), seen[s] \subseteq ReadingType, DistinctSeqs(s),
         NEW st, Lists(s, st), NEW x
  PROVE  \A i \in 1..Len(excs[s]) :
           i \in OpenOf(excs[s], x) <=> st[i].dev = x /\ Lasting(s, st[i])
<1> SUFFICES ASSUME NEW i \in 1..Len(excs[s])
             PROVE  i \in OpenOf(excs[s], x) <=> st[i].dev = x /\ Lasting(s, st[i])
  OBVIOUS
<1> DEFINE q == st[i]
<1>1. q \in Hot(s) /\ excs[s][i] = Excursion(s, q)
  BY DEF Lists, RunStarts
<1>2. excs[s][i].dev = q.dev /\ (excs[s][i].status = "open" <=> RunEnds(s, q) = {})
  BY <1>1 DEF Excursion
<1>3. RunEnds(s, q) = {} <=> Lasting(s, q)
  BY <1>1, LastingOpen
<1> QED
  BY <1>2, <1>3 DEF OpenOf

LEMMA EvaluateListed ==
  ASSUME SingleInv, NEW s \in Ships, NEW r \in ReadingType, RunsListed(s), Newest(s, r),
         seen'[s] = seen[s] \union {r}, excs'[s] = Evaluate(s, excs[s], r)
  PROVE  RunsListed(s)'
<1> DEFINE es == excs[s]
           n == Len(es)
           i == FirstOpen(es, r.dev)
           Keeps(q) == q.dev = r.dev /\ Lasting(s, q)
<1>0. /\ es \in Seq(ExcType) /\ Single(es) /\ seen[s] \subseteq ReadingType /\ r.dev \in Devices
      /\ n \in Nat /\ DOMAIN es = 1..n
  BY ShipmentsAssumption DEF SingleInv, TypeOK, ReadingType
<1>1. Arrives(s, r)
  BY <1>0 DEF Arrives, RunsListed
<1>2. IsFiniteSet(seen[s]) /\ IsFiniteSet(seen'[s]) /\ DistinctSeqs(s)'
  BY <1>1, RunsMove, FS_AddElement DEF RunsListed
<1>3. PICK st \in [1..n -> RunStarts(s)] : Lists(s, st)
  BY DEF RunsListed
<1>4. \A j \in 1..n : j \in OpenOf(es, r.dev) <=> Keeps(st[j])
  BY <1>0, <1>3, OpenLasts DEF RunsListed
<1>5. OpenOf(es, r.dev) = {} <=> ~ \E q \in RunStarts(s) : Keeps(q)
  <2>1. \A j \in OpenOf(es, r.dev) : j \in 1..n
    BY <1>0 DEF OpenOf
  <2> QED
    BY <1>3, <1>4, <2>1 DEF Lists
<1>6. r \notin seen[s] /\ RunStarts(s) \subseteq seen[s]
  BY <1>1, RunsMove DEF RunStarts, Hot
<1>7. \A q \in RunStarts(s) :
        Excursion(s, q)' = IF ~ Keeps(q) THEN Excursion(s, q)
                           ELSE IF InBounds(s, r.temp) THEN Closed(Excursion(s, q), r)
                           ELSE Extended(Excursion(s, q), r)
  BY <1>1, <1>2, ExcursionMoves
<1>8. RunStarts(s)' = RunStarts(s) \union
        (IF InBounds(s, r.temp) \/ OpenOf(es, r.dev) # {} THEN {} ELSE {r})
  BY <1>1, <1>5, StartsMove
<1>9. ASSUME OpenOf(es, r.dev) = {}, InBounds(s, r.temp) PROVE RunsListed(s)'
  <2>1. excs'[s] = es /\ RunStarts(s)' = RunStarts(s)
    BY <1>8, <1>9 DEF Evaluate
  <2>2. \A q \in RunStarts(s) : Excursion(s, q)' = Excursion(s, q)
    BY <1>5, <1>7, <1>9
  <2>3. Lists(s, st)'
    BY <1>3, <2>1, <2>2 DEF Lists
  <2> QED
    BY <1>2, <2>1, <2>3 DEF RunsListed, Lists
<1>10. ASSUME OpenOf(es, r.dev) = {}, ~ InBounds(s, r.temp) PROVE RunsListed(s)'
  <2>0. PICK su : su = [j \in 1..(n + 1) |-> IF j = n + 1 THEN r ELSE st[j]]
    OBVIOUS
  <2>1. excs'[s] = Append(es, Opened(r)) /\ RunStarts(s)' = RunStarts(s) \union {r}
    BY <1>8, <1>10 DEF Evaluate
  <2>2. \A q \in RunStarts(s) : Excursion(s, q)' = Excursion(s, q)
    BY <1>5, <1>7, <1>10
  <2>3. Excursion(s, r)' = Opened(r)
    BY <1>1, <1>5, <1>10, ExcursionBegins
  <2>4. /\ Len(excs'[s]) = n + 1 /\ excs'[s][n + 1] = Opened(r)
        /\ \A j \in 1..n : excs'[s][j] = es[j]
    BY <1>0, <2>1
  <2>5. su \in [1..(n + 1) -> RunStarts(s)'] /\ su[n + 1] = r /\ \A j \in 1..n : su[j] = st[j] /\ st[j] # r
    <3>1. n \in Nat /\ \A j \in 1..n : st[j] \in RunStarts(s) /\ st[j] # r
      BY <1>0, <1>3, <1>6
    <3> HIDE DEF n, es
    <3>2. n + 1 \in 1..(n + 1) /\ 1..n \subseteq 1..(n + 1) /\ n + 1 \notin 1..n
      BY <3>1
    <3>3. su[n + 1] = r /\ \A j \in 1..n : su[j] = st[j]
      BY <2>0, <3>2
    <3>4. \A j \in 1..(n + 1) : (IF j = n + 1 THEN r ELSE st[j]) \in RunStarts(s)'
      BY <2>1, <3>1
    <3> QED
      BY <2>0, <3>1, <3>3, <3>4
  <2> HIDE DEF n, es
  <2>6. \A j \in 1..(n + 1) : j \in 1..n \/ j = n + 1
    BY <1>0
  <2>7. \A j \in 1..(n + 1) : excs'[s][j] = Excursion(s, su[j])'
    <3>1. \A j \in 1..n : excs'[s][j] = Excursion(s, st[j])'
      BY <1>3, <2>2, <2>4 DEF Lists, n, es
    <3>2. ASSUME NEW j \in 1..(n + 1) PROVE excs'[s][j] = Excursion(s, su[j])'
      <4>1. CASE j = n + 1 BY <2>3, <2>4, <2>5, <4>1
      <4>2. CASE j \in 1..n BY <2>5, <3>1, <4>2
      <4> QED BY <2>6, <4>1, <4>2
    <3> QED
      BY <3>2
  <2>8. \A j, k \in 1..(n + 1) : su[j] = su[k] => j = k
    BY <1>3, <2>5, <2>6 DEF Lists, n, es
  <2>9. \A q \in RunStarts(s)' : \E j \in 1..(n + 1) : su[j] = q
    <3>1. 1..n \subseteq 1..(n + 1) /\ n + 1 \in 1..(n + 1)
      BY <1>0
    <3>2. \A q \in RunStarts(s) : \E j \in 1..n : st[j] = q
      BY <1>3 DEF Lists, n, es
    <3> QED
      BY <2>1, <2>5, <3>1, <3>2
  <2>10. Lists(s, su)'
    BY <2>4, <2>5, <2>7, <2>8, <2>9 DEF Lists
  <2> QED
    BY <1>2, <2>4, <2>5, <2>10 DEF RunsListed
<1>11. ASSUME OpenOf(es, r.dev) # {} PROVE RunsListed(s)'
  <2>1. i \in OpenOf(es, r.dev)
    BY <1>0, <1>11, FirstOpenFound
  <2>2. i \in 1..n
    BY <1>0, <2>1 DEF OpenOf
  <2>3. \A j \in 1..n : Keeps(st[j]) <=> j = i
    BY <1>0, <1>4, <2>1 DEF Single
  <2> DEFINE e == IF InBounds(s, r.temp) THEN Closed(es[i], r) ELSE Extended(es[i], r)
  <2>4. excs'[s] = [es EXCEPT ![i] = e] /\ RunStarts(s)' = RunStarts(s)
    BY <1>8, <1>11, <2>2 DEF Evaluate
  <2>5. Len(excs'[s]) = n /\ \A j \in 1..n : excs'[s][j] = IF j = i THEN e ELSE es[j]
    <3> HIDE DEF e, i
    <3> QED
      BY <1>0, <2>2, <2>4
  <2>6. \A j \in 1..n : excs'[s][j] = Excursion(s, st[j])'
    <3> SUFFICES ASSUME NEW j \in 1..n PROVE excs'[s][j] = Excursion(s, st[j])'
      OBVIOUS
    <3>1. st[j] \in RunStarts(s) /\ es[j] = Excursion(s, st[j])
      BY <1>3 DEF Lists
    <3>2. CASE j = i
      <4>1. Keeps(st[j])
        BY <2>3, <3>2
      <4>2. Excursion(s, st[j])' = e
        BY <1>7, <3>1, <3>2, <4>1
      <4> QED
        BY <2>5, <3>2, <4>2
    <3>3. CASE j # i
      <4>1. ~ Keeps(st[j])
        BY <2>3, <3>3
      <4>2. Excursion(s, st[j])' = es[j]
        BY <1>7, <3>1, <4>1
      <4> QED
        BY <2>5, <3>3, <4>2
    <3> QED
      BY <3>2, <3>3
  <2>7. Lists(s, st)'
    BY <1>3, <2>4, <2>5, <2>6 DEF Lists
  <2> QED
    BY <1>2, <2>4, <2>5, <2>7 DEF RunsListed, Lists
<1> QED
  BY <1>9, <1>10, <1>11

LEMMA SameListed ==
  ASSUME NEW s, RunsListed(s), excs'[s] = excs[s], seen'[s] = seen[s]
  PROVE  RunsListed(s)'
<1>1. Hot(s)' = Hot(s) /\ DistinctSeqs(s)'
  BY DEF Hot, InBounds, DistinctSeqs, RunsListed
<1>2. \A q, p : SameRun(s, q, p)' <=> SameRun(s, q, p)
  BY <1>1 DEF SameRun, Between
<1>3. RunStarts(s)' = RunStarts(s)
  BY <1>1, <1>2 DEF RunStarts
<1>4. \A q : Run(s, q)' = Run(s, q) /\ RunEnds(s, q)' = RunEnds(s, q)
  BY <1>1, <1>2 DEF Run, RunEnds
<1>5. ASSUME NEW q PROVE Excursion(s, q)' = Excursion(s, q)
  <2>1. /\ RunEnds(s, q)' = RunEnds(s, q)
        /\ {p.ts : p \in RunEnds(s, q)'} = {p.ts : p \in RunEnds(s, q)}
        /\ {p.temp : p \in Run(s, q)'} = {p.temp : p \in Run(s, q)}
    BY <1>4
  <2> QED
    BY <2>1, Zenon DEF Excursion
<1>6. PICK st \in [1..Len(excs[s]) -> RunStarts(s)] : Lists(s, st)
  BY DEF RunsListed
<1>7. Lists(s, st)'
  BY <1>3, <1>5, <1>6 DEF Lists
<1> QED
  BY <1>1, <1>3, <1>6, <1>7 DEF RunsListed

(* The inductive invariant of the runs. *)
OrderInv == SingleInv /\ \A s \in Ships : ordered[s] => RunsListed(s)

LEMMA StepListed ==
  ASSUME OrderInv, [Next]_vars PROVE OrderInv'
<1>1. SingleInv /\ SingleInv'
  BY StepSingle DEF OrderInv
<1>2. ASSUME NEW s \in Ships, ordered'[s] PROVE RunsListed(s)'
  <2>1. ASSUME excs'[s] = excs[s], seen'[s] = seen[s], ordered'[s] = ordered[s]
        PROVE  RunsListed(s)'
    <3>1. RunsListed(s)
      BY <1>2, <2>1 DEF OrderInv
    <3> QED
      BY <2>1, <3>1, SameListed
  <2>2. ASSUME NEW r \in Readings, EvaluateReading(r) PROVE RunsListed(s)'
    <3>1. CASE s \in InTransit(r)
      <4>1. /\ seen'[s] = seen[s] \union {r} /\ excs'[s] = Evaluate(s, excs[s], r)
            /\ ordered'[s] = (ordered[s] /\ Newest(s, r))
        BY <2>2, <3>1 DEF EvaluateReading
      <4>2. RunsListed(s) /\ Newest(s, r) /\ r \in ReadingType
        BY <1>2, <4>1, ShipmentsAssumption DEF OrderInv
      <4> QED
        BY <1>1, <4>1, <4>2, EvaluateListed
    <3>2. CASE s \notin InTransit(r)
      <4>1. seen'[s] = seen[s] /\ excs'[s] = excs[s] /\ ordered'[s] = ordered[s]
        BY <2>2, <3>2 DEF EvaluateReading
      <4> QED
        BY <2>1, <4>1
    <3> QED
      BY <3>1, <3>2
  <2> QED
    BY <2>1, <2>2 DEF Next, CreateShipment, CompleteShipment, vars
<1> QED
  BY <1>1, <1>2 DEF OrderInv

LEMMA InitListed == Init => OrderInv
<1> SUFFICES ASSUME Init PROVE OrderInv
  OBVIOUS
<1>1. ASSUME NEW s \in Ships PROVE RunsListed(s)
  <2>1. excs[s] = <<>> /\ seen[s] = {}
    BY DEF Init
  <2>2. Len(excs[s]) = 0 /\ RunStarts(s) = {} /\ IsFiniteSet(seen[s])
    BY <2>1, FS_EmptySet DEF RunStarts, Hot
  <2> DEFINE st == [j \in 1..0 |-> 0]
  <2>3. st \in [1..Len(excs[s]) -> RunStarts(s)] /\ Lists(s, st)
    BY <2>2 DEF Lists
  <2> QED
    BY <2>1, <2>2, <2>3 DEF RunsListed, DistinctSeqs
<1> QED
  BY <1>1, InitSingle DEF OrderInv

LEMMA OrderInvariant == Spec => []OrderInv
BY InitListed, StepListed, PTL DEF Spec

(* As long as the readings of each device come in the order of their numbers, *)
(* the excursions of a shipment are the maximal runs of its out-of-bounds     *)
(* readings, each with the start, end and extremes of its run.               *)
THEOREM RunsOfReadings == Spec => []OrderedRuns
<1>1. OrderInv => OrderedRuns
  BY ListedRuns DEF OrderInv, OrderedRuns, SingleInv, TypeOK
<1> QED
  BY <1>1, OrderInvariant, PTL
=============================================================================
