--------------------------- MODULE CertificateProofs ---------------------------
(***************************************************************************)
(* Proofs about Certificate, for any number of shipments, devices, readings  *)
(* and requests.  First, the evaluation of readings amid certificates and    *)
(* completions is that of Excursions: CertificateSpec implements Spec.  Then *)
(* what statements say, from what no step takes back: a completed shipment   *)
(* stays completed and its excursions frozen, rows stay in the table, a       *)
(* quarantined one stays quarantined, a breach stays announced.              *)
(***************************************************************************)
EXTENDS Certificate, ExcursionsProofs

BuildFields ==
  {"calm", "ship", "sign", "hash", "now", "late", "status", "end", "first", "second", "text"}
CloseFields == {"calm", "ship", "end"}

(* Where a request is building a certificate, and where it has read the        *)
(* shipment.                                                                *)
Building == {"shipment", "rows", "stats", "excursions", "sign"}
Looking == {"rows", "stats", "excursions"}
Labels == {"idle", "close"} \union Building

TablesOK ==
  /\ mark \in [Readings -> Marks] /\ IsFiniteSet(TableRows)
  /\ ended \in [Ships -> Nat] /\ now \in Nat \ {0} /\ builds \in Nat
  /\ \A s \in Ships : phase[s] = "complete" <=> ended[s] # 0
  /\ failed \subseteq Ships

(* What request w holds. *)
BuildOK(w) ==
  LET j == job[w] IN
  /\ DOMAIN j = BuildFields
  /\ j.ship \in Ships /\ j.now \in Nat \ {0} /\ j.now <= now /\ j.sign \in BOOLEAN

LookOK(w) ==
  LET j == job[w] IN
  /\ j.status \in {"in_transit", "complete"} /\ j.end \in Nat
  /\ j.status = "complete" <=> j.end # 0
  /\ j.status = "complete" => phase[j.ship] = "complete"

RowsOK(w) ==
  LET j == job[w] IN
  /\ pc[w] \in {"stats", "excursions"} => DOMAIN j.first \subseteq Window(j)
  /\ pc[w] = "excursions" =>
       /\ DOMAIN j.second \subseteq Window(j)
       /\ \A r \in DOMAIN j.first : r \in DOMAIN j.second /\ j.second[r] = j.first[r]

CloseOK(w) ==
  LET j == job[w] IN
  /\ w \in Closers
  /\ DOMAIN j = CloseFields /\ j.ship \in Ships /\ j.end \in Nat \ {0}
  /\ phase[j.ship] # "none"

JobOK(w) ==
  /\ pc[w] = "idle" <=> job[w] = NoJob
  /\ pc[w] \in Building => BuildOK(w)
  /\ pc[w] \in Looking => LookOK(w)
  /\ RowsOK(w)
  /\ pc[w] = "close" => CloseOK(w)

(* The inductive invariant of tables and requests. *)
CoreInv ==
  /\ BreachInv
  /\ TablesOK
  /\ pc \in [Workers -> Labels] /\ DOMAIN job = Workers
  /\ \A w \in Workers : JobOK(w)

(* What no step takes back. *)
Forward ==
  /\ [Next]_vars
  /\ now <= now'
  /\ \A s \in Ships : phase[s] = "complete" => phase'[s] = "complete" /\ excs'[s] = excs[s]
  /\ \A s \in Ships : phase[s] # "none" => phase'[s] # "none"
  /\ \A s \in Ships : Breaches(s) \subseteq Breaches(s)'
  /\ \A r \in TableRows :
       r \in TableRows' /\ (mark[r] = "quarantined" => mark'[r] = "quarantined")

(* A step of a request that touches no evidence, and a step that stores a     *)
(* reading.                                                                 *)
Quiet(w) ==
  \/ StartCertificate(w) \/ ReadShipment(w) \/ ReadRows(w) \/ ReadStats(w)
  \/ ReadExcursions(w) \/ Sign(w) \/ StartClose(w)
Stores(r) == Accept(r) \/ Quarantine(r) \/ \E q \in Readings : Correct(q, r)

LEMMA StepKinds ==
  ASSUME [CertificateNext]_allVars
  PROVE  \/ \E w \in Workers : Quiet(w) \/ WriteClose(w)
         \/ \E s \in Ships : Create(s)
         \/ \E r \in Readings : Stores(r)
         \/ Tick
         \/ UNCHANGED allVars
BY DEF CertificateNext, Quiet, Stores

-----------------------------------------------------------------------------
(* What each kind of step leaves alone. *)
LEMMA QuietStep ==
  ASSUME NEW w \in Workers, Quiet(w)
  PROVE  /\ UNCHANGED <<phase, detection, mark, ended, now>>
         /\ \E l, j : pc' = [pc EXCEPT ![w] = l] /\ job' = [job EXCEPT ![w] = j]
<1>1. UNCHANGED <<phase, detection, mark, ended, now>>
  BY DEF Quiet, StartCertificate, ReadShipment, ReadRows, ReadStats, ReadExcursions, Sign, StartClose
<1>2. CASE StartCertificate(w)
  BY <1>1, <1>2 DEF StartCertificate, Goto
<1>3. CASE ReadShipment(w)
  BY <1>1, <1>3 DEF ReadShipment, Goto, Finish
<1>4. CASE ReadRows(w)
  BY <1>1, <1>4 DEF ReadRows, Goto
<1>5. CASE ReadStats(w)
  BY <1>1, <1>5 DEF ReadStats, Goto
<1>6. CASE ReadExcursions(w)
  BY <1>1, <1>6 DEF ReadExcursions, Goto, Finish
<1>7. CASE Sign(w)
  BY <1>1, <1>7 DEF Sign, Goto, Finish
<1>8. CASE StartClose(w)
  BY <1>1, <1>8 DEF StartClose, Goto
<1> QED
  BY <1>2, <1>3, <1>4, <1>5, <1>6, <1>7, <1>8 DEF Quiet

(* A correction has a number that no row of its device has. *)
LEMMA NextNumber ==
  ASSUME CoreInv, NEW q \in Readings, NEW r \in Readings, Correct(q, r)
  PROVE  r \notin TableRows
<1> DEFINE S == {x.seq : x \in {y \in TableRows : y.dev = q.dev}}
<1>1. Readings \subseteq ReadingType
  BY ShipmentsAssumption
<1>2. \A x \in S : x \in Nat
  BY <1>1 DEF TableRows, ReadingType
<1>3. IsFiniteSet(S)
  <2>1. IsFiniteSet({y \in TableRows : y.dev = q.dev})
    <3>1. IsFiniteSet(TableRows)
      BY DEF CoreInv, TablesOK
    <3> QED
      BY <3>1, FS_Subset
  <2> DEFINE f == [y \in TableRows |-> y.seq]
  <2>2. S = {f[y] : y \in {y \in TableRows : y.dev = q.dev}}
    OBVIOUS
  <2>3. IsFiniteSet({f[y] : y \in {y \in TableRows : y.dev = q.dev}})
    BY <2>1, FiniteImage
  <2> QED
    BY <2>2, <2>3
<1>4. q.seq \in S
  BY DEF Correct, Correctable, TableRows
<1>5. \E n \in S : \A m \in S : m <= n
  BY <1>2, <1>3, <1>4, GreatestNumber
<1>6. Max(S) \in S /\ \A m \in S : m <= Max(S)
  BY <1>2, <1>5 DEF Max
<1>7. r.seq = Max(S) + 1 /\ r.dev = q.dev
  BY DEF Correct
<1>8. r \in TableRows => r.seq \in S
  BY <1>7
<1> HIDE DEF S
<1> QED
  BY <1>2, <1>6, <1>7, <1>8

(* A reading is stored as a new row; the row it corrects was accepted. *)
LEMMA StoresStep ==
  ASSUME CoreInv, NEW r \in Readings, Stores(r)
  PROVE  /\ UNCHANGED <<ended, now, pc, shown, signed, failed, builds>>
         /\ job' = Disturbed /\ current' = {}
         /\ EvaluateReading(r) \/ UNCHANGED vars
         /\ UNCHANGED phase
         /\ TableRows' = TableRows \union {r}
         /\ mark' \in [Readings -> Marks]
         /\ \A p \in TableRows : mark[p] = "quarantined" => mark'[p] = "quarantined"
<1>0. mark \in [Readings -> Marks]
  BY DEF CoreInv, TablesOK
<1>1. CASE Accept(r)
  <2>1. r \notin TableRows
    BY <1>1 DEF Accept, Fresh
  <2> QED
    BY <1>0, <1>1, <2>1 DEF Accept, EvaluateReading, TableRows, Marks
<1>2. CASE Quarantine(r)
  <2>1. r \notin TableRows
    BY <1>2 DEF Quarantine, Fresh
  <2> QED
    BY <1>0, <1>2, <2>1 DEF Quarantine, TableRows, Marks, vars, detection
<1>3. ASSUME NEW q \in Readings, Correct(q, r)
      PROVE  /\ UNCHANGED <<ended, now, pc, shown, signed, failed, builds>>
             /\ job' = Disturbed /\ current' = {}
             /\ EvaluateReading(r) \/ UNCHANGED vars
             /\ UNCHANGED phase
             /\ TableRows' = TableRows \union {r}
             /\ mark' \in [Readings -> Marks]
             /\ \A p \in TableRows : mark[p] = "quarantined" => mark'[p] = "quarantined"
  <2>1. r \notin TableRows
    BY <1>3, NextNumber
  <2>2. mark[q] = "accepted" /\ mark' = [mark EXCEPT ![q] = "superseded", ![r] = "accepted"]
    BY <1>3 DEF Correct, Correctable
  <2>3. /\ UNCHANGED <<ended, now, pc, shown, signed, failed, builds>>
        /\ job' = Disturbed /\ current' = {}
        /\ EvaluateReading(r)
        /\ UNCHANGED phase
    BY <1>3 DEF Correct, EvaluateReading
  <2>4. \A p \in Readings : mark'[p] = IF p = r THEN "accepted" ELSE IF p = q THEN "superseded" ELSE mark[p]
    BY <1>0, <2>2
  <2>5. mark' \in [Readings -> Marks]
    BY <1>0, <2>2 DEF Marks
  <2> QED
    BY <2>1, <2>2, <2>3, <2>4, <2>5 DEF TableRows
<1> QED
  BY <1>1, <1>2, <1>3 DEF Stores

-----------------------------------------------------------------------------
(* CertificateSpec implements Spec. *)
LEMMA CloseStep ==
  ASSUME CoreInv, NEW w \in Workers, WriteClose(w)
  PROVE  LET j == job[w] IN
         /\ CloseOK(w)
         /\ phase \in [Ships -> {"none", "in_transit", "complete"}]
         /\ phase' = [phase EXCEPT ![j.ship] = "complete"]
         /\ ended' = [ended EXCEPT ![j.ship] = j.end]
         /\ CompleteShipment(j.ship) \/ UNCHANGED vars
         /\ UNCHANGED <<detection, mark, now, shown, signed, failed, builds>>
<1>1. CloseOK(w)
  BY DEF CoreInv, JobOK, WriteClose
<1>2. phase \in [Ships -> {"none", "in_transit", "complete"}]
  BY DEF CoreInv, BreachInv, SingleInv, TypeOK
<1>3. phase[job[w].ship] \in {"in_transit", "complete"}
  BY <1>1, <1>2 DEF CloseOK
<1>4. phase[job[w].ship] = "complete" => phase' = phase
  BY <1>1, <1>2 DEF WriteClose, CloseOK
<1> QED
  BY <1>1, <1>2, <1>3, <1>4 DEF WriteClose, CompleteShipment, vars, detection

LEMMA StepMaps ==
  ASSUME CoreInv, [CertificateNext]_allVars
  PROVE  [Next]_vars
<1>1. ASSUME NEW w \in Workers, Quiet(w) PROVE UNCHANGED vars
  BY <1>1, QuietStep DEF vars, detection
<1>2. ASSUME NEW w \in Workers, WriteClose(w) PROVE [Next]_vars
  <2>1. job[w].ship \in Ships
    BY <1>2, CloseStep DEF CloseOK
  <2>2. CompleteShipment(job[w].ship) \/ UNCHANGED vars
    BY <1>2, CloseStep
  <2> QED
    BY <2>1, <2>2 DEF Next
<1>3. ASSUME NEW s \in Ships, Create(s) PROVE Next
  BY <1>3 DEF Create, Next
<1>4. ASSUME NEW r \in Readings, Stores(r) PROVE [Next]_vars
  BY <1>4, StoresStep DEF Next
<1>5. CASE Tick \/ UNCHANGED allVars
  BY <1>5 DEF Tick, allVars, vars, detection
<1> QED
  BY <1>1, <1>2, <1>3, <1>4, <1>5, StepKinds

(* Nothing is taken back. *)
LEMMA StepForward ==
  ASSUME CoreInv, [CertificateNext]_allVars
  PROVE  Forward
<1>0. SingleInv /\ [Next]_vars
  BY StepMaps DEF CoreInv, BreachInv
<1>1. now <= now'
  <2>0. now \in Nat
    BY DEF CoreInv, TablesOK
  <2>1. ASSUME NEW w \in Workers, Quiet(w) PROVE now' = now
    BY <2>1, QuietStep
  <2>2. ASSUME NEW w \in Workers, WriteClose(w) PROVE now' = now
    BY <2>2 DEF WriteClose
  <2>3. ASSUME NEW s \in Ships, Create(s) PROVE now' = now
    BY <2>3 DEF Create
  <2>4. ASSUME NEW r \in Readings, Stores(r) PROVE now' = now
    BY <2>4, StoresStep
  <2>5. Tick => now' = now + 1
    BY DEF Tick
  <2>6. UNCHANGED allVars => now' = now
    BY DEF allVars
  <2> QED
    BY <2>0, <2>1, <2>2, <2>3, <2>4, <2>5, <2>6, StepKinds
<1>2. ASSUME NEW s \in Ships
      PROVE  /\ phase[s] = "complete" => phase'[s] = "complete"
             /\ phase[s] # "none" => phase'[s] # "none"
  <2>0. phase \in [Ships -> {"none", "in_transit", "complete"}]
    BY <1>0 DEF SingleInv, TypeOK
  <2> QED
    BY <1>0, <2>0 DEF Next, CreateShipment, CompleteShipment, EvaluateReading, vars
<1>3. \A s \in Ships : phase[s] = "complete" => excs'[s] = excs[s]
  BY <1>0, StepKept DEF KeepsEvidence
<1>4. \A s \in Ships : Breaches(s) \subseteq Breaches(s)'
  BY <1>0, StepBreaches
<1>5. ASSUME NEW r \in TableRows
      PROVE  r \in TableRows' /\ (mark[r] = "quarantined" => mark'[r] = "quarantined")
  <2>1. ASSUME NEW w \in Workers, Quiet(w) PROVE mark' = mark
    BY <2>1, QuietStep
  <2>2. ASSUME NEW w \in Workers, WriteClose(w) PROVE mark' = mark
    BY <2>2 DEF WriteClose
  <2>3. ASSUME NEW s \in Ships, Create(s) PROVE mark' = mark
    BY <2>3 DEF Create
  <2>4. Tick \/ UNCHANGED allVars => mark' = mark
    BY DEF Tick, allVars
  <2>5. CASE mark' = mark
    BY <2>5 DEF TableRows
  <2>6. ASSUME NEW p \in Readings, Stores(p)
        PROVE  r \in TableRows' /\ (mark[r] = "quarantined" => mark'[r] = "quarantined")
    BY <2>6, StoresStep
  <2> QED
    BY <2>1, <2>2, <2>3, <2>4, <2>5, <2>6, StepKinds
<1> QED
  BY <1>0, <1>1, <1>2, <1>3, <1>4, <1>5 DEF Forward

LEMMA StepTables ==
  ASSUME CoreInv, [CertificateNext]_allVars
  PROVE  BreachInv' /\ TablesOK'
<1>0. BreachInv'
  BY StepMaps, StepTold DEF CoreInv
<1>1. CASE UNCHANGED <<phase, mark, ended, now, failed, builds>>
  BY <1>0, <1>1 DEF CoreInv, TablesOK, TableRows
<1>2. ASSUME NEW w \in Workers, Quiet(w) PROVE TablesOK'
  <2>1. UNCHANGED <<phase, mark, ended, now>>
    BY <1>2, QuietStep
  <2>2. builds' \in {builds, builds + 1}
    BY <1>2 DEF Quiet, StartCertificate, ReadShipment, ReadRows, ReadStats, ReadExcursions, Sign, StartClose
  <2>3. failed' \subseteq Ships
    <3>1. CASE ReadExcursions(w)
      <4>1. job[w].ship \in Ships
        BY <3>1 DEF ReadExcursions, CoreInv, JobOK, BuildOK, Building
      <4>2. Built(job[w]).ship = job[w].ship
        BY DEF Built, Statement
      <4> QED
        BY <3>1, <4>1, <4>2 DEF ReadExcursions, CoreInv, TablesOK
    <3>2. CASE failed' = failed
      BY <3>2 DEF CoreInv, TablesOK
    <3>3. CASE StartCertificate(w) \/ ReadShipment(w) \/ ReadRows(w) \/ ReadStats(w)
      BY <3>2, <3>3 DEF StartCertificate, ReadShipment, ReadRows, ReadStats, statements
    <3>4. CASE Sign(w) \/ StartClose(w)
      BY <3>2, <3>4 DEF Sign, StartClose, statements
    <3> QED
      BY <1>2, <3>1, <3>3, <3>4 DEF Quiet
  <2> QED
    BY <2>1, <2>2, <2>3 DEF CoreInv, TablesOK, TableRows
<1>3. ASSUME NEW w \in Workers, WriteClose(w) PROVE TablesOK'
  <2> DEFINE z == job[w].ship
             end == job[w].end
  <2>1. /\ z \in Ships /\ end \in Nat \ {0}
        /\ phase \in [Ships -> {"none", "in_transit", "complete"}]
        /\ phase' = [phase EXCEPT ![z] = "complete"] /\ ended' = [ended EXCEPT ![z] = end]
        /\ UNCHANGED <<mark, now, failed, builds>>
    BY <1>3, CloseStep DEF CloseOK
  <2> HIDE DEF z, end
  <2>2. ended \in [Ships -> Nat] /\ \A s \in Ships : phase[s] = "complete" <=> ended[s] # 0
    BY DEF CoreInv, TablesOK
  <2>3. ended' \in [Ships -> Nat] /\ \A s \in Ships : phase'[s] = "complete" <=> ended'[s] # 0
    BY <2>1, <2>2
  <2>4. TableRows' = TableRows
    BY <2>1 DEF TableRows
  <2> QED
    BY <2>1, <2>3, <2>4 DEF CoreInv, TablesOK
<1>4. ASSUME NEW s \in Ships, Create(s) PROVE TablesOK'
  <2>1. phase[s] = "none" /\ phase' = [phase EXCEPT ![s] = "in_transit"]
    BY <1>4 DEF Create, CreateShipment
  <2>2. phase \in [Ships -> {"none", "in_transit", "complete"}]
    BY DEF CoreInv, BreachInv, SingleInv, TypeOK
  <2>3. UNCHANGED <<mark, ended, now, failed, builds>>
    BY <1>4 DEF Create, statements
  <2> QED
    BY <2>1, <2>2, <2>3 DEF CoreInv, TablesOK, TableRows
<1>5. ASSUME NEW r \in Readings, Stores(r) PROVE TablesOK'
  <2>1. IsFiniteSet(TableRows \union {r})
    BY FS_AddElement DEF CoreInv, TablesOK
  <2> QED
    BY <1>5, <2>1, StoresStep DEF CoreInv, TablesOK
<1>6. CASE Tick
  <2>1. now' = now + 1 /\ UNCHANGED <<phase, mark, ended, failed, builds>>
    BY <1>6 DEF Tick, statements
  <2> QED
    BY <1>0, <2>1 DEF CoreInv, TablesOK, TableRows
<1>7. CASE UNCHANGED allVars
  BY <1>1, <1>7 DEF allVars, statements
<1> QED
  BY <1>0, <1>1, <1>2, <1>3, <1>4, <1>5, <1>6, <1>7, StepKinds

-----------------------------------------------------------------------------
(* Requests.  A step of others leaves a request alone, but for its note of     *)
(* whether the evidence has changed.                                        *)
Same(v) ==
  /\ pc'[v] = pc[v]
  /\ \/ job'[v] = job[v]
     \/ pc[v] # "idle" /\ job'[v] = [job[v] EXCEPT !.calm = FALSE]

LEMMA SameFields ==
  ASSUME CoreInv, NEW v \in Workers, Same(v)
  PROVE  /\ DOMAIN job'[v] = DOMAIN job[v]
         /\ \A f \in DOMAIN job[v] : f # "calm" => job'[v][f] = job[v][f]
BY DEF Same

LEMMA SameJobOK ==
  ASSUME CoreInv, Forward, TablesOK', NEW v \in Workers, Same(v)
  PROVE  JobOK(v)'
<1>0. JobOK(v) /\ pc[v] \in Labels
  BY DEF CoreInv
<1>1. pc'[v] = pc[v]
  BY DEF Same
<1>2. /\ DOMAIN job'[v] = DOMAIN job[v]
      /\ \A f \in DOMAIN job[v] : f # "calm" => job'[v][f] = job[v][f]
  BY SameFields
<1>3. CASE pc[v] = "idle"
  BY <1>0, <1>1, <1>3 DEF Same, JobOK, RowsOK, Building, Looking
<1>4. CASE pc[v] = "close"
  <2>1. DOMAIN job[v] = CloseFields /\ job[v].ship \in Ships /\ phase[job[v].ship] # "none"
    BY <1>0, <1>4 DEF JobOK, CloseOK
  <2>2. job'[v].ship = job[v].ship /\ job'[v].end = job[v].end
    BY <1>2, <2>1 DEF CloseFields
  <2>3. phase'[job[v].ship] # "none"
    BY <2>1 DEF Forward
  <2>4. CloseOK(v)'
    BY <1>0, <1>2, <1>4, <2>1, <2>2, <2>3 DEF JobOK, CloseOK
  <2>5. job'[v] # NoJob
    BY <1>2, <2>1 DEF NoJob, CloseFields
  <2> QED
    BY <1>1, <1>4, <2>4, <2>5 DEF JobOK, RowsOK, Building, Looking
<1>5. CASE pc[v] \in Building
  <2>1. BuildOK(v)
    BY <1>0, <1>5 DEF JobOK
  <2>2. /\ job'[v].ship = job[v].ship /\ job'[v].now = job[v].now /\ job'[v].sign = job[v].sign
        /\ job'[v].status = job[v].status /\ job'[v].end = job[v].end
        /\ job'[v].first = job[v].first /\ job'[v].second = job[v].second
    BY <1>2, <2>1 DEF BuildOK, BuildFields
  <2>3. BuildOK(v)'
    BY <1>2, <2>1, <2>2 DEF BuildOK, Forward, CoreInv, TablesOK
  <2>4. LookOK(v) => LookOK(v)'
    BY <2>1, <2>2 DEF LookOK, BuildOK, Forward
  <2>5. Window(job[v]) \subseteq Window(job[v])'
    BY <2>1, <2>2 DEF Window, Forward, InWindow
  <2>6. RowsOK(v) => RowsOK(v)'
    BY <1>1, <2>2, <2>5 DEF RowsOK
  <2>7. job'[v] # NoJob
    BY <1>2, <2>1 DEF NoJob, BuildOK, BuildFields
  <2> QED
    BY <1>0, <1>1, <1>5, <2>3, <2>4, <2>6, <2>7 DEF JobOK, Building
<1> QED
  BY <1>0, <1>3, <1>4, <1>5 DEF Labels

(* The steps of a request itself. *)
LEMMA QuietJobOK ==
  ASSUME CoreInv, NEW w \in Workers, Quiet(w)
  PROVE  JobOK(w)' /\ pc'[w] \in Labels
<1>0. /\ JobOK(w) /\ pc[w] \in Labels /\ w \in DOMAIN job /\ w \in DOMAIN pc
      /\ UNCHANGED <<phase, detection, mark, ended, now>>
      /\ now \in Nat \ {0} /\ ended \in [Ships -> Nat]
      /\ phase \in [Ships -> {"none", "in_transit", "complete"}]
      /\ \A s \in Ships : phase[s] = "complete" <=> ended[s] # 0
  BY QuietStep DEF CoreInv, TablesOK, BreachInv, SingleInv, TypeOK
<1>1. CASE StartCertificate(w)
  <2>1. PICK s \in Ships, sign \in BOOLEAN, h \in {NoHash} \union shown : job' = [job EXCEPT ![w] = BuildJob(s, sign, h)]
    BY <1>1 DEF StartCertificate
  <2>2. job'[w] = BuildJob(s, sign, h) /\ pc'[w] = "shipment"
    BY <1>0, <1>1, <2>1 DEF StartCertificate, Goto
  <2>3. /\ DOMAIN job'[w] = BuildFields
        /\ job'[w].ship = s /\ job'[w].now = now /\ job'[w].sign = sign
    BY <2>2 DEF BuildJob, BuildFields
  <2>4. job'[w] # NoJob
    BY <2>3 DEF NoJob, BuildFields
  <2> QED
    BY <1>0, <2>2, <2>3, <2>4 DEF JobOK, BuildOK, RowsOK, Building, Looking, Labels
<1>2. CASE pc'[w] = "idle" /\ job'[w] = NoJob
  BY <1>2 DEF JobOK, RowsOK, Building, Looking, Labels
<1>3. CASE ReadShipment(w)
  <2>1. BuildOK(w)
    BY <1>0, <1>3 DEF JobOK, ReadShipment, Building
  <2>2. CASE phase[job[w].ship] = "none"
    BY <1>0, <1>2, <1>3, <2>2 DEF ReadShipment, Finish, Goto
  <2>3. CASE phase[job[w].ship] # "none"
    <3>1. /\ job' = [job EXCEPT ![w].status = phase[job[w].ship], ![w].end = ended[job[w].ship]]
          /\ pc'[w] = "rows"
      BY <1>0, <1>3, <2>3 DEF ReadShipment, Goto
    <3>2. job'[w] = [job[w] EXCEPT !.status = phase[job[w].ship], !.end = ended[job[w].ship]]
      BY <1>0, <3>1
    <3>3. /\ DOMAIN job'[w] = BuildFields
          /\ job'[w].ship = job[w].ship /\ job'[w].now = job[w].now /\ job'[w].sign = job[w].sign
          /\ job'[w].status = phase[job[w].ship] /\ job'[w].end = ended[job[w].ship]
      BY <2>1, <3>2 DEF BuildOK, BuildFields
    <3>4. job'[w] # NoJob
      BY <3>3 DEF NoJob, BuildFields
    <3>5. BuildOK(w)'
      BY <1>0, <2>1, <3>3 DEF BuildOK
    <3>6. LookOK(w)'
      BY <1>0, <2>1, <2>3, <3>3 DEF LookOK, BuildOK
    <3> QED
      BY <3>1, <3>4, <3>5, <3>6 DEF JobOK, RowsOK, Building, Looking, Labels
  <2> QED
    BY <2>2, <2>3
<1>4. CASE ReadRows(w)
  <2>1. BuildOK(w) /\ LookOK(w)
    BY <1>0, <1>4 DEF JobOK, ReadRows, Building, Looking
  <2> DEFINE held == [r \in Window(job[w]) |-> mark[r]]
  <2>2. job'[w] = [job[w] EXCEPT !.first = held] /\ pc'[w] = "stats"
    BY <1>0, <1>4 DEF ReadRows, Goto
  <2>3. DOMAIN held = Window(job[w])
    OBVIOUS
  <2> HIDE DEF held
  <2>4. /\ DOMAIN job'[w] = BuildFields
        /\ job'[w].ship = job[w].ship /\ job'[w].now = job[w].now /\ job'[w].sign = job[w].sign
        /\ job'[w].status = job[w].status /\ job'[w].end = job[w].end
        /\ job'[w].first = held
    BY <2>1, <2>2 DEF BuildOK, BuildFields
  <2>5. job'[w] # NoJob
    BY <2>4 DEF NoJob, BuildFields
  <2>6. BuildOK(w)' /\ LookOK(w)'
    BY <1>0, <2>1, <2>4 DEF BuildOK, LookOK
  <2>7. Window(job[w])' = Window(job[w])
    BY <1>0, <2>4 DEF Window, TableRows, InWindow
  <2> QED
    BY <2>2, <2>3, <2>4, <2>5, <2>6, <2>7 DEF JobOK, RowsOK, Building, Looking, Labels
<1>5. CASE ReadStats(w)
  <2>1. BuildOK(w) /\ LookOK(w) /\ DOMAIN job[w].first \subseteq Window(job[w])
    BY <1>0, <1>5 DEF JobOK, RowsOK, ReadStats, Building, Looking
  <2> DEFINE held == job[w].first
             again == [r \in Window(job[w]) |-> IF r \in DOMAIN held THEN held[r] ELSE mark[r]]
  <2>2. job'[w] = [job[w] EXCEPT !.second = again] /\ pc'[w] = "excursions"
    BY <1>0, <1>5 DEF ReadStats, Goto
  <2>3. /\ DOMAIN again = Window(job[w])
        /\ \A r \in DOMAIN job[w].first : r \in DOMAIN again /\ again[r] = job[w].first[r]
    BY <2>1
  <2> HIDE DEF again
  <2>4. /\ DOMAIN job'[w] = BuildFields
        /\ job'[w].ship = job[w].ship /\ job'[w].now = job[w].now /\ job'[w].sign = job[w].sign
        /\ job'[w].status = job[w].status /\ job'[w].end = job[w].end
        /\ job'[w].first = job[w].first /\ job'[w].second = again
    BY <2>1, <2>2 DEF BuildOK, BuildFields
  <2>5. job'[w] # NoJob
    BY <2>4 DEF NoJob, BuildFields
  <2>6. BuildOK(w)' /\ LookOK(w)'
    BY <1>0, <2>1, <2>4 DEF BuildOK, LookOK
  <2>7. Window(job[w])' = Window(job[w])
    BY <1>0, <2>4 DEF Window, TableRows, InWindow
  <2> QED
    BY <2>1, <2>2, <2>3, <2>4, <2>5, <2>6, <2>7 DEF JobOK, RowsOK, Building, Looking, Labels
<1>6. CASE ReadExcursions(w)
  <2>1. BuildOK(w)
    BY <1>0, <1>6 DEF JobOK, ReadExcursions, Building
  <2>2. CASE Finish(w)
    BY <1>0, <1>2, <2>2 DEF Finish, Goto
  <2>3. CASE job' = [job EXCEPT ![w].text = Built(job[w])] /\ Goto(w, "sign")
    <3>1. job'[w] = [job[w] EXCEPT !.text = Built(job[w])] /\ pc'[w] = "sign"
      BY <1>0, <2>3 DEF Goto
    <3>2. /\ DOMAIN job'[w] = BuildFields
          /\ job'[w].ship = job[w].ship /\ job'[w].now = job[w].now /\ job'[w].sign = job[w].sign
      BY <2>1, <3>1 DEF BuildOK, BuildFields
    <3>3. job'[w] # NoJob
      BY <3>2 DEF NoJob, BuildFields
    <3>4. BuildOK(w)'
      BY <1>0, <2>1, <3>2 DEF BuildOK
    <3> QED
      BY <3>1, <3>3, <3>4 DEF JobOK, RowsOK, Building, Looking, Labels
  <2> QED
    BY <1>6, <2>2, <2>3 DEF ReadExcursions
<1>7. CASE Sign(w)
  BY <1>0, <1>2, <1>7 DEF Sign, Finish, Goto
<1>8. CASE StartClose(w)
  <2>1. PICK s \in Ships, end \in Ends :
          /\ phase[s] = "in_transit"
          /\ job' = [job EXCEPT ![w] = [calm |-> TRUE, ship |-> s, end |-> IF end = 0 THEN now ELSE end]]
    BY <1>8 DEF StartClose
  <2>2. /\ pc'[w] = "close" /\ w \in Closers
        /\ job'[w] = [calm |-> TRUE, ship |-> s, end |-> IF end = 0 THEN now ELSE end]
    BY <1>0, <1>8, <2>1 DEF StartClose, Goto
  <2>3. end \in Nat
    BY CertificateAssumption
  <2>4. CloseOK(w)'
    BY <1>0, <2>1, <2>2, <2>3 DEF CloseOK, CloseFields
  <2>5. job'[w] # NoJob
    BY <2>2 DEF NoJob
  <2> QED
    BY <2>2, <2>4, <2>5 DEF JobOK, RowsOK, Building, Looking, Labels
<1> QED
  BY <1>1, <1>3, <1>4, <1>5, <1>6, <1>7, <1>8 DEF Quiet

(* Readings, completions and the clock leave other requests alone. *)
LEMMA StepSame ==
  ASSUME CoreInv, [CertificateNext]_allVars
  PROVE  /\ \A v \in Workers :
              \/ Same(v)
              \/ Quiet(v)
              \/ WriteClose(v) /\ pc'[v] = "idle" /\ job'[v] = NoJob
         /\ DOMAIN job' = Workers /\ DOMAIN pc' = Workers
<1>0. DOMAIN job = Workers /\ DOMAIN pc = Workers
  BY DEF CoreInv
<1> DEFINE Goal ==
      /\ \A v \in Workers :
           \/ Same(v)
           \/ Quiet(v)
           \/ WriteClose(v) /\ pc'[v] = "idle" /\ job'[v] = NoJob
      /\ DOMAIN job' = Workers /\ DOMAIN pc' = Workers
<1>1. ASSUME NEW w \in Workers, Quiet(w) PROVE Goal
  <2>1. PICK l, j : pc' = [pc EXCEPT ![w] = l] /\ job' = [job EXCEPT ![w] = j]
    BY <1>1, QuietStep
  <2> QED
    BY <1>0, <1>1, <2>1 DEF Same
<1>2. ASSUME job' = Disturbed, pc' = pc PROVE Goal
  BY <1>0, <1>2 DEF Disturbed, Same
<1>3. ASSUME NEW w \in Workers, WriteClose(w) PROVE Goal
  <2>1. job' = [Disturbed EXCEPT ![w] = NoJob] /\ pc' = [pc EXCEPT ![w] = "idle"]
    BY <1>3 DEF WriteClose, Goto
  <2> QED
    BY <1>0, <1>3, <2>1 DEF Disturbed, Same
<1>4. ASSUME NEW r \in Readings, Stores(r) PROVE Goal
  BY <1>2, <1>4, StoresStep
<1>5. ASSUME UNCHANGED requests PROVE Goal
  BY <1>0, <1>5 DEF Same, requests
<1>6. ASSUME NEW s \in Ships, Create(s) PROVE Goal
  BY <1>5, <1>6 DEF Create
<1>7. ASSUME Tick \/ UNCHANGED allVars PROVE Goal
  BY <1>5, <1>7 DEF Tick, allVars
<1> HIDE DEF Goal
<1>8. Goal
  BY <1>1, <1>3, <1>4, <1>6, <1>7, StepKinds
<1> QED
  BY <1>8 DEF Goal

LEMMA StepCore ==
  ASSUME CoreInv, [CertificateNext]_allVars
  PROVE  CoreInv'
<1>1. BreachInv' /\ TablesOK' /\ Forward
  BY StepTables, StepForward
<1>2. ASSUME NEW v \in Workers PROVE JobOK(v)' /\ pc'[v] \in Labels
  <2>1. CASE Same(v)
    BY <1>1, <2>1, SameJobOK DEF Same, CoreInv
  <2>2. CASE Quiet(v)
    BY <2>2, QuietJobOK
  <2>3. CASE pc'[v] = "idle" /\ job'[v] = NoJob
    BY <2>3 DEF JobOK, RowsOK, Building, Looking, Labels
  <2> QED
    BY <2>1, <2>2, <2>3, StepSame
<1>3. DOMAIN job' = Workers /\ pc' \in [Workers -> Labels]
  <2>1. DOMAIN job' = Workers /\ DOMAIN pc' = Workers
    BY StepSame
  <2>2. pc' = [v \in Workers |-> pc'[v]]
    <3>1. \A f : pc' = f => DOMAIN f = Workers
      BY <2>1
    <3>2. CASE \E w \in Workers : Quiet(w)
      BY <3>2, QuietStep DEF CoreInv
    <3>3. CASE \E w \in Workers : WriteClose(w)
      BY <3>3 DEF WriteClose, Goto, CoreInv
    <3>4. CASE pc' = pc
      BY <3>4 DEF CoreInv
    <3>5. ASSUME NEW s \in Ships, Create(s) PROVE pc' = pc
      BY <3>5 DEF Create, requests
    <3>6. ASSUME NEW r \in Readings, Stores(r) PROVE pc' = pc
      BY <3>6, StoresStep
    <3>7. Tick \/ UNCHANGED allVars => pc' = pc
      BY DEF Tick, allVars, requests
    <3> QED
      BY <3>2, <3>3, <3>4, <3>5, <3>6, <3>7, StepKinds
  <2> QED
    BY <1>2, <2>1, <2>2
<1> QED
  BY <1>1, <1>2, <1>3 DEF CoreInv

LEMMA InitCore ==
  ASSUME CertificateInit
  PROVE  CoreInv
<1>1. BreachInv
  BY InitTold DEF CertificateInit
<1>2. TablesOK
  <2>1. mark \in [Readings -> Marks] /\ TableRows = {}
    BY DEF CertificateInit, Marks, TableRows
  <2>2. phase = [s \in Ships |-> "none"]
    BY DEF CertificateInit, Init
  <2> QED
    BY <2>1, <2>2, FS_EmptySet DEF CertificateInit, TablesOK
<1>3. pc = [w \in Workers |-> "idle"] /\ job = [w \in Workers |-> NoJob]
  BY DEF CertificateInit
<1> QED
  BY <1>1, <1>2, <1>3 DEF CoreInv, JobOK, RowsOK, Building, Looking, Labels

LEMMA CoreInvariant == CertificateSpec => []CoreInv
BY InitCore, StepCore, PTL DEF CertificateSpec

(* Amid certificates, approvals, corrections and completions, readings are    *)
(* evaluated as in Excursions, so that all that is proved of it holds here.   *)
THEOREM DetectionUndisturbed == CertificateSpec => Spec
<1>1. CertificateInit => Init
  BY DEF CertificateInit
<1>2. CoreInv /\ [CertificateNext]_allVars => [Next]_vars
  BY StepMaps
<1> QED
  BY CoreInvariant, <1>1, <1>2, PTL DEF CertificateSpec, Spec

-----------------------------------------------------------------------------
(* Statements.  Texts are those about to be signed. *)
Texts == {job[w].text : w \in {v \in Workers : pc[v] = "sign"}}

(* Statements are built from what a request holds, and signed from Texts. *)
LEMMA StatementsStep ==
  ASSUME CoreInv, [CertificateNext]_allVars
  PROVE  /\ \A x \in shown' :
              x \in shown \/ \E w \in Workers : pc[w] = "excursions" /\ x = Built(job[w])
         /\ \A x \in current' :
              \/ x \in current
              \/ \E w \in Workers : /\ pc[w] = "excursions" /\ x = Built(job[w])
                                    /\ job[w].calm /\ x.status = "complete"
         /\ \A x \in Texts' :
              \/ x \in Texts
              \/ \E w \in Workers : pc[w] = "excursions" /\ x = Built(job[w]) /\ Signable(x)
         /\ signed' \subseteq signed \union Texts
         /\ \A s \in failed' :
              \/ s \in failed
              \/ \E w \in Workers : /\ pc[w] = "excursions" /\ s = job[w].ship
                                    /\ FailsForGood(Built(job[w]))
<1>0. \A v \in Workers :
        \/ Same(v)
        \/ Quiet(v)
        \/ pc'[v] = "idle"
  BY StepSame
<1>1. ASSUME NEW x \in Texts'
      PROVE  \/ x \in Texts
             \/ \E w \in Workers : pc[w] = "excursions" /\ x = Built(job[w]) /\ Signable(x)
  <2>1. PICK v \in Workers : pc'[v] = "sign" /\ x = job'[v].text
    BY DEF Texts
  <2>2. CASE Same(v)
    <3>1. pc[v] = "sign" /\ BuildOK(v)
      BY <2>1, <2>2 DEF Same, CoreInv, JobOK, Building
    <3>2. job'[v].text = job[v].text
      BY <2>2, <3>1, SameFields DEF BuildOK, BuildFields
    <3> QED
      BY <2>1, <3>1, <3>2 DEF Texts
  <2>3. CASE Quiet(v)
    <3>0. v \in DOMAIN pc /\ v \in DOMAIN job
      BY DEF CoreInv
    <3>1. ReadExcursions(v)
      BY <2>1, <2>3, <3>0 DEF Quiet, StartCertificate, ReadShipment, ReadRows, ReadStats, Sign,
        StartClose, Goto, Finish
    <3>2. pc[v] = "excursions" /\ BuildOK(v)
      BY <3>1 DEF ReadExcursions, CoreInv, JobOK, Building
    <3>3. /\ job' = [job EXCEPT ![v].text = Built(job[v])]
          /\ Signable(Built(job[v]))
      BY <2>1, <3>0, <3>1 DEF ReadExcursions, Goto, Finish
    <3>4. job'[v].text = Built(job[v])
      BY <3>0, <3>2, <3>3 DEF BuildOK, BuildFields
    <3> QED
      BY <2>1, <3>2, <3>3, <3>4
  <2> QED
    BY <1>0, <2>1, <2>2, <2>3
<1> DEFINE Goal ==
      /\ \A x \in shown' :
           x \in shown \/ \E w \in Workers : pc[w] = "excursions" /\ x = Built(job[w])
      /\ \A x \in current' :
           \/ x \in current
           \/ \E w \in Workers : /\ pc[w] = "excursions" /\ x = Built(job[w])
                                 /\ job[w].calm /\ x.status = "complete"
      /\ signed' \subseteq signed \union Texts
      /\ \A s \in failed' :
           \/ s \in failed
           \/ \E w \in Workers : /\ pc[w] = "excursions" /\ s = job[w].ship
                                 /\ FailsForGood(Built(job[w]))
<1>2. ASSUME UNCHANGED <<shown, signed, failed>>, current' \in {current, {}} PROVE Goal
  BY <1>2
<1>3. ASSUME NEW w \in Workers, ReadExcursions(w) PROVE Goal
  <2>1. Built(job[w]).ship = job[w].ship
    BY DEF Built, Statement
  <2>2. pc[w] = "excursions" /\ signed' = signed
    BY <1>3 DEF ReadExcursions
  <2> DEFINE x == Built(job[w])
  <2>3. /\ shown' \subseteq shown \union {x}
        /\ failed' = IF FailsForGood(x) THEN failed \union {x.ship} ELSE failed
        /\ current' = IF job[w].calm /\ x.status = "complete" THEN current \union {x} ELSE current
    BY <1>3 DEF ReadExcursions
  <2> HIDE DEF x
  <2> QED
    BY <2>1, <2>2, <2>3 DEF x
<1>4. ASSUME NEW w \in Workers, Sign(w) PROVE Goal
  BY <1>4 DEF Sign, Texts
<1>5. ASSUME NEW w \in Workers, Quiet(w) PROVE Goal
  BY <1>2, <1>3, <1>4, <1>5 DEF Quiet, StartCertificate, ReadShipment, ReadRows, ReadStats,
    StartClose, statements
<1>6. ASSUME NEW w \in Workers, WriteClose(w) PROVE Goal
  BY <1>2, <1>6 DEF WriteClose
<1>7. ASSUME NEW s \in Ships, Create(s) PROVE Goal
  BY <1>2, <1>7 DEF Create, statements
<1>8. ASSUME NEW r \in Readings, Stores(r) PROVE Goal
  BY <1>2, <1>8, StoresStep
<1>9. ASSUME Tick \/ UNCHANGED allVars PROVE Goal
  BY <1>2, <1>9 DEF Tick, allVars, statements
<1> HIDE DEF Goal
<1>10. Goal
  BY <1>5, <1>6, <1>7, <1>8, <1>9, StepKinds
<1> QED
  BY <1>1, <1>10 DEF Goal

OpenOnes(es) == {i \in DOMAIN es : es[i].status = "open"}
ClosedOnes(es) == {i \in DOMAIN es : es[i].status = "closed"}
RowsOf(x) == {r \in TableRows : InWindow(x.ship, x.to, r)}

(* What a statement says, and goes on to be true. *)
Said(x) ==
  /\ x.ship \in Ships
  /\ (x.verdict = "incomplete") = (x.status # "complete")
  /\ x.minutes \in Int /\ x.total \in Nat /\ x.quarantined \in Nat
  /\ x.total + x.quarantined <= Cardinality(RowsOf(x))
  /\ x.status = "complete" =>
       /\ phase[x.ship] = "complete"
       /\ x.open = Cardinality(OpenOnes(excs[x.ship]))
       /\ x.closed = Cardinality(ClosedOnes(excs[x.ship]))
       /\ x.minutes * Minute <= TotalSpan(excs[x.ship], now)
       /\ x.verdict = "pass" => TotalSpan(excs[x.ship], 0) < (Budget[x.ship] + 1) * Minute
  /\ x.open = 0 /\ x.minutes > Budget[x.ship] /\ Cardinality(DevicesOf[x.ship]) = 1
       => Breaches(x.ship) # {}

SaidInv ==
  /\ \A x \in shown \union signed \union current \union Texts : Said(x)
  /\ \A x \in signed \union Texts : x.status = "complete"

LEMMA RowsFinite ==
  ASSUME CoreInv, NEW x
  PROVE  IsFiniteSet(RowsOf(x)) /\ Cardinality(RowsOf(x)) \in Nat
<1>1. IsFiniteSet(TableRows) /\ RowsOf(x) \in SUBSET TableRows
  BY DEF CoreInv, TablesOK, RowsOf
<1>2. IsFiniteSet(RowsOf(x))
  BY <1>1, FS_Subset
<1> QED
  BY <1>2, FS_CardinalityType

LEMMA SaidKept ==
  ASSUME CoreInv, CoreInv', Forward, NEW x, Said(x)
  PROVE  Said(x)'
<1>1. x.total + x.quarantined <= Cardinality(RowsOf(x)')
  <2>1. RowsOf(x) \subseteq RowsOf(x)'
    BY DEF RowsOf, Forward, InWindow
  <2>2. IsFiniteSet(RowsOf(x)') /\ Cardinality(RowsOf(x)') \in Nat
    <3>1. IsFiniteSet(TableRows') /\ RowsOf(x)' \in SUBSET TableRows'
      BY DEF CoreInv, TablesOK, RowsOf
    <3>2. IsFiniteSet(RowsOf(x)')
      BY <3>1, FS_Subset
    <3> QED
      BY <3>2, FS_CardinalityType
  <2>3. Cardinality(RowsOf(x)) <= Cardinality(RowsOf(x)')
    BY <2>1, <2>2, FS_Subset
  <2>4. Cardinality(RowsOf(x)) \in Nat
    BY RowsFinite
  <2>5. x.total \in Nat /\ x.quarantined \in Nat /\ x.total + x.quarantined <= Cardinality(RowsOf(x))
    BY DEF Said
  <2> QED
    BY <2>2, <2>3, <2>4, <2>5
<1>2. Breaches(x.ship) # {} => Breaches(x.ship)' # {}
  BY DEF Said, Forward
<1>3. ASSUME x.status = "complete"
      PROVE  /\ phase'[x.ship] = "complete"
             /\ excs'[x.ship] = excs[x.ship]
             /\ x.minutes * Minute <= TotalSpan(excs[x.ship], now')
  <2>1. /\ x.ship \in Ships /\ phase[x.ship] = "complete"
        /\ x.minutes \in Int /\ x.minutes * Minute <= TotalSpan(excs[x.ship], now)
    BY <1>3 DEF Said
  <2>2. excs[x.ship] \in Seq(ExcType) /\ now \in Nat /\ now' \in Nat /\ now <= now'
    BY <2>1 DEF CoreInv, TablesOK, BreachInv, SingleInv, TypeOK, Forward
  <2>3. TotalSpan(excs[x.ship], now) <= TotalSpan(excs[x.ship], now')
    BY <2>2, TotalGrows
  <2>4. TotalSpan(excs[x.ship], now) \in Int /\ TotalSpan(excs[x.ship], now') \in Int
    BY <2>2, TotalNumber
  <2> DEFINE m == x.minutes * Minute
  <2>5. m \in Int
    BY <2>1, ShipmentsAssumption
  <2>6. m <= TotalSpan(excs[x.ship], now)
    BY <2>1
  <2> HIDE DEF m
  <2>7. m <= TotalSpan(excs[x.ship], now')
    BY <2>3, <2>4, <2>5, <2>6
  <2> QED
    BY <2>1, <2>7 DEF Forward, m
<1> QED
  BY <1>1, <1>2, <1>3 DEF Said

(* Whole minutes, and what they say of the time they are the minutes of. *)
LEMMA WholeMinutes ==
  ASSUME NEW a \in Int, NEW b \in Nat
  PROVE  LET m == a \div Minute IN
         /\ m \in Int /\ m * Minute <= a
         /\ m > b => b * Minute < a
         /\ m <= b => a < (b + 1) * Minute
<1> DEFINE M == Minute
           m == a \div M
<1>0. M \in Nat \ {0}
  BY ShipmentsAssumption
<1> HIDE DEF M
<1>1. m \in Int /\ a = M * m + (a % M) /\ a % M \in 0..(M - 1)
  BY <1>0
<1> HIDE DEF m
<1>2. m * M <= a /\ a < m * M + M
  BY <1>0, <1>1
<1>3. ASSUME m > b PROVE b * M < a
  <2>1. (b + 1) * M <= m * M
    BY <1>0, <1>1, <1>3
  <2>2. (b + 1) * M = b * M + M /\ b * M \in Int /\ m * M \in Int
    BY <1>0, <1>1
  <2> QED
    BY <1>0, <1>2, <2>1, <2>2
<1>4. ASSUME m <= b PROVE a < (b + 1) * M
  <2>1. m * M <= b * M
    BY <1>0, <1>1, <1>4
  <2>2. (b + 1) * M = b * M + M /\ b * M \in Int /\ m * M \in Int
    BY <1>0, <1>1
  <2> QED
    BY <1>0, <1>2, <2>1, <2>2
<1> QED
  BY <1>1, <1>2, <1>3, <1>4 DEF m, M

(* The readings that a statement counts are rows of its window. *)
LEMMA BuiltCounts ==
  ASSUME CoreInv, NEW w \in Workers, pc[w] = "excursions"
  PROVE  LET x == Built(job[w]) IN
         /\ x.total \in Nat /\ x.quarantined \in Nat
         /\ x.total + x.quarantined <= Cardinality(RowsOf(x))
<1> DEFINE j == job[w]
           x == Built(j)
           A == With(j.second, "accepted") \union With(j.second, "superseded")
           Q == With(j.first, "quarantined")
<1>1. /\ x.total = Cardinality(A) /\ x.quarantined = Cardinality(Q)
      /\ x.ship = j.ship /\ x.to = WindowEnd(j.end, j.now)
  BY DEF Built, Statement
<1>2. RowsOK(w)
  BY DEF CoreInv, JobOK
<1> HIDE DEF x
<1>3. A \subseteq RowsOf(x) /\ Q \subseteq RowsOf(x)
  <2>1. RowsOf(x) = Window(j)
    BY <1>1 DEF RowsOf, Window
  <2> QED
    BY <1>2, <2>1 DEF RowsOK, With
<1>4. A \cap Q = {}
  BY <1>2 DEF RowsOK, With
<1> HIDE DEF A, Q
<1>5. IsFiniteSet(RowsOf(x)) /\ Cardinality(RowsOf(x)) \in Nat
  BY RowsFinite
<1>6. /\ IsFiniteSet(A) /\ IsFiniteSet(Q)
      /\ A \union Q \in SUBSET RowsOf(x)
  BY <1>3, <1>5, FS_Subset
<1>7. Cardinality(A) \in Nat /\ Cardinality(Q) \in Nat
  BY <1>6, FS_CardinalityType
<1>8. Cardinality(A \union Q) = Cardinality(A) + Cardinality(Q) - Cardinality({})
  BY <1>4, <1>6, FS_Union
<1>9. Cardinality({}) = 0
  BY FS_EmptySet
<1>10. Cardinality(A \union Q) <= Cardinality(RowsOf(x))
  BY <1>5, <1>6, FS_Subset
<1>11. Cardinality(A) + Cardinality(Q) <= Cardinality(RowsOf(x))
  BY <1>7, <1>8, <1>9, <1>10
<1> QED
  BY <1>1, <1>7, <1>11 DEF x

LEMMA NoneOpen ==
  ASSUME NEW es \in Seq(ExcType), Cardinality(OpenOnes(es)) = 0
  PROVE  \A i \in DOMAIN es : es[i].status = "closed"
<1>1. IsFiniteSet(DOMAIN es) /\ \A i \in DOMAIN es : es[i] \in ExcType
  BY SpansNumbers
<1>2. IsFiniteSet(OpenOnes(es))
  <2>1. OpenOnes(es) \in SUBSET (DOMAIN es)
    BY DEF OpenOnes
  <2> QED
    BY <1>1, <2>1, FS_Subset
<1>3. OpenOnes(es) = {}
  BY <1>2, FS_EmptySet
<1> QED
  BY <1>1, <1>3 DEF OpenOnes, ExcType

(* What a request is about to say holds of the tables. *)
LEMMA BuiltSaid ==
  ASSUME CoreInv, NEW w \in Workers, pc[w] = "excursions"
  PROVE  Said(Built(job[w]))
<1> DEFINE j == job[w]
           x == Built(j)
           es == excs[j.ship]
           minutes == TotalSpan(es, j.now) \div Minute
           quarantined == Cardinality(With(j.first, "quarantined"))
<1>1. BuildOK(w) /\ LookOK(w)
  BY DEF CoreInv, JobOK, Building, Looking
<1>2. /\ j.ship \in Ships /\ j.now \in Nat /\ j.now <= now /\ now \in Nat
      /\ j.status \in {"in_transit", "complete"}
      /\ j.status = "complete" => phase[j.ship] = "complete"
  BY <1>1 DEF BuildOK, LookOK, CoreInv, TablesOK
<1>3. es \in Seq(ExcType) /\ Budget[j.ship] \in Nat
  BY <1>2, ShipmentsAssumption DEF CoreInv, BreachInv, SingleInv, TypeOK
<1>4. /\ x.ship = j.ship /\ x.status = j.status
      /\ x.open = Cardinality(OpenOnes(es)) /\ x.closed = Cardinality(ClosedOnes(es))
      /\ x.minutes = minutes /\ x.quarantined = quarantined
      /\ x.verdict = Verdict(j.ship, j.status, minutes, x.temps, quarantined)
  BY DEF Built, Statement, OpenOnes, ClosedOnes
<1>5. /\ x.total \in Nat /\ x.quarantined \in Nat
      /\ x.total + x.quarantined <= Cardinality(RowsOf(x))
  BY BuiltCounts
<1>6. TotalSpan(es, 0) \in Int /\ TotalSpan(es, j.now) \in Int /\ TotalSpan(es, now) \in Int
  BY <1>2, <1>3, TotalNumber
<1>7. TotalSpan(es, 0) <= TotalSpan(es, j.now) /\ TotalSpan(es, j.now) <= TotalSpan(es, now)
  <2>1. 0 \in Nat /\ 0 <= j.now
    BY <1>2
  <2> QED
    BY <1>2, <1>3, <2>1, TotalGrows
<1>8. /\ minutes \in Int /\ minutes * Minute <= TotalSpan(es, j.now)
      /\ minutes > Budget[j.ship] => Budget[j.ship] * Minute < TotalSpan(es, j.now)
      /\ minutes <= Budget[j.ship] => TotalSpan(es, j.now) < (Budget[j.ship] + 1) * Minute
  BY <1>3, <1>6, WholeMinutes
<1>9. (x.verdict = "incomplete") = (x.status # "complete")
  BY <1>4 DEF Verdict, Reasons
<1>10. x.minutes * Minute <= TotalSpan(es, now)
  <2> DEFINE p == minutes * Minute
  <2>1. p \in Int
    BY <1>8, ShipmentsAssumption
  <2>2. p <= TotalSpan(es, j.now)
    BY <1>8
  <2> HIDE DEF p, minutes, es
  <2>3. p <= TotalSpan(es, now)
    BY <1>6, <1>7, <2>1, <2>2
  <2> QED
    BY <1>4, <2>3 DEF p
<1>11. x.verdict = "pass" => TotalSpan(es, 0) < (Budget[j.ship] + 1) * Minute
  <2> SUFFICES ASSUME x.verdict = "pass" PROVE TotalSpan(es, 0) < (Budget[j.ship] + 1) * Minute
    OBVIOUS
  <2>1. ~ (minutes > Budget[j.ship])
    BY <1>4 DEF Verdict, Reasons
  <2> DEFINE p == (Budget[j.ship] + 1) * Minute
  <2>2. p \in Int
    BY <1>3, ShipmentsAssumption
  <2>3. TotalSpan(es, j.now) < p
    BY <1>3, <1>8, <2>1
  <2> HIDE DEF p, minutes, es
  <2>4. TotalSpan(es, 0) < p
    BY <1>6, <1>7, <2>2, <2>3
  <2> QED
    BY <2>4 DEF p
<1>12. ASSUME x.open = 0, x.minutes > Budget[x.ship], Cardinality(DevicesOf[x.ship]) = 1
       PROVE  Breaches(x.ship) # {}
  <2>1. \A i \in DOMAIN es : es[i].status = "closed"
    BY <1>3, <1>4, <1>12, NoneOpen
  <2>2. TotalSpan(es, 0) = TotalSpan(es, j.now)
    <3>1. 0 \in Nat /\ 0 <= j.now
      BY <1>2
    <3> QED
      BY <1>2, <1>3, <2>1, <3>1, TotalGrows
  <2>3. Budget[j.ship] * Minute < TotalSpan(es, 0)
    BY <1>4, <1>8, <1>12, <2>2
  <2> DEFINE B == Budget[j.ship] * Minute
  <2>4. B \in Int /\ B < TotalSpan(es, 0)
    BY <1>3, <2>3, ShipmentsAssumption
  <2>5. Cardinality(Breaches(j.ship)) = IF TotalSpan(es, 0) > B THEN 1 ELSE 0
    BY <1>2, <1>4, <1>12 DEF CoreInv, BreachInv, BreachExact
  <2> HIDE DEF B, es
  <2>6. Cardinality(Breaches(j.ship)) = 1
    BY <1>6, <2>4, <2>5
  <2>7. Cardinality({}) = 0
    BY FS_EmptySet
  <2>8. x.ship = j.ship
    BY <1>4
  <2> HIDE DEF x
  <2> QED
    BY <2>6, <2>7, <2>8
<1> HIDE DEF x, es, minutes, quarantined
<1>13. x.minutes \in Int
  BY <1>4, <1>8
<1> QED
  BY <1>2, <1>4, <1>5, <1>9, <1>10, <1>11, <1>12, <1>13 DEF Said, x, es

LEMMA StepSaid ==
  ASSUME CoreInv, SaidInv, [CertificateNext]_allVars
  PROVE  SaidInv'
<1>0. CoreInv' /\ Forward
  BY StepCore, StepForward
<1>1. ASSUME NEW x \in (shown \union signed \union current \union Texts)' PROVE Said(x)
  <2>1. x \in shown' \/ x \in signed' \/ x \in current' \/ x \in Texts'
    OBVIOUS
  <2>2. \/ x \in shown \union signed \union current \union Texts
        \/ \E w \in Workers : pc[w] = "excursions" /\ x = Built(job[w])
    BY <2>1, StatementsStep
  <2> QED
    BY <2>2, BuiltSaid DEF SaidInv
<1>2. ASSUME NEW x \in (shown \union signed \union current \union Texts)' PROVE Said(x)'
  BY <1>0, <1>1, <1>2, SaidKept
<1>3. ASSUME NEW x \in (signed \union Texts)' PROVE x.status = "complete"
  <2>1. \/ x \in signed \union Texts
        \/ \E w \in Workers : pc[w] = "excursions" /\ x = Built(job[w]) /\ Signable(x)
    BY StatementsStep
  <2>2. ASSUME Signable(x), Said(x) PROVE x.status = "complete"
    BY <2>2 DEF Signable, Said
  <2> QED
    BY <2>1, <2>2, BuiltSaid DEF SaidInv
<1> QED
  BY <1>2, <1>3 DEF SaidInv

LEMMA SaidInvariant == CertificateSpec => []SaidInv
<1>1. ASSUME CertificateInit PROVE SaidInv
  <2>1. shown = {} /\ signed = {} /\ current = {} /\ Texts = {}
    BY <1>1 DEF CertificateInit, Texts
  <2> QED
    BY <2>1 DEF SaidInv
<1> QED
  BY <1>1, StepSaid, CoreInvariant, PTL DEF CertificateSpec

(* The tables, requests and statements of certificates keep their types, and  *)
(* a statement about a completed shipment, and only such a one, has a verdict. *)
THEOREM CertificateTypeCorrect == CertificateSpec => []CertificateTypeOK
<1>1. ASSUME CoreInv, SaidInv PROVE CertificateTypeOK
  <2>1. TypeOK
    BY <1>1 DEF CoreInv, BreachInv, SingleInv
  <2>2. /\ mark \in [Readings -> Marks]
        /\ ended \in [Ships -> Nat] /\ now \in Nat /\ builds \in Nat
        /\ \A s \in Ships : phase[s] # "complete" => ended[s] = 0
        /\ failed \subseteq Ships
    BY <1>1 DEF CoreInv, TablesOK
  <2>3. pc \in [Workers -> {"idle", "shipment", "rows", "stats", "excursions", "sign", "close"}]
    BY <1>1 DEF CoreInv, Labels, Building
  <2>4. \A w \in Workers : pc[w] = "idle" <=> job[w] = NoJob
    BY <1>1 DEF CoreInv, JobOK
  <2>5. \A x \in shown \union signed \union current :
          x.ship \in Ships /\ (x.verdict = "incomplete") = (x.status # "complete")
    BY <1>1 DEF SaidInv, Said
  <2> QED
    BY <2>1, <2>2, <2>3, <2>4, <2>5 DEF CertificateTypeOK
<1> QED
  BY CoreInvariant, SaidInvariant, <1>1, PTL

(* Only final statements are signed, whatever is stored or completed while    *)
(* they are built, and one that passes is within the budget for good.        *)
THEOREM FinalSigned == CertificateSpec => []SignedFinal
<1>1. SaidInv => SignedFinal
  BY DEF SaidInv, Said, SignedFinal
<1> QED
  BY SaidInvariant, <1>1, PTL

(* No certificate of a shipment with one device and no open excursion exceeds *)
(* the budget unless the breach has been announced.                         *)
THEOREM AnnouncedBreach == CertificateSpec => []BreachAnnounced
<1>1. SaidInv => BreachAnnounced
  BY DEF SaidInv, Said, BreachAnnounced
<1> QED
  BY SaidInvariant, <1>1, PTL

-----------------------------------------------------------------------------
(* Statements about the evidence as it is.  Marked are the rows in the window *)
(* of a completed shipment, with their statuses.                            *)
RowsNow(s) == {r \in TableRows : InWindow(s, ended[s], r)}
Marked(s) == [r \in RowsNow(s) |-> mark[r]]

About(x) ==
  /\ x.ship \in Ships /\ phase[x.ship] = "complete"
  /\ \E t \in Nat :
       x = Statement(x.ship, "complete", ended[x.ship], t, Marked(x.ship), Marked(x.ship), excs[x.ship])

(* A request under which the evidence has not changed holds it as it is. *)
CalmJob(w) ==
  LET j == job[w] IN
  pc[w] \in Looking /\ j.calm =>
    /\ j.status = phase[j.ship] /\ j.end = ended[j.ship]
    /\ pc[w] \in {"stats", "excursions"} /\ j.status = "complete" => j.first = Marked(j.ship)
    /\ pc[w] = "excursions" /\ j.status = "complete" => j.second = Marked(j.ship)

CalmInv ==
  /\ \A w \in Workers : CalmJob(w)
  /\ \A x \in current : About(x)

(* The steps that leave the evidence of created shipments alone. *)
Undisturbed ==
  /\ UNCHANGED <<mark, ended, excs>>
  /\ \A s \in Ships : phase[s] # "none" => phase'[s] = phase[s]

LEMMA CalmKinds ==
  ASSUME CoreInv, [CertificateNext]_allVars
  PROVE  \/ Undisturbed
         \/ /\ current' = {}
            /\ \A v \in Workers : pc'[v] \in Looking => job'[v].calm = FALSE
<1>1. ASSUME NEW w \in Workers, Quiet(w) PROVE Undisturbed
  BY <1>1, QuietStep DEF Undisturbed, detection
<1>2. ASSUME NEW v \in Workers, pc'[v] = pc[v], pc'[v] \in Looking, job'[v] = Disturbed[v]
      PROVE  job'[v].calm = FALSE
  <2>1. job'[v] = [job[v] EXCEPT !.calm = FALSE]
    BY <1>2 DEF Disturbed, Looking
  <2>2. DOMAIN job[v] = BuildFields
    BY <1>2 DEF CoreInv, JobOK, BuildOK, Looking, Building
  <2> QED
    BY <2>1, <2>2 DEF BuildFields
<1>3. ASSUME NEW w \in Workers, WriteClose(w)
      PROVE  /\ current' = {}
             /\ \A v \in Workers : pc'[v] \in Looking => job'[v].calm = FALSE
  <2>1. /\ job' = [Disturbed EXCEPT ![w] = NoJob] /\ pc' = [pc EXCEPT ![w] = "idle"]
        /\ current' = {}
    BY <1>3 DEF WriteClose, Goto
  <2>2. DOMAIN Disturbed = Workers /\ DOMAIN pc = Workers
    BY DEF Disturbed, CoreInv
  <2>3. ASSUME NEW v \in Workers, pc'[v] \in Looking PROVE job'[v].calm = FALSE
    <3>1. v # w
      BY <2>1, <2>2, <2>3 DEF Looking
    <3>2. pc'[v] = pc[v] /\ job'[v] = Disturbed[v]
      BY <2>1, <2>2, <3>1
    <3> QED
      BY <1>2, <2>3, <3>2
  <2> QED
    BY <2>1, <2>3
<1>4. ASSUME NEW s \in Ships, Create(s) PROVE Undisturbed
  <2>1. phase[s] = "none" /\ phase' = [phase EXCEPT ![s] = "in_transit"] /\ UNCHANGED <<mark, ended, excs>>
    BY <1>4 DEF Create, CreateShipment
  <2> QED
    BY <2>1 DEF Undisturbed
<1>5. ASSUME NEW r \in Readings, Stores(r)
      PROVE  /\ current' = {}
             /\ \A v \in Workers : pc'[v] \in Looking => job'[v].calm = FALSE
  BY <1>2, <1>5, StoresStep
<1>6. ASSUME Tick \/ UNCHANGED allVars PROVE Undisturbed
  BY <1>6 DEF Tick, allVars, detection, Undisturbed
<1> QED
  BY <1>1, <1>3, <1>4, <1>5, <1>6, StepKinds

LEMMA MarkedSame ==
  ASSUME Undisturbed, NEW s
  PROVE  Marked(s)' = Marked(s)
BY DEF Undisturbed, Marked, RowsNow, TableRows, InWindow

LEMMA AboutKept ==
  ASSUME Undisturbed, NEW x, About(x)
  PROVE  About(x)'
<1>1. Marked(x.ship)' = Marked(x.ship)
  BY MarkedSame
<1>2. excs' = excs /\ ended' = ended /\ phase'[x.ship] = phase[x.ship]
  BY DEF Undisturbed, About
<1>3. x.ship \in Ships /\ phase[x.ship] = "complete"
  BY DEF About
<1>4. PICK t \in Nat :
        x = Statement(x.ship, "complete", ended[x.ship], t, Marked(x.ship), Marked(x.ship), excs[x.ship])
  BY DEF About
<1>5. x = Statement(x.ship, "complete", ended'[x.ship], t, Marked(x.ship)', Marked(x.ship)', excs'[x.ship])
  BY <1>1, <1>2, <1>4
<1> QED
  BY <1>2, <1>3, <1>5 DEF About

(* A calm request reads the evidence as it is. *)
LEMMA CalmQuiet ==
  ASSUME CoreInv, Undisturbed, NEW w \in Workers, Quiet(w), CalmJob(w)
  PROVE  CalmJob(w)'
<1>0. /\ w \in DOMAIN pc /\ w \in DOMAIN job /\ JobOK(w)
      /\ ended' = ended /\ phase' = phase /\ mark' = mark
      /\ \A s \in Ships : phase[s] = "complete" <=> ended[s] # 0
  BY QuietStep DEF CoreInv, TablesOK
<1>1. CASE pc'[w] \notin Looking
  BY <1>1 DEF CalmJob
<1>2. CASE ReadShipment(w)
  <2>1. BuildOK(w)
    BY <1>0, <1>2 DEF JobOK, ReadShipment, Building
  <2>2. CASE phase[job[w].ship] = "none"
    BY <1>0, <1>1, <1>2, <2>2 DEF ReadShipment, Finish, Goto, Looking
  <2>3. CASE phase[job[w].ship] # "none"
    <3>1. /\ job'[w] = [job[w] EXCEPT !.status = phase[job[w].ship], !.end = ended[job[w].ship]]
          /\ pc'[w] = "rows"
      BY <1>0, <1>2, <2>3 DEF ReadShipment, Goto
    <3>2. /\ job'[w].ship = job[w].ship
          /\ job'[w].status = phase[job[w].ship] /\ job'[w].end = ended[job[w].ship]
      BY <2>1, <3>1 DEF BuildOK, BuildFields
    <3> QED
      BY <1>0, <3>1, <3>2 DEF CalmJob
  <2> QED
    BY <2>2, <2>3
<1>3. CASE ReadRows(w)
  <2> DEFINE j == job[w]
             held == [r \in Window(j) |-> mark[r]]
  <2>1. BuildOK(w) /\ LookOK(w) /\ pc[w] = "rows"
    BY <1>0, <1>3 DEF JobOK, ReadRows, Building, Looking
  <2>2. job'[w] = [j EXCEPT !.first = held] /\ pc'[w] = "stats"
    BY <1>0, <1>3 DEF ReadRows, Goto
  <2>3. ASSUME j.calm, j.status = "complete" PROVE held = Marked(j.ship)
    <3>1. j.end = ended[j.ship] /\ j.end # 0
      BY <2>1, <2>3 DEF CalmJob, LookOK, Looking
    <3>2. Window(j) = RowsNow(j.ship)
      BY <3>1 DEF Window, WindowEnd, RowsNow
    <3> QED
      BY <3>2 DEF Marked
  <2> HIDE DEF held
  <2>4. /\ job'[w].ship = j.ship /\ job'[w].status = j.status /\ job'[w].end = j.end
        /\ job'[w].first = held /\ job'[w].calm = j.calm
    BY <2>1, <2>2 DEF BuildOK, BuildFields
  <2>5. \A s : Marked(s)' = Marked(s)
    BY MarkedSame
  <2> QED
    BY <1>0, <2>1, <2>2, <2>3, <2>4, <2>5 DEF CalmJob, Looking
<1>4. CASE ReadStats(w)
  <2> DEFINE j == job[w]
             again == [r \in Window(j) |-> IF r \in DOMAIN j.first THEN j.first[r] ELSE mark[r]]
  <2>1. BuildOK(w) /\ LookOK(w) /\ pc[w] = "stats"
    BY <1>0, <1>4 DEF JobOK, ReadStats, Building, Looking
  <2>2. job'[w] = [j EXCEPT !.second = again] /\ pc'[w] = "excursions"
    BY <1>0, <1>4 DEF ReadStats, Goto
  <2>3. ASSUME j.calm, j.status = "complete" PROVE again = Marked(j.ship) /\ j.first = Marked(j.ship)
    <3>1. j.end = ended[j.ship] /\ j.end # 0 /\ j.first = Marked(j.ship)
      BY <2>1, <2>3 DEF CalmJob, LookOK, Looking
    <3>2. Window(j) = RowsNow(j.ship)
      BY <3>1 DEF Window, WindowEnd, RowsNow
    <3>3. again = [r \in RowsNow(j.ship) |-> mark[r]]
      BY <3>1, <3>2 DEF Marked
    <3> QED
      BY <3>1, <3>3 DEF Marked
  <2> HIDE DEF again
  <2>4. /\ job'[w].ship = j.ship /\ job'[w].status = j.status /\ job'[w].end = j.end
        /\ job'[w].first = j.first /\ job'[w].second = again /\ job'[w].calm = j.calm
    BY <2>1, <2>2 DEF BuildOK, BuildFields
  <2>5. \A s : Marked(s)' = Marked(s)
    BY MarkedSame
  <2> QED
    BY <1>0, <2>1, <2>2, <2>3, <2>4, <2>5 DEF CalmJob, Looking
<1>5. CASE pc'[w] \in {"shipment", "idle", "sign", "close"}
  BY <1>1, <1>5 DEF Looking
<1> QED
  BY <1>0, <1>2, <1>3, <1>4, <1>5 DEF Quiet, StartCertificate, ReadExcursions, Sign, StartClose,
    Goto, Finish

LEMMA CalmSame ==
  ASSUME CoreInv, Undisturbed, NEW v \in Workers, Same(v), CalmJob(v)
  PROVE  CalmJob(v)'
<1>1. CASE pc[v] \notin Looking
  BY <1>1 DEF Same, CalmJob
<1>2. CASE pc[v] \in Looking /\ ~ job'[v].calm
  BY <1>2 DEF CalmJob
<1>3. CASE pc[v] \in Looking /\ job'[v].calm
  <2>1. BuildOK(v) /\ LookOK(v)
    BY <1>3 DEF CoreInv, JobOK, Looking, Building
  <2>2. pc'[v] = pc[v] /\ job'[v] = job[v]
    <3>1. CASE job'[v] = [job[v] EXCEPT !.calm = FALSE]
      <4>1. job'[v].calm = FALSE
        BY <2>1, <3>1 DEF BuildOK, BuildFields
      <4> QED
        BY <1>3, <4>1
    <3> QED
      BY <3>1 DEF Same
  <2>3. \A s : Marked(s)' = Marked(s)
    BY MarkedSame
  <2>4. job[v].status = phase[job[v].ship]
    BY <1>3, <2>2 DEF CalmJob
  <2>5. phase'[job[v].ship] = phase[job[v].ship]
    BY <2>1, <2>4 DEF LookOK, BuildOK, Undisturbed
  <2> QED
    BY <1>3, <2>2, <2>3, <2>5 DEF CalmJob, Undisturbed
<1> QED
  BY <1>1, <1>2, <1>3

LEMMA StepCalm ==
  ASSUME CoreInv, CalmInv, [CertificateNext]_allVars
  PROVE  CalmInv'
<1>1. CASE /\ current' = {}
           /\ \A v \in Workers : pc'[v] \in Looking => job'[v].calm = FALSE
  BY <1>1 DEF CalmInv, CalmJob
<1>2. CASE Undisturbed
  <2>1. ASSUME NEW v \in Workers PROVE CalmJob(v)'
    <3>1. CASE Same(v)
      BY <1>2, <3>1, CalmSame DEF CalmInv
    <3>2. CASE Quiet(v)
      BY <1>2, <3>2, CalmQuiet DEF CalmInv
    <3>3. CASE pc'[v] = "idle"
      BY <3>3 DEF CalmJob, Looking
    <3> QED
      BY <3>1, <3>2, <3>3, StepSame
  <2>2. ASSUME NEW x \in current' PROVE About(x)
    <3>1. CASE x \in current
      BY <3>1 DEF CalmInv
    <3>2. ASSUME NEW w \in Workers, pc[w] = "excursions", x = Built(job[w]), job[w].calm,
                 x.status = "complete"
          PROVE  About(x)
      <4> DEFINE j == job[w]
      <4>1. BuildOK(w) /\ LookOK(w)
        BY <3>2 DEF CoreInv, JobOK, Building, Looking
      <4>2. x.ship = j.ship /\ x.status = j.status
        BY <3>2 DEF Built, Statement
      <4>3. /\ j.status = phase[j.ship] /\ j.end = ended[j.ship]
            /\ j.first = Marked(j.ship) /\ j.second = Marked(j.ship)
        BY <3>2, <4>2 DEF CalmInv, CalmJob, Looking
      <4>4. x = Statement(j.ship, "complete", ended[j.ship], j.now, Marked(j.ship), Marked(j.ship), excs[j.ship])
        BY <3>2, <4>2, <4>3 DEF Built
      <4> QED
        BY <3>2, <4>1, <4>2, <4>3, <4>4 DEF About, BuildOK
    <3> QED
      BY <3>1, <3>2, StatementsStep
  <2>3. \A x \in current' : About(x)'
    BY <1>2, <2>2, AboutKept
  <2> QED
    BY <2>1, <2>3 DEF CalmInv
<1> QED
  BY <1>1, <1>2, CalmKinds

(* Final statements about the same evidence are the same, however many        *)
(* requests build them at once and whenever, if no excursion was left open.   *)
THEOREM StableStatements == CertificateSpec => []StableOnceClosed
<1>1. ASSUME CertificateInit PROVE CalmInv
  BY <1>1 DEF CertificateInit, CalmInv, CalmJob, Looking
<1>2. ASSUME CoreInv, CalmInv PROVE StableOnceClosed
  <2> SUFFICES ASSUME NEW x \in current, NEW y \in current, x.ship = y.ship, x.open = 0
               PROVE  x = y
    BY DEF StableOnceClosed
  <2> DEFINE s == x.ship
             es == excs[s]
             M == Marked(s)
  <2>1. s \in Ships /\ phase[s] = "complete"
    BY <1>2 DEF CalmInv, About
  <2>2. PICK t \in Nat : x = Statement(s, "complete", ended[s], t, M, M, es)
    BY <1>2 DEF CalmInv, About
  <2>3. PICK u \in Nat : y = Statement(s, "complete", ended[s], u, M, M, es)
    BY <1>2 DEF CalmInv, About
  <2>4. es \in Seq(ExcType) /\ ended[s] # 0
    BY <1>2, <2>1 DEF CoreInv, TablesOK, BreachInv, SingleInv, TypeOK
  <2>5. \A i \in DOMAIN es : es[i].status = "closed"
    <3>1. x.open = Cardinality(OpenOnes(es))
      BY <2>2 DEF Statement, OpenOnes
    <3> QED
      BY <2>4, <3>1, NoneOpen
  <2>6. TotalSpan(es, t) = TotalSpan(es, u)
    <3>1. t <= u \/ u <= t
      OBVIOUS
    <3> QED
      BY <2>4, <2>5, <3>1, TotalGrows
  <2>7. WindowEnd(ended[s], t) = WindowEnd(ended[s], u)
    BY <2>4 DEF WindowEnd
  <2> QED
    BY <2>2, <2>3, <2>6, <2>7 DEF Statement
<1> QED
  BY <1>1, <1>2, StepCalm, CoreInvariant, PTL DEF CertificateSpec

-----------------------------------------------------------------------------
(* Certificates when completions do not race: two requests that complete one  *)
(* shipment both see it in transit, and the later one moves its end.          *)
OneCloser == \A v, w \in Closers : v = w

(* The grounds on which shipment s fails at t, once it is completed. *)
Over(s, t) == TotalSpan(excs[s], t) \div Minute > Budget[s]
Doomed(s, t) == Over(s, t) \/ \E r \in RowsNow(s) : mark[r] = "quarantined"

LateJob(w) ==
  LET j == job[w] IN
  /\ pc[w] \in Looking /\ j.status = "complete" => j.end = ended[j.ship]
  /\ pc[w] \in Building /\ j.late => phase[j.ship] = "complete" /\ Doomed(j.ship, j.now)
  /\ pc[w] \in Looking /\ j.late => j.status = "complete"
  /\ pc[w] \in {"stats", "excursions"} =>
       /\ \A r \in DOMAIN j.first : j.first[r] = "quarantined" => mark[r] = "quarantined"
       /\ j.late => Over(j.ship, j.now) \/ \E r \in DOMAIN j.first : j.first[r] = "quarantined"
  /\ pc[w] = "close" => phase[j.ship] = "in_transit"

FinalInv ==
  /\ \A w \in Workers : LateJob(w)
  /\ \A s \in failed : phase[s] = "complete" /\ Doomed(s, now)
  /\ \A x \in shown \union signed \union Texts : x.status = "complete" => x.to = ended[x.ship]

(* The end of a completed shipment, and the grounds to fail it, stay. *)
LEMMA EndStays ==
  ASSUME CoreInv, FinalInv, [CertificateNext]_allVars, NEW s \in Ships, phase[s] = "complete"
  PROVE  ended'[s] = ended[s]
<1>1. CASE ended' = ended
  BY <1>1
<1>2. ASSUME NEW w \in Workers, WriteClose(w) PROVE ended'[s] = ended[s]
  <2>1. phase[job[w].ship] = "in_transit"
    BY <1>2 DEF FinalInv, LateJob, WriteClose
  <2>2. ended' = [ended EXCEPT ![job[w].ship] = job[w].end] /\ ended \in [Ships -> Nat]
    BY <1>2, CloseStep DEF CoreInv, TablesOK
  <2> QED
    BY <2>1, <2>2
<1>3. ASSUME NEW w \in Workers, Quiet(w) PROVE ended' = ended
  BY <1>3, QuietStep
<1>4. ASSUME NEW z \in Ships, Create(z) PROVE ended' = ended
  BY <1>4 DEF Create
<1>5. ASSUME NEW r \in Readings, Stores(r) PROVE ended' = ended
  BY <1>5, StoresStep
<1>6. Tick \/ UNCHANGED allVars => ended' = ended
  BY DEF Tick, allVars
<1> QED
  BY <1>1, <1>2, <1>3, <1>4, <1>5, <1>6, StepKinds

LEMMA DoomStays ==
  ASSUME CoreInv, FinalInv, [CertificateNext]_allVars,
         NEW s \in Ships, phase[s] = "complete", NEW t
  PROVE  /\ Over(s, t) => TotalSpan(excs'[s], t) \div Minute > Budget[s]
         /\ Doomed(s, t) =>
              \/ TotalSpan(excs'[s], t) \div Minute > Budget[s]
              \/ \E r \in RowsNow(s)' : mark'[r] = "quarantined"
<1>1. excs'[s] = excs[s]
  BY StepForward DEF Forward
<1>2. ended'[s] = ended[s]
  BY EndStays
<1>3. ASSUME NEW r \in RowsNow(s), mark[r] = "quarantined"
      PROVE  r \in RowsNow(s)' /\ mark'[r] = "quarantined"
  <2>1. r \in TableRows' /\ mark'[r] = "quarantined"
    BY <1>3, StepForward DEF Forward, RowsNow
  <2> QED
    BY <1>2, <1>3, <2>1 DEF RowsNow, InWindow
<1> QED
  BY <1>1, <1>3 DEF Over, Doomed

(* Whole minutes do not get fewer. *)
LEMMA MinutesGrow ==
  ASSUME CoreInv, NEW s \in Ships, NEW t \in Nat, NEW u \in Nat, t <= u, Over(s, t)
  PROVE  Over(s, u)
<1> DEFINE a == TotalSpan(excs[s], t)
           b == TotalSpan(excs[s], u)
<1>1. excs[s] \in Seq(ExcType)
  BY DEF CoreInv, BreachInv, SingleInv, TypeOK
<1>2. a \in Int /\ b \in Int /\ a <= b
  BY <1>1, TotalNumber, TotalGrows
<1>3. Minute \in Nat \ {0} /\ Budget[s] \in Nat /\ a \div Minute > Budget[s]
  BY ShipmentsAssumption DEF Over
<1> HIDE DEF a, b
<1>4. a \div Minute <= b \div Minute /\ a \div Minute \in Int /\ b \div Minute \in Int
  BY <1>2, <1>3
<1> QED
  BY <1>3, <1>4 DEF Over, b

(* The window of a request that has read the end is that of the shipment. *)
LEMMA FinalWindow ==
  ASSUME CoreInv, FinalInv, NEW w \in Workers, pc[w] \in Looking, job[w].status = "complete"
  PROVE  Window(job[w]) = RowsNow(job[w].ship) /\ WindowEnd(job[w].end, job[w].now) = ended[job[w].ship]
<1>1. LookOK(w) /\ job[w].end = ended[job[w].ship]
  BY DEF CoreInv, JobOK, FinalInv, LateJob
<1>2. job[w].end # 0
  BY <1>1 DEF LookOK
<1> QED
  BY <1>1, <1>2 DEF Window, WindowEnd, RowsNow

(* Two requests do not complete a shipment at once. *)
LEMMA CloseAlone ==
  ASSUME CoreInv, FinalInv, OneCloser, [CertificateNext]_allVars,
         NEW v \in Workers, Same(v), pc[v] = "close"
  PROVE  phase'[job[v].ship] = "in_transit"
<1> DEFINE z == job[v].ship
<1>1. phase[z] = "in_transit" /\ v \in Closers /\ z \in Ships
  BY DEF FinalInv, LateJob, CoreInv, JobOK, CloseOK
<1>2. phase' = phase => phase'[z] = "in_transit"
  BY <1>1
<1>3. ASSUME NEW w \in Workers, WriteClose(w) PROVE FALSE
  <2>1. w \in Closers /\ pc[w] = "close"
    BY <1>3, CloseStep DEF CloseOK, WriteClose
  <2>2. w = v
    BY <1>1, <2>1 DEF OneCloser
  <2>3. pc' = [pc EXCEPT ![w] = "idle"] /\ w \in DOMAIN pc
    BY <1>3 DEF WriteClose, Goto, CoreInv
  <2> QED
    BY <2>2, <2>3 DEF Same
<1>4. ASSUME NEW w \in Workers, Quiet(w) PROVE phase' = phase
  BY <1>4, QuietStep
<1>5. ASSUME NEW s \in Ships, Create(s) PROVE phase'[z] = "in_transit"
  <2>1. phase[s] = "none" /\ phase' = [phase EXCEPT ![s] = "in_transit"]
    BY <1>5 DEF Create, CreateShipment
  <2> QED
    BY <1>1, <2>1
<1>6. ASSUME NEW r \in Readings, Stores(r) PROVE phase' = phase
  BY <1>6, StoresStep
<1>7. Tick \/ UNCHANGED allVars => phase' = phase
  BY DEF Tick, allVars
<1> QED
  BY <1>2, <1>3, <1>4, <1>5, <1>6, <1>7, StepKinds

LEMMA LateSame ==
  ASSUME CoreInv, FinalInv, OneCloser, [CertificateNext]_allVars, NEW v \in Workers, Same(v)
  PROVE  LateJob(v)'
<1>0. LateJob(v) /\ JobOK(v) /\ pc[v] \in Labels /\ pc'[v] = pc[v]
  BY DEF CoreInv, FinalInv, Same
<1>1. CASE pc[v] = "idle"
  BY <1>0, <1>1 DEF LateJob, Looking, Building
<1>2. CASE pc[v] = "close"
  <2>1. DOMAIN job[v] = CloseFields
    BY <1>0, <1>2 DEF JobOK, CloseOK
  <2>2. job'[v].ship = job[v].ship
    BY <2>1, SameFields DEF CloseFields
  <2> QED
    BY <1>0, <1>2, <2>2, CloseAlone DEF LateJob, Looking, Building
<1>3. CASE pc[v] \in Building
  <2>1. BuildOK(v)
    BY <1>0, <1>3 DEF JobOK
  <2>2. /\ job'[v].ship = job[v].ship /\ job'[v].now = job[v].now /\ job'[v].late = job[v].late
        /\ job'[v].status = job[v].status /\ job'[v].end = job[v].end
        /\ job'[v].first = job[v].first
    BY <2>1, SameFields DEF BuildOK, BuildFields
  <2> DEFINE j == job[v]
  <2>3. PICK z \in Ships, t \in {j.now} : z = j.ship /\ t = j.now
    BY <2>1 DEF BuildOK
  <2>4. phase[j.ship] = "complete" => phase'[j.ship] = "complete" /\ ended'[j.ship] = ended[j.ship]
    BY <2>3, EndStays, StepForward DEF Forward
  <2>5. ASSUME phase[z] = "complete"
        PROVE  /\ Over(z, t) => TotalSpan(excs'[z], t) \div Minute > Budget[z]
               /\ Doomed(z, t) =>
                    \/ TotalSpan(excs'[z], t) \div Minute > Budget[z]
                    \/ \E r \in RowsNow(z)' : mark'[r] = "quarantined"
    BY <2>5, DoomStays
  <2>6. ASSUME j.late, Doomed(j.ship, j.now), phase[j.ship] = "complete"
        PROVE  Doomed(job[v].ship, job[v].now)'
    BY <2>2, <2>3, <2>5, <2>6 DEF Doomed, Over, RowsNow
  <2>7. ASSUME Over(j.ship, j.now), phase[j.ship] = "complete"
        PROVE  Over(job[v].ship, job[v].now)'
    BY <2>2, <2>3, <2>5, <2>7 DEF Over
  <2>8. ASSUME pc[v] \in {"stats", "excursions"}
        PROVE  \A r \in DOMAIN j.first : j.first[r] = "quarantined" => mark'[r] = "quarantined"
    <3>1. DOMAIN j.first \subseteq TableRows
      BY <1>0, <2>8 DEF JobOK, RowsOK, Window
    <3>2. \A r \in DOMAIN j.first : j.first[r] = "quarantined" => mark[r] = "quarantined"
      BY <1>0, <2>8 DEF LateJob
    <3> QED
      BY <3>1, <3>2, StepForward DEF Forward
  <2>9. pc[v] \in Looking /\ j.status = "complete" => phase[j.ship] = "complete"
    BY <1>0 DEF JobOK, LookOK
  <2>10. /\ pc[v] \in Looking /\ j.status = "complete" => j.end = ended'[j.ship]
         /\ pc[v] \in Building /\ j.late => phase'[j.ship] = "complete" /\ Doomed(job[v].ship, job[v].now)'
         /\ pc[v] \in Looking /\ j.late => j.status = "complete"
    BY <1>0, <2>4, <2>6, <2>9 DEF LateJob
  <2>11. pc[v] \in {"stats", "excursions"} /\ j.late =>
           Over(job[v].ship, job[v].now)' \/ \E r \in DOMAIN j.first : j.first[r] = "quarantined"
    BY <1>0, <1>3, <2>7 DEF LateJob, Looking, Building
  <2> QED
    BY <1>0, <1>3, <2>2, <2>8, <2>10, <2>11 DEF LateJob, Building
<1> QED
  BY <1>0, <1>1, <1>2, <1>3 DEF Labels

LEMMA LateQuiet ==
  ASSUME CoreInv, FinalInv, [CertificateNext]_allVars, NEW w \in Workers, Quiet(w)
  PROVE  LateJob(w)'
<1>0. /\ w \in DOMAIN pc /\ w \in DOMAIN job /\ JobOK(w) /\ LateJob(w)
      /\ ended' = ended /\ phase' = phase /\ mark' = mark /\ excs' = excs /\ now' = now
  BY QuietStep DEF CoreInv, FinalInv, detection
<1>1. CASE pc'[w] = "idle"
  BY <1>1 DEF LateJob, Looking, Building
<1>2. CASE StartCertificate(w)
  <2>1. PICK s \in Ships, sign \in BOOLEAN, h \in {NoHash} \union shown : job' = [job EXCEPT ![w] = BuildJob(s, sign, h)]
    BY <1>2 DEF StartCertificate
  <2>2. job'[w] = BuildJob(s, sign, h) /\ pc'[w] = "shipment"
    BY <1>0, <1>2, <2>1 DEF StartCertificate, Goto
  <2>3. job'[w].ship = s /\ job'[w].now = now /\ job'[w].late = (s \in failed)
    BY <2>2 DEF BuildJob
  <2>4. s \in failed => phase[s] = "complete" /\ Doomed(s, now)
    BY DEF FinalInv
  <2>5. Doomed(s, now) => Doomed(job[w].ship, job[w].now)'
    BY <1>0, <2>3 DEF Doomed, Over, RowsNow, TableRows, InWindow
  <2> QED
    BY <1>0, <2>2, <2>3, <2>4, <2>5 DEF LateJob, Looking, Building
<1>3. ASSUME NEW j, j = job[w], BuildOK(w), pc[w] \in Building, pc'[w] \in Building,
             DOMAIN job'[w] = BuildFields,
             job'[w].ship = j.ship, job'[w].now = j.now, job'[w].late = j.late
      PROVE  job'[w].late => /\ phase'[job'[w].ship] = "complete"
                             /\ Doomed(job[w].ship, job[w].now)'
  <2>1. j.late => phase[j.ship] = "complete" /\ Doomed(j.ship, j.now)
    BY <1>0, <1>3 DEF LateJob
  <2>2. Doomed(j.ship, j.now) => Doomed(job[w].ship, job[w].now)'
    BY <1>0, <1>3 DEF Doomed, Over, RowsNow, TableRows, InWindow
  <2> QED
    BY <1>0, <1>3, <2>1, <2>2
<1>4. CASE ReadShipment(w)
  <2>1. BuildOK(w) /\ pc[w] = "shipment"
    BY <1>0, <1>4 DEF JobOK, ReadShipment, Building
  <2>2. CASE phase[job[w].ship] = "none"
    BY <1>0, <1>1, <1>4, <2>2 DEF ReadShipment, Finish, Goto
  <2>3. CASE phase[job[w].ship] # "none"
    <3>1. /\ job'[w] = [job[w] EXCEPT !.status = phase[job[w].ship], !.end = ended[job[w].ship]]
          /\ pc'[w] = "rows"
      BY <1>0, <1>4, <2>3 DEF ReadShipment, Goto
    <3>2. /\ DOMAIN job'[w] = BuildFields
          /\ job'[w].ship = job[w].ship /\ job'[w].now = job[w].now /\ job'[w].late = job[w].late
          /\ job'[w].status = phase[job[w].ship] /\ job'[w].end = ended[job[w].ship]
      BY <2>1, <3>1 DEF BuildOK, BuildFields
    <3>3. job'[w].late => phase'[job'[w].ship] = "complete" /\ Doomed(job[w].ship, job[w].now)'
      BY <1>3, <2>1, <3>1, <3>2 DEF Building
    <3> QED
      BY <1>0, <3>1, <3>2, <3>3 DEF LateJob, Looking
  <2> QED
    BY <2>2, <2>3
<1>5. CASE ReadRows(w)
  <2> DEFINE j == job[w]
             held == [r \in Window(j) |-> mark[r]]
  <2>1. BuildOK(w) /\ LookOK(w) /\ pc[w] = "rows"
    BY <1>0, <1>5 DEF JobOK, ReadRows, Building, Looking
  <2>2. job'[w] = [j EXCEPT !.first = held] /\ pc'[w] = "stats"
    BY <1>0, <1>5 DEF ReadRows, Goto
  <2>3. DOMAIN held = Window(j) /\ \A r \in DOMAIN held : held[r] = mark[r]
    OBVIOUS
  <2> HIDE DEF held
  <2>4. /\ DOMAIN job'[w] = BuildFields
        /\ job'[w].ship = j.ship /\ job'[w].now = j.now /\ job'[w].late = j.late
        /\ job'[w].status = j.status /\ job'[w].end = j.end /\ job'[w].first = held
    BY <2>1, <2>2 DEF BuildOK, BuildFields
  <2>5. job'[w].late => phase'[job'[w].ship] = "complete" /\ Doomed(job[w].ship, job[w].now)'
    BY <1>3, <2>1, <2>2, <2>4 DEF Building
  <2>6. ASSUME j.late PROVE Over(j.ship, j.now) \/ \E r \in DOMAIN held : held[r] = "quarantined"
    <3>1. j.status = "complete" /\ Doomed(j.ship, j.now)
      BY <1>0, <2>1, <2>6 DEF LateJob, Looking, Building
    <3>2. Window(j) = RowsNow(j.ship)
      BY <2>1, <3>1, FinalWindow DEF Looking
    <3> QED
      BY <2>3, <3>1, <3>2 DEF Doomed
  <2>7. Over(j.ship, j.now) => Over(job[w].ship, job[w].now)'
    BY <1>0, <2>4 DEF Over
  <2>8. /\ j.status = "complete" => j.end = ended[j.ship]
        /\ j.late => j.status = "complete"
    BY <1>0, <2>1 DEF LateJob, Looking
  <2> QED
    BY <1>0, <2>2, <2>3, <2>4, <2>5, <2>6, <2>7, <2>8 DEF LateJob, Looking, Building
<1>6. CASE ReadStats(w)
  <2> DEFINE j == job[w]
  <2>1. BuildOK(w) /\ LookOK(w) /\ pc[w] = "stats"
    BY <1>0, <1>6 DEF JobOK, ReadStats, Building, Looking
  <2>2. (\E a : job'[w] = [j EXCEPT !.second = a]) /\ pc'[w] = "excursions"
    BY <1>0, <1>6 DEF ReadStats, Goto
  <2>4. /\ DOMAIN job'[w] = BuildFields
        /\ job'[w].ship = j.ship /\ job'[w].now = j.now /\ job'[w].late = j.late
        /\ job'[w].status = j.status /\ job'[w].end = j.end /\ job'[w].first = j.first
    BY <2>1, <2>2 DEF BuildOK, BuildFields
  <2>5. job'[w].late => phase'[job'[w].ship] = "complete" /\ Doomed(job[w].ship, job[w].now)'
    BY <1>3, <2>1, <2>2, <2>4 DEF Building
  <2>7. Over(j.ship, j.now) => Over(job[w].ship, job[w].now)'
    BY <1>0, <2>4 DEF Over
  <2>8. /\ j.status = "complete" => j.end = ended[j.ship]
        /\ j.late => j.status = "complete"
        /\ \A r \in DOMAIN j.first : j.first[r] = "quarantined" => mark[r] = "quarantined"
        /\ j.late => Over(j.ship, j.now) \/ \E r \in DOMAIN j.first : j.first[r] = "quarantined"
    BY <1>0, <2>1 DEF LateJob, Looking
  <2> QED
    BY <1>0, <2>2, <2>4, <2>5, <2>7, <2>8 DEF LateJob, Looking, Building
<1>7. CASE ReadExcursions(w)
  <2>1. BuildOK(w) /\ pc[w] = "excursions"
    BY <1>0, <1>7 DEF JobOK, ReadExcursions, Building
  <2>2. CASE Finish(w)
    BY <1>0, <1>1, <2>2 DEF Finish, Goto
  <2>3. CASE job' = [job EXCEPT ![w].text = Built(job[w])] /\ Goto(w, "sign")
    <3>1. job'[w] = [job[w] EXCEPT !.text = Built(job[w])] /\ pc'[w] = "sign"
      BY <1>0, <2>3 DEF Goto
    <3>2. /\ DOMAIN job'[w] = BuildFields
          /\ job'[w].ship = job[w].ship /\ job'[w].now = job[w].now /\ job'[w].late = job[w].late
      BY <2>1, <3>1 DEF BuildOK, BuildFields
    <3>3. job'[w].late => phase'[job'[w].ship] = "complete" /\ Doomed(job[w].ship, job[w].now)'
      BY <1>3, <2>1, <3>1, <3>2 DEF Building
    <3> QED
      BY <3>1, <3>2, <3>3 DEF LateJob, Looking, Building
  <2> QED
    BY <1>7, <2>2, <2>3 DEF ReadExcursions
<1>8. CASE Sign(w)
  BY <1>0, <1>1, <1>8 DEF Sign, Finish, Goto
<1>9. CASE StartClose(w)
  <2>1. PICK s \in Ships, end \in Ends :
          /\ phase[s] = "in_transit"
          /\ job' = [job EXCEPT ![w] = [calm |-> TRUE, ship |-> s, end |-> IF end = 0 THEN now ELSE end]]
    BY <1>9 DEF StartClose
  <2>2. pc'[w] = "close" /\ job'[w].ship = s
    BY <1>0, <1>9, <2>1 DEF StartClose, Goto
  <2> QED
    BY <1>0, <2>1, <2>2 DEF LateJob, Looking, Building
<1> QED
  BY <1>2, <1>4, <1>5, <1>6, <1>7, <1>8, <1>9 DEF Quiet

(* The rows with a status in what a request holds are counted if there are any. *)
LEMMA SomeQuarantined ==
  ASSUME CoreInv, NEW w \in Workers, pc[w] = "excursions"
  PROVE  Cardinality(With(job[w].first, "quarantined")) > 0
           <=> \E r \in DOMAIN job[w].first : job[w].first[r] = "quarantined"
<1> DEFINE Q == With(job[w].first, "quarantined")
<1>1. IsFiniteSet(TableRows) /\ Q \in SUBSET TableRows
  BY DEF CoreInv, TablesOK, JobOK, RowsOK, Window, With
<1>2. IsFiniteSet(Q)
  BY <1>1, FS_Subset
<1>3. Cardinality(Q) \in Nat /\ (Cardinality(Q) = 0 <=> Q = {})
  BY <1>2, FS_CardinalityType, FS_EmptySet
<1>4. Q # {} <=> \E r \in DOMAIN job[w].first : job[w].first[r] = "quarantined"
  BY DEF With
<1> HIDE DEF Q
<1> QED
  BY <1>3, <1>4 DEF Q

(* A certificate fails on grounds that the tables have. *)
LEMMA FailDoomed ==
  ASSUME CoreInv, FinalInv, NEW w \in Workers, pc[w] = "excursions", FailsForGood(Built(job[w]))
  PROVE  phase[job[w].ship] = "complete" /\ Doomed(job[w].ship, now)
<1> DEFINE j == job[w]
           minutes == TotalSpan(excs[j.ship], j.now) \div Minute
           quarantined == Cardinality(With(j.first, "quarantined"))
<1>1. BuildOK(w) /\ LookOK(w) /\ LateJob(w) /\ RowsOK(w)
  BY DEF CoreInv, JobOK, FinalInv, Looking, Building
<1>2. LET x == Built(j) IN
        /\ x.ship = j.ship /\ x.minutes = minutes /\ x.quarantined = quarantined
        /\ x.verdict = Verdict(j.ship, j.status, minutes, x.temps, quarantined)
  BY DEF Built, Statement
<1>3. j.status = "complete" /\ (minutes > Budget[j.ship] \/ quarantined > 0)
  BY <1>1, <1>2 DEF FailsForGood, Verdict, LookOK, BuildOK
<1>4. phase[j.ship] = "complete"
  BY <1>1, <1>3 DEF LookOK
<1>5. CASE minutes > Budget[j.ship]
  <2>1. j.ship \in Ships /\ j.now \in Nat /\ now \in Nat /\ j.now <= now
    BY <1>1 DEF BuildOK, CoreInv, TablesOK
  <2>2. Over(j.ship, j.now)
    BY <1>5 DEF Over
  <2>3. Over(j.ship, now)
    BY <2>1, <2>2, MinutesGrow
  <2> QED
    BY <1>4, <2>3 DEF Doomed
<1>6. CASE quarantined > 0
  <2>1. PICK r \in DOMAIN j.first : j.first[r] = "quarantined"
    BY <1>6, SomeQuarantined
  <2>2. mark[r] = "quarantined" /\ r \in Window(j)
    BY <1>1, <2>1 DEF LateJob, RowsOK
  <2>3. Window(j) = RowsNow(j.ship)
    BY <1>3, FinalWindow DEF Looking
  <2> QED
    BY <1>4, <2>2, <2>3 DEF Doomed
<1> QED
  BY <1>3, <1>5, <1>6

LEMMA StepFinal ==
  ASSUME CoreInv, SaidInv, FinalInv, OneCloser, [CertificateNext]_allVars
  PROVE  FinalInv'
<1>0. CoreInv' /\ Forward
  BY StepCore, StepForward
<1>1. ASSUME NEW v \in Workers PROVE LateJob(v)'
  <2>1. CASE Same(v)
    BY <2>1, LateSame
  <2>2. CASE Quiet(v)
    BY <2>2, LateQuiet
  <2>3. CASE pc'[v] = "idle"
    BY <2>3 DEF LateJob, Looking, Building
  <2> QED
    BY <2>1, <2>2, <2>3, StepSame
<1>2. ASSUME NEW s \in failed' PROVE phase'[s] = "complete" /\ Doomed(s, now)'
  <2>1. s \in Ships /\ phase[s] = "complete" /\ Doomed(s, now)
    <3>1. CASE s \in failed
      BY <3>1 DEF FinalInv, CoreInv, TablesOK
    <3>2. ASSUME NEW w \in Workers, pc[w] = "excursions", s = job[w].ship,
                 FailsForGood(Built(job[w]))
          PROVE  s \in Ships /\ phase[s] = "complete" /\ Doomed(s, now)
      BY <3>2, FailDoomed DEF CoreInv, JobOK, BuildOK, Building
    <3> QED
      BY <3>1, <3>2, StatementsStep
  <2>2. PICK u \in Nat : u = now' /\ now <= u
    BY <1>0 DEF CoreInv, TablesOK, Forward
  <2>3. Doomed(s, u)
    <3>1. now \in Nat
      BY DEF CoreInv, TablesOK
    <3> QED
      BY <2>1, <2>2, <3>1, MinutesGrow DEF Doomed
  <2>4. \/ TotalSpan(excs'[s], u) \div Minute > Budget[s]
        \/ \E r \in RowsNow(s)' : mark'[r] = "quarantined"
    BY <2>1, <2>3, DoomStays
  <2>5. Doomed(s, now)'
    BY <2>2, <2>4 DEF Doomed, Over
  <2> QED
    BY <1>0, <2>1, <2>5 DEF Forward
<1>3. ASSUME NEW x \in (shown \union signed \union Texts)', x.status = "complete"
      PROVE  x.to = ended'[x.ship]
  <2>1. x.ship \in Ships /\ phase[x.ship] = "complete" /\ x.to = ended[x.ship]
    <3>1. CASE x \in shown \union signed \union Texts
      BY <1>3, <3>1 DEF FinalInv, SaidInv, Said
    <3>2. ASSUME NEW w \in Workers, pc[w] = "excursions", x = Built(job[w])
          PROVE  x.ship \in Ships /\ phase[x.ship] = "complete" /\ x.to = ended[x.ship]
      <4>1. /\ x.ship = job[w].ship /\ x.status = job[w].status
            /\ x.to = WindowEnd(job[w].end, job[w].now)
        BY <3>2 DEF Built, Statement
      <4>2. BuildOK(w) /\ LookOK(w)
        BY <3>2 DEF CoreInv, JobOK, Looking, Building
      <4>3. x.to = ended[x.ship]
        BY <1>3, <3>2, <4>1, FinalWindow DEF Looking
      <4> QED
        BY <1>3, <4>1, <4>2, <4>3 DEF BuildOK, LookOK
    <3>3. x \in shown' \/ x \in signed' \/ x \in Texts'
      OBVIOUS
    <3> QED
      BY <3>1, <3>2, <3>3, StatementsStep
  <2> QED
    BY <2>1, EndStays
<1> QED
  BY <1>1, <1>2, <1>3 DEF FinalInv

LEMMA FinalInvariant ==
  ASSUME OneCloser
  PROVE  CertificateSpec => []FinalInv
<1>1. ASSUME CertificateInit PROVE FinalInv
  <2>1. shown = {} /\ signed = {} /\ failed = {} /\ Texts = {}
    BY <1>1 DEF CertificateInit, Texts
  <2>2. pc = [w \in Workers |-> "idle"]
    BY <1>1 DEF CertificateInit
  <2> QED
    BY <2>1, <2>2 DEF FinalInv, LateJob, Looking, Building
<1>2. CoreInv /\ SaidInv /\ FinalInv /\ [CertificateNext]_allVars => FinalInv'
  BY StepFinal
<1> QED
  BY <1>1, <1>2, CoreInvariant, SaidInvariant, PTL DEF CertificateSpec

(* If the completions of a shipment do not race, a final statement names its  *)
(* end, counts its excursions, open and closed, for good, and counts no       *)
(* reading or minute that the tables do not have.                           *)
THEOREM FinalFactsStay ==
  ASSUME OneCloser
  PROVE  CertificateSpec => []FinalFacts
<1>1. ASSUME SaidInv, FinalInv PROVE FinalFacts
  <2> SUFFICES ASSUME NEW x \in shown \union signed, x.status = "complete"
               PROVE  LET es == excs[x.ship]
                          rows == {r \in TableRows : InWindow(x.ship, x.to, r)}
                      IN  /\ x.to = ended[x.ship]
                          /\ x.open = Cardinality({i \in DOMAIN es : es[i].status = "open"})
                          /\ x.closed = Cardinality({i \in DOMAIN es : es[i].status = "closed"})
                          /\ x.total + x.quarantined <= Cardinality(rows)
                          /\ x.minutes * Minute <= TotalSpan(es, now)
    BY DEF FinalFacts
  <2>1. Said(x)
    BY <1>1 DEF SaidInv
  <2>2. x.to = ended[x.ship]
    BY <1>1 DEF FinalInv
  <2> QED
    BY <2>1, <2>2 DEF Said, OpenOnes, ClosedOnes, RowsOf
<1> QED
  BY <1>1, FinalInvariant, SaidInvariant, PTL

(* If the completions of a shipment do not race, every certificate begun after *)
(* one that fails for its excursion minutes or a quarantined reading fails for *)
(* one of these.                                                            *)
THEOREM FailuresStick ==
  ASSUME OneCloser
  PROVE  CertificateSpec => []FailureSticks
<1>1. ASSUME CoreInv, FinalInv PROVE FailureSticks
  <2> SUFFICES ASSUME NEW w \in Workers, pc[w] = "excursions", job[w].late
               PROVE  FailsForGood(Built(job[w]))
    BY DEF FailureSticks
  <2> DEFINE j == job[w]
             minutes == TotalSpan(excs[j.ship], j.now) \div Minute
             quarantined == Cardinality(With(j.first, "quarantined"))
  <2>1. /\ j.status = "complete"
        /\ Over(j.ship, j.now) \/ \E r \in DOMAIN j.first : j.first[r] = "quarantined"
    BY <1>1 DEF FinalInv, LateJob, Looking
  <2>2. minutes > Budget[j.ship] \/ quarantined > 0
    BY <1>1, <2>1, SomeQuarantined DEF Over
  <2>3. LET x == Built(j) IN
          /\ x.ship = j.ship /\ x.minutes = minutes /\ x.quarantined = quarantined
          /\ x.verdict = Verdict(j.ship, j.status, minutes, x.temps, quarantined)
    BY DEF Built, Statement
  <2> HIDE DEF j, minutes, quarantined
  <2> QED
    BY <2>1, <2>2, <2>3 DEF FailsForGood, Verdict, Reasons, j
<1> QED
  BY <1>1, FinalInvariant, CoreInvariant, PTL
=============================================================================
