----------------------------- MODULE IngestProofs -----------------------------
(***************************************************************************)
(* Theorems about Ingest, for any organizations, devices, workers, messages, *)
(* batches and clock, with or without crashes and timeouts.                  *)
(***************************************************************************)
EXTENDS Ingest, TLAPS

(* A stored reading has a measurement that is a message. *)
LEMMA MeasurementType ==
  ASSUME NEW r \in RowType PROVE Measurement(r) \in MessageType
<1>1. r.dev \in Devices /\ r.seq \in Int /\ r.ts \in Int /\ r.temp \in Int
  BY ConstantsAssumption DEF RowType, Temps
<1> QED BY <1>1 DEF Measurement, Table!Measurement, MessageType

(* What a lock hashes is a set of messages. *)
LEMMA PeriodRowsType ==
  ASSUME NEW t \in SUBSET RowType, NEW o, NEW p
  PROVE PeriodRows(t, o, p) \subseteq MessageType
BY MeasurementType DEF PeriodRows

(* The message an ingestion request works on. *)
LEMMA ItemType ==
  ASSUME NEW w \in Workers, job[w] \in IngestJobs, job[w].todo # <<>>
  PROVE /\ Item(w) \in Messages
        /\ Item(w) \in MessageType
        /\ Tail(job[w].todo) \in Seq(Messages)
<1>1. job[w].todo \in Seq(Messages) BY DEF IngestJobs
<1>2. Head(job[w].todo) \in Messages /\ Tail(job[w].todo) \in Seq(Messages) BY <1>1
<1> QED BY <1>2, ConstantsAssumption DEF Item

(* The tables a session sees are tables. *)
LEMMA ImageType ==
  ASSUME TypeOK, NEW w \in Workers
  PROVE Image(w) \in [rows : SUBSET RowType, log : SUBSET EntryType]
BY DEF TypeOK, Image

(* A worker keeps to its own place and job: a step of one worker that leaves *)
(* the tables well-typed, its own job well-formed and the lock with a writer  *)
(* preserves TypeOK.                                                        *)
LEMMA LocalStep ==
  ASSUME TypeOK, NEW w \in Workers, NEW label \in Places, NEW j \in JobType,
         pc' = [pc EXCEPT ![w] = label], job' = [job EXCEPT ![w] = j],
         JobOK(w)',
         writer' = w => label \in IngestPCs \union EndPCs,
         writer' \in {writer, w, NoWorker}
  PROVE  /\ pc' \in [Workers -> Places]
         /\ job' \in [Workers -> JobType]
         /\ writer' \in Workers \union {NoWorker}
         /\ \A v \in Workers : JobOK(v)' /\ (writer' = v => pc'[v] \in IngestPCs \union EndPCs)
<1>1. pc \in [Workers -> Places] /\ job \in [Workers -> JobType] BY DEF TypeOK
<1>2. \A v \in Workers \ {w} : pc'[v] = pc[v] /\ job'[v] = job[v] BY <1>1
<1>3. \A v \in Workers \ {w} : JobOK(v)' BY <1>2 DEF TypeOK, JobOK
<1>4. pc'[w] = label BY <1>1
<1>5. ASSUME NEW v \in Workers, writer' = v PROVE pc'[v] \in IngestPCs \union EndPCs
  <2>1. CASE v = w BY <1>4, <1>5, <2>1
  <2>2. CASE v # w
    <3>1. writer = v BY <1>5, <2>2, ConstantsAssumption
    <3> QED BY <3>1, <2>2, <1>2 DEF TypeOK
  <2> QED BY <2>1, <2>2
<1>6. pc' \in [Workers -> Places] /\ job' \in [Workers -> JobType] BY <1>1
<1>7. writer' \in Workers \union {NoWorker} BY DEF TypeOK
<1> QED BY <1>3, <1>5, <1>6, <1>7
(* The part of TypeOK that LocalStep speaks of. *)
LocalOK ==
  /\ pc \in [Workers -> Places]
  /\ job \in [Workers -> JobType]
  /\ writer \in Workers \union {NoWorker}
  /\ \A v \in Workers : JobOK(v) /\ (writer = v => pc[v] \in IngestPCs \union EndPCs)

LEMMA GotoIngest ==
  ASSUME TypeOK, NEW w \in Workers, pc[w] \in IngestPCs,
         NEW label \in IngestPCs, Goto(w, label), UNCHANGED <<job, writer>>
  PROVE  LocalOK'
<1>1. job[w] \in IngestJobs /\ job[w].todo # <<>>
  BY DEF TypeOK, JobOK, IngestPCs, FixPCs, EndPCs
<1>2. job' = [job EXCEPT ![w] = job[w]] BY DEF TypeOK
<1>3. JobOK(w)' BY <1>1 DEF JobOK, Goto, TypeOK
<1> QED BY <1>1, <1>2, <1>3, LocalStep DEF LocalOK, Goto, Places, JobType

(* Settling an item leaves a shorter request, or one that can be answered.   *)
LEMMA NextItemOK ==
  ASSUME TypeOK, NEW w \in Workers, pc[w] \in IngestPCs,
         NEW done \in SUBSET MessageType, NextItem(w, done),
         writer' \in {writer, w, NoWorker}
  PROVE  LocalOK'
<1>1. job[w] \in IngestJobs /\ job[w].todo # <<>>
  BY DEF TypeOK, JobOK, IngestPCs, FixPCs, EndPCs
<1> DEFINE j == [job[w] EXCEPT !.todo = Tail(@), !.done = done]
           label == IF Tail(job[w].todo) = <<>> THEN "respond" ELSE "device"
<1>2. j \in IngestJobs BY <1>1, ItemType DEF IngestJobs
<1>3. job' = [job EXCEPT ![w] = j] BY <1>1 DEF NextItem, TypeOK
<1>4. pc' = [pc EXCEPT ![w] = label] BY DEF NextItem, Goto
<1>5. label \in IngestPCs \union EndPCs BY DEF IngestPCs, EndPCs
<1>6. pc'[w] = label /\ job'[w] = j BY <1>3, <1>4 DEF TypeOK
<1>7. j.todo = Tail(job[w].todo) BY <1>1 DEF IngestJobs
<1>8. JobOK(w)' BY <1>2, <1>6, <1>7 DEF JobOK, IngestPCs, EndPCs
<1>9. label \in Places /\ j \in JobType BY <1>2, <1>5 DEF Places, JobType
<1> HIDE DEF j, label
<1> QED BY <1>3, <1>4, <1>5, <1>8, <1>9, LocalStep DEF LocalOK

(* A request that ends leaves its worker idle and the lock free. *)
LEMMA AbortOK ==
  ASSUME TypeOK, NEW w \in Workers, Abort(w)
  PROVE  LocalOK' /\ draft' \in [rows : SUBSET RowType, log : SUBSET EntryType]
<1>1. pc'[w] = "idle" /\ job'[w] = NoJob BY DEF Abort, TypeOK
<1>2. JobOK(w)' BY <1>1 DEF JobOK
<1>3. writer' # w BY ConstantsAssumption DEF Abort
<1>4. "idle" \in Places /\ NoJob \in JobType BY DEF Places, JobType
<1>5. LocalOK' BY <1>2, <1>3, <1>4, LocalStep DEF Abort, LocalOK
<1>6. NoDraft \in [rows : SUBSET RowType, log : SUBSET EntryType] BY DEF NoDraft
<1> QED BY <1>5, <1>6 DEF Abort, TypeOK
-----------------------------------------------------------------------------
(* TypeOK, action by action. *)

LEMMA StartsOK == ASSUME TypeOK, NEW w \in Workers, Start(w) PROVE TypeOK'
<1>1. ASSUME NEW j \in JobType, NEW label \in Places \ {"idle"},
             pc[w] = "idle", job' = [job EXCEPT ![w] = j], Goto(w, label),
             UNCHANGED <<tables, rows, log, draft, writer, now, acked, conflicted>>,
             \/ label = "device" /\ j \in IngestJobs /\ j.todo # <<>>
             \/ label = "fix_period" /\ j \in FixJobs
             \/ label = "lock_write" /\ j \in LockJobs
      PROVE  TypeOK'
  <2>1. pc'[w] = label /\ job'[w] = j BY <1>1 DEF TypeOK, Goto
  <2>2. JobOK(w)' BY <1>1, <2>1 DEF JobOK, IngestPCs, FixPCs
  <2>3. writer' # w BY <1>1 DEF TypeOK, IngestPCs, EndPCs
  <2>4. LocalOK' BY <1>1, <2>2, <2>3, LocalStep DEF LocalOK, Goto
  <2> QED BY <1>1, <2>4 DEF TypeOK, LocalOK, tables
<1>2. CASE StartIngest(w)
  <2>1. PICK o \in Orgs, b \in Batches : job' = [job EXCEPT ![w] = IngestJob(o, b)]
    BY <1>2 DEF StartIngest
  <2>2. b \in Seq(Messages) /\ b # <<>> BY ConstantsAssumption
  <2>3. IngestJob(o, b) \in IngestJobs /\ IngestJob(o, b).todo # <<>>
    BY <2>2 DEF IngestJob, IngestJobs
  <2> QED BY <1>1, <1>2, <2>1, <2>3 DEF StartIngest, JobType, Places, IngestPCs
<1>3. CASE StartSupersede(w)
  <2>1. PICK orig \in rows, t \in FixTemps :
          PhysicalTemp(t) /\ job' = [job EXCEPT ![w] = FixJob(orig, t)]
    BY <1>3 DEF StartSupersede
  <2>2. orig \in RowType /\ t \in Temps
    BY <2>1, ConstantsAssumption DEF TypeOK, PhysicalTemp, Temps
  <2>3. OrgOf[orig.dev] \in Orgs BY <2>2, ConstantsAssumption DEF RowType
  <2>4. FixJob(orig, t) \in FixJobs BY <2>2, <2>3 DEF FixJob, FixJobs
  <2> QED BY <1>1, <1>3, <2>1, <2>4 DEF StartSupersede, JobType, Places, FixPCs
<1>4. CASE StartLock(w)
  <2>1. PICK op \in LockPeriods : job' = [job EXCEPT ![w] = LockJob(op[1], op[2])]
    BY <1>4 DEF StartLock
  <2>2. op[1] \in Orgs /\ op[2] \in Nat BY ConstantsAssumption
  <2>3. PeriodRows(rows, op[1], op[2]) \subseteq MessageType BY PeriodRowsType DEF TypeOK
  <2>4. LockJob(op[1], op[2]) \in LockJobs BY <2>2, <2>3 DEF LockJob, LockJobs
  <2> QED BY <1>1, <1>4, <2>1, <2>4 DEF StartLock, JobType, Places
<1> QED BY <1>2, <1>3, <1>4 DEF Start

LEMMA ReadsOK ==
  ASSUME TypeOK, NEW w \in Workers,
         ReadDevice(w) \/ ReadDuplicate(w) \/ ReadPeriod(w)
  PROVE  TypeOK'
<1>1. pc[w] \in IngestPCs BY DEF ReadDevice, ReadDuplicate, ReadPeriod, IngestPCs
<1>2. job[w] \in IngestJobs /\ job[w].todo # <<>>
  BY <1>1 DEF TypeOK, JobOK, IngestPCs, FixPCs, EndPCs
<1>3. job[w].done \in SUBSET MessageType BY <1>2 DEF IngestJobs
<1>4. Item(w) \in Messages /\ Item(w) \in MessageType BY <1>2, ItemType
<1>5. job[w].done \union {Item(w)} \in SUBSET MessageType BY <1>3, <1>4
<1>6. CASE ReadDevice(w)
  <2>1. LocalOK'
    BY <1>1, <1>3, <1>6, GotoIngest, NextItemOK DEF ReadDevice, IngestPCs
  <2> QED BY <1>6, <2>1 DEF ReadDevice, TypeOK, LocalOK, tables
<1>7. CASE ReadDuplicate(w)
  <2>1. LocalOK'
    BY <1>1, <1>3, <1>5, <1>7, GotoIngest, NextItemOK DEF ReadDuplicate, IngestPCs
  <2>2. conflicted' \subseteq Messages BY <1>4, <1>7 DEF ReadDuplicate, TypeOK
  <2> QED BY <1>7, <2>1, <2>2 DEF ReadDuplicate, TypeOK, LocalOK, tables
<1>8. CASE ReadPeriod(w)
  <2>1. LocalOK'
    BY <1>1, <1>3, <1>8, GotoIngest, NextItemOK DEF ReadPeriod, IngestPCs
  <2> QED BY <1>8, <2>1 DEF ReadPeriod, TypeOK, LocalOK, tables
<1> QED BY <1>6, <1>7, <1>8

LEMMA ClassifyOK == ASSUME TypeOK, NEW w \in Workers, Classify(w) PROVE TypeOK'
<1>1. job[w] \in IngestJobs /\ job[w].todo # <<>>
  BY DEF TypeOK, JobOK, Classify, FixPCs, EndPCs
<1> DEFINE j == [job[w] EXCEPT !.verdict = Verdict(Item(w))]
<1>2. Verdict(Item(w)) \in {"accepted", "quarantined"} BY DEF Verdict
<1>3. j \in IngestJobs /\ j.todo = job[w].todo BY <1>1, <1>2 DEF IngestJobs
<1>4. job' = [job EXCEPT ![w] = j] BY <1>1 DEF Classify, TypeOK
<1>5. pc'[w] = "insert" /\ job'[w] = j BY <1>4 DEF Classify, Goto, TypeOK
<1> HIDE DEF j
<1>6. JobOK(w)' BY <1>1, <1>3, <1>5 DEF JobOK, IngestPCs
<1>7. LocalOK' BY <1>3, <1>4, <1>6, LocalStep
  DEF LocalOK, Classify, Goto, Places, JobType, IngestPCs
<1> QED BY <1>7 DEF Classify, TypeOK, LocalOK, tables

(* The row and the audit entry an ingestion writes. *)
LEMMA NewRowType ==
  ASSUME TypeOK, NEW w \in Workers, job[w] \in IngestJobs, job[w].todo # <<>>,
         ValidFields(Item(w))
  PROVE  NewRow(Item(w), job[w].verdict) \in RowType
<1>1. Item(w) \in MessageType BY ItemType
<1>2. Item(w).seq \in Nat /\ Item(w).ts \in Nat /\ Item(w).temp \in Temps
  BY <1>1, ConstantsAssumption DEF ValidFields, PhysicalTemp, Temps, MessageType
<1> QED BY <1>1, <1>2 DEF NewRow, RowType, MessageType, IngestJobs, Status

LEMMA EntryIsTyped ==
  ASSUME NEW lg \in SUBSET EntryType, NEW o \in Orgs, NEW r \in RowType,
         NEW n \in NextAuditSeqs(lg, o)
  PROVE  Entry(n, o, r) \in EntryType
<1>1. n \in Nat \ {0} BY DEF NextAuditSeqs, EntryType
<1> QED BY <1>1 DEF Entry, EntryType, Key, Table!Key, RowType
(* What the reads of an item have established when it is written. *)
ItemChecked ==
  \A w \in Workers : pc[w] \in IngestPCs \ {"device"} =>
    ValidFields(Item(w)) /\ OrgOf[Item(w).dev] = job[w].org

LEMMA InsertOK ==
  ASSUME TypeOK, ItemChecked, NEW w \in Workers, Insert(w)
  PROVE  TypeOK'
<1>1. pc[w] \in IngestPCs /\ pc[w] # "device" BY DEF Insert, IngestPCs
<1>2. job[w] \in IngestJobs /\ job[w].todo # <<>>
  BY <1>1 DEF TypeOK, JobOK, IngestPCs, FixPCs, EndPCs
<1>3. job[w].done \union {Item(w)} \in SUBSET MessageType
  BY <1>2, ItemType DEF IngestJobs
<1> DEFINE img == Image(w)
           r == NewRow(Item(w), job[w].verdict)
<1>4. img \in [rows : SUBSET RowType, log : SUBSET EntryType] BY ImageType
<1>5. r \in RowType BY <1>1, <1>2, NewRowType DEF ItemChecked
<1>6. job[w].org \in Orgs BY <1>2 DEF IngestJobs
<1> HIDE DEF img, r
<1>7. CASE Abort(w)
  BY <1>7, AbortOK DEF Insert, TypeOK, LocalOK, tables
<1>8. ASSUME NEW n \in NextAuditSeqs(img.log, job[w].org),
             draft' = [rows |-> img.rows \union {r}, log |-> img.log \union {Entry(n, job[w].org, r)}],
             writer' = w, NextItem(w, job[w].done \union {Item(w)})
      PROVE  TypeOK'
  <2>1. Entry(n, job[w].org, r) \in EntryType BY <1>4, <1>5, <1>6, EntryIsTyped
  <2>2. draft' \in [rows : SUBSET RowType, log : SUBSET EntryType] BY <1>4, <1>5, <1>8, <2>1
  <2>3. LocalOK' BY <1>1, <1>3, <1>8, NextItemOK
  <2> QED BY <2>2, <2>3 DEF Insert, TypeOK, LocalOK, tables
<1>9. CASE draft' = NoDraft /\ writer' = NoWorker /\ NextItem(w, job[w].done \union {Item(w)})
  <2>1. LocalOK' BY <1>1, <1>3, <1>9, NextItemOK
  <2> QED BY <1>9, <2>1 DEF Insert, TypeOK, LocalOK, tables, NoDraft
<1> QED BY <1>7, <1>8, <1>9 DEF Insert, img, r

LEMMA FixReadsOK ==
  ASSUME TypeOK, NEW w \in Workers, FixReadPeriod(w) \/ FixReadSeq(w)
  PROVE  TypeOK'
<1>1. job[w] \in FixJobs
  BY DEF TypeOK, JobOK, FixReadPeriod, FixReadSeq, IngestPCs, FixPCs, EndPCs
<1>2. writer # w BY DEF TypeOK, FixReadPeriod, FixReadSeq, IngestPCs, EndPCs
<1>3. ASSUME NEW j \in FixJobs, NEW label \in FixPCs,
             job' = [job EXCEPT ![w] = j], Goto(w, label),
             UNCHANGED <<tables, rows, log, draft, writer, now, acked, conflicted>>
      PROVE  TypeOK'
  <2>1. pc'[w] = label /\ job'[w] = j BY <1>3 DEF TypeOK, Goto
  <2>2. JobOK(w)' BY <2>1 DEF JobOK
  <2>3. LocalOK' BY <1>2, <1>3, <2>2, LocalStep DEF LocalOK, Goto, Places, JobType
  <2> QED BY <1>3, <2>3 DEF TypeOK, LocalOK, tables
<1>4. CASE FixReadPeriod(w)
  <2>1. CASE Abort(w) BY <1>4, <2>1, AbortOK DEF FixReadPeriod, TypeOK, LocalOK, tables
  <2>2. CASE Goto(w, "fix_seq") /\ UNCHANGED <<job, writer, draft>>
    <3>1. job' = [job EXCEPT ![w] = job[w]] BY <2>2 DEF TypeOK
    <3> QED BY <1>1, <1>3, <1>4, <2>2, <3>1 DEF FixReadPeriod, FixPCs
  <2> QED BY <1>4, <2>1, <2>2 DEF FixReadPeriod
<1>5. CASE FixReadSeq(w)
  <2>1. PICK n \in NextSeqs(rows, job[w].orig.dev) : job' = [job EXCEPT ![w].seq = n]
    BY <1>5 DEF FixReadSeq
  <2>2. n \in Nat BY DEF NextSeqs, TypeOK, RowType
  <2>3. [job[w] EXCEPT !.seq = n] \in FixJobs BY <1>1, <2>2 DEF FixJobs
  <2>4. job' = [job EXCEPT ![w] = [job[w] EXCEPT !.seq = n]] BY <1>1, <2>1 DEF TypeOK
  <2> QED BY <1>3, <1>5, <2>3, <2>4 DEF FixReadSeq, FixPCs
<1> QED BY <1>4, <1>5

(* The row a correction writes, and the flip of its original. *)
LEMMA CorrectionType ==
  ASSUME NEW j \in FixJobs PROVE Correction(j) \in RowType
BY DEF Correction, FixJobs, RowType, Status

LEMMA FlipType ==
  ASSUME NEW t \in SUBSET RowType, NEW orig PROVE Flip(t, orig) \subseteq RowType
<1>1. \A r \in RowType : Table!Superseded(r) \in RowType
  BY DEF Table!Superseded, RowType, Status
<1> QED BY <1>1 DEF Flip

LEMMA FixWriteOK ==
  ASSUME TypeOK, NEW w \in Workers, FixWrite(w) PROVE TypeOK'
<1>1. job[w] \in FixJobs
  BY DEF TypeOK, JobOK, FixWrite, IngestPCs, FixPCs, EndPCs
<1> DEFINE r == Correction(job[w])
<1>2. r \in RowType BY <1>1, CorrectionType
<1>3. job[w].org \in Orgs /\ rows \in SUBSET RowType /\ log \in SUBSET EntryType
  BY <1>1 DEF FixJobs, TypeOK
<1>4. CASE Abort(w)
  BY <1>4, AbortOK DEF FixWrite, TypeOK, LocalOK, tables
<1> HIDE DEF r
<1>5. ASSUME NEW n \in NextAuditSeqs(log, job[w].org),
             draft' = [rows |-> Flip(rows, job[w].orig) \union {r},
                       log |-> log \union {Entry(n, job[w].org, r)}],
             writer' = w, job' = [job EXCEPT ![w].done = {Measurement(r)}],
             Goto(w, "respond")
      PROVE  TypeOK'
  <2>1. Entry(n, job[w].org, r) \in EntryType BY <1>2, <1>3, EntryIsTyped
  <2>2. draft' \in [rows : SUBSET RowType, log : SUBSET EntryType]
    BY <1>2, <1>3, <1>5, <2>1, FlipType
  <2> DEFINE j == [job[w] EXCEPT !.done = {Measurement(r)}]
  <2>3. j \in FixJobs BY <1>1, <1>2, MeasurementType DEF FixJobs
  <2>4. job' = [job EXCEPT ![w] = j] BY <1>1, <1>5 DEF TypeOK
  <2>5. pc'[w] = "respond" /\ job'[w] = j BY <1>5, <2>4 DEF Goto, TypeOK
  <2> HIDE DEF j
  <2>6. JobOK(w)' BY <2>3, <2>5 DEF JobOK, EndPCs
  <2>7. LocalOK' BY <1>5, <2>3, <2>4, <2>6, LocalStep
    DEF LocalOK, Goto, Places, JobType, EndPCs
  <2> QED BY <2>2, <2>7 DEF FixWrite, TypeOK, LocalOK, tables
<1> QED BY <1>4, <1>5 DEF FixWrite, r

LEMMA EndsOK ==
  ASSUME TypeOK, NEW w \in Workers, Respond(w) \/ Commit(w) \/ LockWrite(w) \/ BusyTimeout(w)
  PROVE  TypeOK'
<1>1. CASE Respond(w)
  <2>1. job[w] \in IngestJobs \union FixJobs
    BY <1>1 DEF TypeOK, JobOK, Respond, IngestPCs, FixPCs, EndPCs
  <2>2. acked' \subseteq MessageType BY <1>1, <2>1 DEF Respond, TypeOK, IngestJobs, FixJobs
  <2>3. pc'[w] = "commit" /\ job'[w] = job[w] BY <1>1 DEF Respond, Goto, TypeOK
  <2>4. JobOK(w)' BY <2>1, <2>3 DEF JobOK, EndPCs
  <2>5. job' = [job EXCEPT ![w] = job[w]] BY <1>1 DEF Respond, TypeOK
  <2>6. LocalOK' BY <1>1, <2>1, <2>4, <2>5, LocalStep
    DEF LocalOK, Respond, Goto, Places, JobType, EndPCs
  <2> QED BY <1>1, <2>2, <2>6 DEF Respond, TypeOK, LocalOK, tables
<1>2. CASE Commit(w)
  <2>1. rows' \subseteq RowType /\ log' \subseteq EntryType BY <1>2 DEF Commit, TypeOK
  <2> QED BY <1>2, <2>1, AbortOK DEF Commit, TypeOK, LocalOK, tables
<1>3. CASE LockWrite(w)
  <2>1. job[w] \in LockJobs
    BY <1>3 DEF TypeOK, JobOK, LockWrite, IngestPCs, FixPCs, EndPCs
  <2>2. [org |-> job[w].org, period |-> job[w].period, snap |-> job[w].snap] \in LockType
    BY <2>1 DEF LockJobs, LockType
  <2>3. locks' \subseteq LockType BY <1>3, <2>2 DEF LockWrite, TypeOK
  <2> QED BY <1>3, <2>3, AbortOK DEF LockWrite, TypeOK, LocalOK
<1>4. CASE BusyTimeout(w)
  BY <1>4, AbortOK DEF BusyTimeout, TypeOK, LocalOK, tables
<1> QED BY <1>1, <1>2, <1>3, <1>4

LEMMA EnvironmentOK ==
  ASSUME TypeOK, Retire \/ AddCalibration \/ Tick \/ Crash
  PROVE  TypeOK'
<1>1. CASE Retire BY <1>1 DEF Retire, TypeOK, JobOK
<1>2. CASE AddCalibration BY <1>2 DEF AddCalibration, TypeOK, JobOK
<1>3. CASE Tick BY <1>3 DEF Tick, TypeOK, JobOK, tables
<1>4. CASE Crash
  <2>1. \A w \in Workers : JobOK(w)' BY <1>4 DEF Crash, JobOK
  <2>2. "idle" \in Places /\ NoJob \in JobType BY DEF Places, JobType
  <2> QED BY <1>4, <2>1, <2>2, ConstantsAssumption DEF Crash, TypeOK, NoDraft, tables
<1> QED BY <1>1, <1>2, <1>3, <1>4
-----------------------------------------------------------------------------
(* A step of worker w leaves every other worker where it is. *)
LEMMA OthersStay ==
  ASSUME TypeOK, NEW w \in Workers, Start(w) \/ Serve(w),
         NEW v \in Workers, v # w
  PROVE  pc'[v] = pc[v] /\ job'[v] = job[v]
<1>1. pc \in [Workers -> Places] /\ job \in [Workers -> JobType] BY DEF TypeOK
<1>2. \A label : Goto(w, label) => pc'[v] = pc[v] BY <1>1 DEF Goto
<1>3. \A done : NextItem(w, done) => pc'[v] = pc[v] /\ job'[v] = job[v]
  BY <1>1 DEF Goto, NextItem
<1>4. Abort(w) => pc'[v] = pc[v] /\ job'[v] = job[v] BY <1>1 DEF Abort
<1>5. CASE Start(w) BY <1>1, <1>2, <1>5 DEF Start, StartIngest, StartSupersede, StartLock
<1>6. CASE ReadDevice(w) \/ ReadDuplicate(w) \/ ReadPeriod(w) \/ Classify(w)
  BY <1>1, <1>2, <1>3, <1>6 DEF ReadDevice, ReadDuplicate, ReadPeriod, Classify
<1>7. CASE Insert(w) BY <1>3, <1>4, <1>7 DEF Insert
<1>8. CASE FixReadPeriod(w) \/ FixReadSeq(w) \/ FixWrite(w)
  BY <1>1, <1>2, <1>4, <1>8 DEF FixReadPeriod, FixReadSeq, FixWrite
<1>9. CASE Respond(w) \/ Commit(w) \/ LockWrite(w) \/ BusyTimeout(w)
  BY <1>2, <1>4, <1>9 DEF Respond, Commit, LockWrite, BusyTimeout
<1> QED BY <1>5, <1>6, <1>7, <1>8, <1>9 DEF Serve

(* The checked fields stay checked while an item is worked on. *)
LEMMA ItemCheckedStep ==
  ASSUME TypeOK, ItemChecked, [Next]_vars PROVE ItemChecked'
<1> DEFINE Checked(v) == ValidFields(Item(v)) /\ OrgOf[Item(v).dev] = job[v].org
<1>1. ASSUME NEW w \in Workers, Start(w) \/ Serve(w), NEW v \in Workers, v # w
      PROVE  (pc[v] \in IngestPCs \ {"device"} => Checked(v))'
  <2>1. pc'[v] = pc[v] /\ job'[v] = job[v] BY <1>1, OthersStay
  <2> QED BY <2>1 DEF ItemChecked, Item, ValidFields, PhysicalTemp
<1>2. ASSUME NEW w \in Workers, Start(w) \/ Serve(w)
      PROVE  (pc[w] \in IngestPCs \ {"device"} => Checked(w))'
  <2>1. pc \in [Workers -> Places] /\ job \in [Workers -> JobType] BY DEF TypeOK
  <2>2. \A label : Goto(w, label) => pc'[w] = label BY <2>1 DEF Goto
  <2>3. \A done : NextItem(w, done) => pc'[w] \in EndPCs \union {"device"}
    BY <2>1 DEF Goto, NextItem, EndPCs
  <2>4. Abort(w) => pc'[w] = "idle" BY <2>1 DEF Abort
  <2>5. CASE ReadDevice(w)
    <3>1. CASE NextItem(w, job[w].done) BY <2>3, <3>1 DEF IngestPCs, EndPCs
    <3>2. CASE Checked(w) /\ UNCHANGED job BY <3>2 DEF Item, ValidFields, PhysicalTemp
    <3> QED BY <2>5, <3>1, <3>2 DEF ReadDevice
  <2>6. CASE ReadDuplicate(w) \/ ReadPeriod(w)
    <3>1. Checked(w) BY <2>6 DEF ItemChecked, ReadDuplicate, ReadPeriod, IngestPCs
    <3>2. CASE UNCHANGED job BY <3>1, <3>2 DEF Item, ValidFields, PhysicalTemp
    <3>3. CASE \E done : NextItem(w, done) BY <2>3, <3>3 DEF IngestPCs, EndPCs
    <3> QED BY <2>6, <3>2, <3>3 DEF ReadDuplicate, ReadPeriod
  <2>7. CASE Classify(w)
    <3>1. Checked(w) BY <2>7 DEF ItemChecked, Classify, IngestPCs
    <3>2. job[w] \in IngestJobs
      BY <2>7 DEF TypeOK, JobOK, Classify, FixPCs, EndPCs
    <3>3. job'[w].todo = job[w].todo /\ job'[w].org = job[w].org
      BY <2>1, <2>7, <3>2 DEF Classify, IngestJobs
    <3> QED BY <3>1, <3>3 DEF Item, ValidFields, PhysicalTemp
  <2>8. CASE Insert(w) BY <2>3, <2>4, <2>8 DEF Insert, IngestPCs, EndPCs
  <2>9. CASE Start(w)
    BY <2>2, <2>9 DEF Start, StartIngest, StartSupersede, StartLock, IngestPCs
  <2>10. CASE FixReadPeriod(w) \/ FixReadSeq(w) \/ FixWrite(w)
    BY <2>2, <2>4, <2>10 DEF FixReadPeriod, FixReadSeq, FixWrite, IngestPCs
  <2>11. CASE Respond(w) \/ Commit(w) \/ LockWrite(w) \/ BusyTimeout(w)
    BY <2>2, <2>4, <2>11 DEF Respond, Commit, LockWrite, BusyTimeout, IngestPCs
  <2> QED BY <1>2, <2>5, <2>6, <2>7, <2>8, <2>9, <2>10, <2>11 DEF Serve
<1>3. CASE \E w \in Workers : Start(w) \/ Serve(w) BY <1>1, <1>2, <1>3 DEF ItemChecked
<1>4. CASE Retire \/ AddCalibration \/ Tick \/ UNCHANGED vars
  BY <1>4 DEF Retire, AddCalibration, Tick, vars, ItemChecked, Item, ValidFields, PhysicalTemp
<1>5. CASE Crash BY <1>5 DEF Crash, ItemChecked, IngestPCs
<1> QED BY <1>3, <1>4, <1>5 DEF Next

LEMMA TypeStep == ASSUME TypeOK, ItemChecked, [Next]_vars PROVE TypeOK'
<1>1. ASSUME NEW w \in Workers, Serve(w) PROVE TypeOK'
  BY <1>1, ReadsOK, ClassifyOK, InsertOK, FixReadsOK, FixWriteOK, EndsOK DEF Serve
<1>2. CASE UNCHANGED vars BY <1>2 DEF vars, TypeOK, JobOK
<1> QED BY <1>1, <1>2, StartsOK, EnvironmentOK DEF Next

LEMMA TypeInit == Init => TypeOK /\ ItemChecked
<1> SUFFICES ASSUME Init PROVE TypeOK /\ ItemChecked OBVIOUS
<1>1. NoDraft \in [rows : SUBSET RowType, log : SUBSET EntryType] BY DEF NoDraft
<1>2. \A w \in Workers : JobOK(w) BY DEF Init, JobOK
<1>3. TypeOK
  BY <1>1, <1>2, ConstantsAssumption DEF Init, TypeOK, Places, JobType
<1>4. ItemChecked BY DEF Init, ItemChecked, IngestPCs
<1> QED BY <1>3, <1>4

(* Every reachable state is well-typed: no request is ever at a step whose    *)
(* local variables it lacks, no stored reading is outside the physical range, *)
(* only a request that writes holds the write lock.                          *)
THEOREM TypeCorrect == Spec => []TypeOK
<1>1. TypeOK /\ ItemChecked /\ [Next]_vars => (TypeOK /\ ItemChecked)'
  BY TypeStep, ItemCheckedStep
<1> QED BY <1>1, TypeInit, PTL DEF Spec

-----------------------------------------------------------------------------
(* Safety beyond types: the readings table is the write-once log of           *)
(* ReadingLog, and what follows from it.                                     *)

(* What the uncommitted tables of a request may differ in from the committed  *)
(* ones, at each of its steps.                                               *)
DraftExtends ==
  \A w \in Workers : writer = w =>
    \/ Table!Appends(rows, draft.rows)
    \/ /\ pc[w] \in EndPCs
       /\ Table!CorrectsIn(rows, draft.rows) \/ Table!CorrectsAgain(rows, draft.rows)

(* The reading a correction was asked for is stored until the correction is,  *)
(* though another correction may have superseded it.                         *)
OrigStored ==
  \A w \in Workers : pc[w] \in FixPCs =>
    /\ job[w].orig.status = "accepted"
    /\ job[w].org = OrgOf[job[w].orig.dev]
    /\ \E r \in rows : r \in {job[w].orig, Table!Superseded(job[w].orig)}

LogInv ==
  /\ TypeOK
  /\ ItemChecked
  /\ Table!DistinctKeys(rows)
  /\ DraftExtends
  /\ OrigStored

-----------------------------------------------------------------------------
(* Facts about the abstract log. *)

LEMMA SupersededRow ==
  ASSUME NEW r \in RowType
  PROVE  /\ Table!Superseded(r) \in RowType
         /\ Key(Table!Superseded(r)) = Key(r)
         /\ Measurement(Table!Superseded(r)) = Measurement(r)
         /\ Table!Superseded(r).status = "superseded"
         /\ Table!Superseded(r).sup = r.sup
         /\ r.status = "superseded" => Table!Superseded(r) = r
BY DEF Table!Superseded, RowType, Status, Key, Table!Key, Measurement, Table!Measurement

(* A step of the log keeps every reading, at most superseding it. *)
LEMMA ReadingsStay ==
  ASSUME NEW t \in SUBSET RowType, NEW u \in SUBSET RowType,
         Table!Appends(t, u) \/ Table!CorrectsIn(t, u) \/ Table!CorrectsAgain(t, u),
         NEW r \in t
  PROVE  \E s \in u : s \in {r, Table!Superseded(r)}
BY DEF Table!Appends, Table!CorrectsIn, Table!CorrectsAgain

LEMMA KeysStayDistinct ==
  ASSUME NEW t \in SUBSET RowType, NEW u \in SUBSET RowType, Table!DistinctKeys(t),
         Table!Appends(t, u) \/ Table!CorrectsIn(t, u) \/ Table!CorrectsAgain(t, u)
  PROVE  Table!DistinctKeys(u)
<1>1. CASE Table!Appends(t, u) BY <1>1 DEF Table!Appends
<1>2. CASE Table!CorrectsIn(t, u)
  <2>1. PICK old \in t, new \in u :
          /\ Table!Fresh(new, t)
          /\ u = (t \ {old}) \union {Table!Superseded(old), new}
    BY <1>2 DEF Table!CorrectsIn
  <2>2. Table!Key(Table!Superseded(old)) = Table!Key(old) BY SupersededRow DEF Key
  <2> QED BY <2>1, <2>2 DEF Table!DistinctKeys, Table!Fresh
<1>3. CASE Table!CorrectsAgain(t, u)
  BY <1>3 DEF Table!CorrectsAgain, Table!DistinctKeys, Table!Fresh
<1> QED BY <1>1, <1>2, <1>3

(* A reading under a new key may be added to an appended table. *)
LEMMA AppendOne ==
  ASSUME NEW t \in SUBSET RowType, NEW u \in SUBSET RowType, NEW r \in RowType,
         Table!Appends(t, u), Table!Fresh(r, u),
         r.sup = NoSup, r.status \in {"accepted", "quarantined"}
  PROVE  Table!Appends(t, u \union {r})
BY DEF Table!Appends, Table!Fresh, Table!DistinctKeys, NoSup

(* UPDATE by key changes the one row that has it. *)
LEMMA FlipOne ==
  ASSUME NEW t \in SUBSET RowType, Table!DistinctKeys(t), NEW orig \in t
  PROVE  Flip(t, orig) = (t \ {orig}) \union {Table!Superseded(orig)}
BY DEF Flip, Table!DistinctKeys, Key

(* What a correction writes. *)
LEMMA CorrectionWrites ==
  ASSUME NEW t \in SUBSET RowType, Table!DistinctKeys(t), NEW j \in FixJobs,
         j.orig.status = "accepted",
         \E r \in t : r \in {j.orig, Table!Superseded(j.orig)},
         Table!Fresh(Correction(j), t),
         NEW u, u = Flip(t, j.orig) \union {Correction(j)}
  PROVE  Table!CorrectsIn(t, u) \/ Table!CorrectsAgain(t, u)
<1> DEFINE new == Correction(j)
<1>1. j.orig \in RowType BY DEF FixJobs
<1>2. /\ new.sup = j.orig.seq /\ new.dev = j.orig.dev /\ new.ts = j.orig.ts
      /\ new.status = "accepted"
  BY DEF Correction
<1>3. new \in u OBVIOUS
<1> HIDE DEF new
<1>4. CASE j.orig \in t
  <2>1. u = (t \ {j.orig}) \union {Table!Superseded(j.orig), new} BY <1>4, FlipOne DEF new
  <2> QED BY <1>2, <1>3, <1>4, <2>1 DEF Table!CorrectsIn, Table!Corrects, new
<1>5. CASE Table!Superseded(j.orig) \in t
  <2> DEFINE old == Table!Superseded(j.orig)
  <2>1. /\ old.status = "superseded" /\ old.seq = j.orig.seq /\ old.dev = j.orig.dev
        /\ old.ts = j.orig.ts /\ Key(old) = Key(j.orig) /\ Table!Superseded(old) = old
    BY <1>1 DEF Table!Superseded, RowType, Key, Table!Key
  <2> HIDE DEF old
  <2>2. Flip(t, j.orig) = t
    <3>1. \A r \in t : Key(r) = Key(j.orig) => r = old
      BY <1>5, <2>1 DEF Table!DistinctKeys, Key, old
    <3> QED BY <2>1, <3>1 DEF Flip
  <2>3. u = t \union {new} BY <2>2 DEF new
  <2>4. old \in t BY <1>5 DEF old
  <2> QED BY <1>2, <1>3, <2>1, <2>3, <2>4 DEF Table!CorrectsAgain, Table!Corrects, new
<1> QED BY <1>4, <1>5
-----------------------------------------------------------------------------
(* The committed readings change only when the holder of the write lock       *)
(* commits, and then they take a step of the log.                            *)
LEMMA LogStep ==
  ASSUME LogInv, [Next]_vars
  PROVE  \/ rows' = rows
         \/ Table!Appends(rows, rows')
         \/ Table!CorrectsIn(rows, rows')
         \/ Table!CorrectsAgain(rows, rows')
<1>1. ASSUME NEW w \in Workers, Commit(w), writer = w
      PROVE  \/ Table!Appends(rows, rows')
             \/ Table!CorrectsIn(rows, rows')
             \/ Table!CorrectsAgain(rows, rows')
  <2>1. rows' = draft.rows BY <1>1 DEF Commit
  <2> QED BY <1>1, <2>1 DEF LogInv, DraftExtends
<1>2. ASSUME NEW w \in Workers, Commit(w), writer # w PROVE rows' = rows
  BY <1>2 DEF Commit
<1>3. ASSUME NEW w \in Workers, Start(w) \/ Serve(w), ~ Commit(w) PROVE rows' = rows
  BY <1>3 DEF Start, Serve, StartIngest, StartSupersede, StartLock, ReadDevice,
     ReadDuplicate, ReadPeriod, Classify, Insert, FixReadPeriod, FixReadSeq, FixWrite,
     Respond, LockWrite, BusyTimeout
<1>4. CASE Retire \/ AddCalibration \/ Tick \/ Crash \/ UNCHANGED vars
  BY <1>4 DEF Retire, AddCalibration, Tick, Crash, vars
<1> QED BY <1>1, <1>2, <1>3, <1>4 DEF Next

(* Writing an item: the draft is the committed table and new readings. *)
LEMMA InsertDraft ==
  ASSUME LogInv, NEW w \in Workers, Insert(w), writer' = w
  PROVE  Table!Appends(rows, draft'.rows) /\ rows' = rows
<1>1. pc[w] \in IngestPCs /\ pc[w] # "device" /\ pc[w] \notin EndPCs
  BY DEF Insert, IngestPCs, EndPCs
<1>2. job[w] \in IngestJobs /\ job[w].todo # <<>>
  BY <1>1 DEF LogInv, TypeOK, JobOK, IngestPCs, FixPCs, EndPCs
<1> DEFINE img == Image(w)
           r == NewRow(Item(w), job[w].verdict)
<1>3. r \in RowType BY <1>1, <1>2, NewRowType DEF LogInv, ItemChecked
<1>4. r.sup = NoSup /\ r.status \in {"accepted", "quarantined"}
  BY <1>2 DEF NewRow, IngestJobs
<1>5. img \in [rows : SUBSET RowType, log : SUBSET EntryType]
  BY ImageType DEF LogInv
<1>6. Table!Appends(rows, img.rows)
  BY <1>1 DEF Image, LogInv, DraftExtends, Table!Appends
<1> HIDE DEF img, r
<1>7. Table!Fresh(r, img.rows) /\ draft'.rows = img.rows \union {r}
  BY ConstantsAssumption DEF Insert, Abort, Unique, img, r
<1>8. rows \in SUBSET RowType BY DEF LogInv, TypeOK
<1> QED BY <1>3, <1>4, <1>5, <1>6, <1>7, <1>8, AppendOne DEF Insert

LEMMA FixDraft ==
  ASSUME LogInv, NEW w \in Workers, FixWrite(w), writer' = w
  PROVE  /\ Table!CorrectsIn(rows, draft'.rows) \/ Table!CorrectsAgain(rows, draft'.rows)
         /\ rows' = rows
         /\ pc'[w] \in EndPCs
<1>1. pc[w] \in FixPCs BY DEF FixWrite, FixPCs
<1>2. job[w] \in FixJobs
  BY <1>1 DEF LogInv, TypeOK, JobOK, IngestPCs, FixPCs, EndPCs
<1>3. ~ Abort(w) BY ConstantsAssumption DEF FixWrite, Abort
<1> DEFINE r == Correction(job[w])
           u == Flip(rows, job[w].orig) \union {r}
<1>4. Table!Fresh(r, rows) /\ draft'.rows = u /\ Goto(w, "respond")
  BY <1>3 DEF FixWrite, Unique
<1>5. pc'[w] = "respond" BY <1>4 DEF Goto, LogInv, TypeOK
<1>6. rows \in SUBSET RowType BY DEF LogInv, TypeOK
<1>7. /\ job[w].orig.status = "accepted"
      /\ \E s \in rows : s \in {job[w].orig, Table!Superseded(job[w].orig)}
  BY <1>1 DEF LogInv, OrigStored
<1>8. Table!DistinctKeys(rows) BY DEF LogInv
<1>9. Table!CorrectsIn(rows, u) \/ Table!CorrectsAgain(rows, u)
  BY <1>2, <1>4, <1>6, <1>7, <1>8, CorrectionWrites
<1> QED BY <1>4, <1>5, <1>9 DEF FixWrite, EndPCs

(* Only writing an item or a correction, and ending, touch draft and lock.    *)
LEMMA DraftStays ==
  ASSUME LogInv, NEW w \in Workers, Start(w) \/ Serve(w)
  PROVE  \/ Insert(w) /\ writer' = w
         \/ FixWrite(w) /\ writer' = w
         \/ writer' = NoWorker
         \/ UNCHANGED <<rows, draft, writer>>
<1>1. Abort(w) => writer' = NoWorker \/ UNCHANGED <<draft, writer>> BY DEF Abort
<1>2. CASE Start(w) BY <1>2 DEF Start, StartIngest, StartSupersede, StartLock
<1>3. CASE ReadDevice(w) \/ ReadDuplicate(w) \/ ReadPeriod(w) \/ Classify(w)
  BY <1>3 DEF ReadDevice, ReadDuplicate, ReadPeriod, Classify
<1>4. CASE Insert(w) BY <1>1, <1>4 DEF Insert
<1>5. CASE FixReadPeriod(w) \/ FixReadSeq(w) \/ FixWrite(w)
  BY <1>1, <1>5 DEF FixReadPeriod, FixReadSeq, FixWrite
<1>6. CASE Commit(w) BY <1>6 DEF Commit, Abort
<1>7. CASE Respond(w) \/ LockWrite(w) \/ BusyTimeout(w)
  BY <1>1, <1>7 DEF Respond, LockWrite, BusyTimeout
<1> QED BY <1>2, <1>3, <1>4, <1>5, <1>6, <1>7 DEF Serve

(* A request that can answer goes on to commit or ends. *)
LEMMA EndsStay ==
  ASSUME LogInv, NEW w \in Workers, Start(w) \/ Serve(w), pc[w] \in EndPCs
  PROVE  pc'[w] \in EndPCs \/ writer' # w
<1>1. CASE Respond(w) BY <1>1 DEF Respond, Goto, LogInv, TypeOK, EndPCs
<1>2. CASE Commit(w) BY <1>2, ConstantsAssumption DEF Commit, Abort
<1>3. pc[w] = "respond" \/ pc[w] = "commit" BY DEF EndPCs
<1>4. Respond(w) \/ Commit(w)
  BY <1>3 DEF Start, Serve, StartIngest, StartSupersede, StartLock, ReadDevice,
     ReadDuplicate, ReadPeriod, Classify, Insert, FixReadPeriod, FixReadSeq, FixWrite,
     LockWrite, BusyTimeout
<1> QED BY <1>1, <1>2, <1>4

LEMMA DraftExtendsStep == ASSUME LogInv, [Next]_vars PROVE DraftExtends'
<1> DEFINE Extends(v) ==
      \/ Table!Appends(rows, draft.rows)
      \/ /\ pc[v] \in EndPCs
         /\ Table!CorrectsIn(rows, draft.rows) \/ Table!CorrectsAgain(rows, draft.rows)
<1>1. ASSUME NEW v \in Workers, writer' = v, UNCHANGED <<rows, draft, writer>>,
             pc[v] \in EndPCs => pc'[v] \in EndPCs
      PROVE  Extends(v)'
  <2>1. Extends(v) BY <1>1 DEF LogInv, DraftExtends
  <2> QED BY <1>1, <2>1 DEF Table!Appends, Table!CorrectsIn, Table!CorrectsAgain
<1>2. ASSUME NEW w \in Workers, Start(w) \/ Serve(w), NEW v \in Workers, writer' = v
      PROVE  Extends(v)'
  <2>1. writer' # NoWorker BY <1>2, ConstantsAssumption
  <2>2. CASE Insert(w) /\ writer' = w
    <3>1. Table!Appends(rows, draft'.rows) /\ rows' = rows BY <2>2, InsertDraft
    <3> QED BY <3>1 DEF Table!Appends
  <2>3. CASE FixWrite(w) /\ writer' = w
    <3>1. /\ Table!CorrectsIn(rows, draft'.rows) \/ Table!CorrectsAgain(rows, draft'.rows)
          /\ rows' = rows
          /\ pc'[w] \in EndPCs
      BY <2>3, FixDraft
    <3> QED BY <1>2, <2>3, <3>1 DEF Table!CorrectsIn, Table!CorrectsAgain
  <2>4. CASE UNCHANGED <<rows, draft, writer>>
    <3>1. CASE v = w BY <1>1, <1>2, <2>4, <3>1, EndsStay
    <3>2. CASE v # w
      <4>1. pc'[v] = pc[v] BY <1>2, <3>2, OthersStay DEF LogInv
      <4> QED BY <1>1, <1>2, <2>4, <4>1
    <3> QED BY <3>1, <3>2
  <2> QED BY <1>2, <2>1, <2>2, <2>3, <2>4, DraftStays
<1>3. CASE Retire \/ AddCalibration \/ Tick \/ UNCHANGED vars
  BY <1>1, <1>3 DEF Retire, AddCalibration, Tick, vars, DraftExtends
<1>4. CASE Crash BY <1>4, ConstantsAssumption DEF Crash, DraftExtends
<1> QED BY <1>2, <1>3, <1>4 DEF Next, DraftExtends

LEMMA OrigStoredStep == ASSUME LogInv, [Next]_vars PROVE OrigStored'
<1> DEFINE Stored(v) ==
      /\ job[v].orig.status = "accepted"
      /\ job[v].org = OrgOf[job[v].orig.dev]
      /\ \E r \in rows : r \in {job[v].orig, Table!Superseded(job[v].orig)}
<1>1. rows \in SUBSET RowType /\ rows' \in SUBSET RowType
  <2>1. TypeOK' BY TypeStep DEF LogInv
  <2> QED BY <2>1 DEF LogInv, TypeOK
<1>2. ASSUME NEW v \in Workers, pc[v] \in FixPCs, job'[v].orig = job[v].orig,
             job'[v].org = job[v].org
      PROVE  Stored(v)'
  <2>1. job[v] \in FixJobs
    BY <1>2 DEF LogInv, TypeOK, JobOK, IngestPCs, FixPCs, EndPCs
  <2>2. Stored(v) BY <1>2 DEF LogInv, OrigStored
  <2>3. PICK r \in rows : r \in {job[v].orig, Table!Superseded(job[v].orig)} BY <2>2
  <2>4. \E s \in rows' : s \in {r, Table!Superseded(r)}
    <3>1. CASE rows' = rows BY <3>1
    <3> QED BY <1>1, <3>1, LogStep, ReadingsStay
  <2>5. Table!Superseded(Table!Superseded(job[v].orig)) = Table!Superseded(job[v].orig)
    BY <2>1, SupersededRow DEF FixJobs
  <2>6. \E s \in rows' : s \in {job[v].orig, Table!Superseded(job[v].orig)}
    BY <2>3, <2>4, <2>5
  <2> QED BY <1>2, <2>2, <2>6
<1>3. ASSUME NEW w \in Workers, Start(w) \/ Serve(w), NEW v \in Workers, v # w,
             pc'[v] \in FixPCs
      PROVE  Stored(v)'
  BY <1>2, <1>3, OthersStay DEF LogInv
<1>4. ASSUME NEW w \in Workers, Start(w) \/ Serve(w), pc'[w] \in FixPCs
      PROVE  Stored(w)'
  <2>1. pc \in [Workers -> Places] /\ job \in [Workers -> JobType] BY DEF LogInv, TypeOK
  <2>2. \A label : Goto(w, label) => pc'[w] = label BY <2>1 DEF Goto
  <2>3. \A done : NextItem(w, done) => pc'[w] \notin FixPCs
    BY <2>1 DEF Goto, NextItem, FixPCs
  <2>4. Abort(w) => pc'[w] \notin FixPCs BY <2>1 DEF Abort, FixPCs
  <2>5. CASE StartSupersede(w)
    <3>1. PICK orig \in rows, t \in FixTemps :
            orig.status = "accepted" /\ job' = [job EXCEPT ![w] = FixJob(orig, t)]
      BY <2>5 DEF StartSupersede, Correctable
    <3>2. job'[w].orig = orig /\ job'[w].org = OrgOf[orig.dev] BY <2>1, <3>1 DEF FixJob
    <3> QED BY <2>5, <3>1, <3>2 DEF StartSupersede
  <2>6. CASE StartIngest(w) \/ StartLock(w)
    BY <1>4, <2>2, <2>6 DEF StartIngest, StartLock, FixPCs
  <2>7. CASE FixReadPeriod(w) BY <1>2, <1>4, <2>4, <2>7 DEF FixReadPeriod, FixPCs
  <2>8. CASE FixReadSeq(w)
    <3>1. job[w] \in FixJobs
      BY <2>8 DEF LogInv, TypeOK, JobOK, FixReadSeq, IngestPCs, FixPCs, EndPCs
    <3>2. job'[w].orig = job[w].orig /\ job'[w].org = job[w].org
      BY <2>1, <2>8, <3>1 DEF FixReadSeq, FixJobs
    <3> QED BY <1>2, <2>8, <3>2 DEF FixReadSeq, FixPCs
  <2>9. CASE FixWrite(w) BY <1>4, <2>2, <2>4, <2>9 DEF FixWrite, FixPCs
  <2>10. CASE ReadDevice(w) \/ ReadDuplicate(w) \/ ReadPeriod(w) \/ Classify(w)
    BY <1>4, <2>2, <2>3, <2>10
    DEF ReadDevice, ReadDuplicate, ReadPeriod, Classify, FixPCs
  <2>11. CASE Insert(w) BY <1>4, <2>3, <2>4, <2>11 DEF Insert
  <2>12. CASE Respond(w) \/ Commit(w) \/ LockWrite(w) \/ BusyTimeout(w)
    BY <1>4, <2>2, <2>4, <2>12 DEF Respond, Commit, LockWrite, BusyTimeout, FixPCs
  <2> QED BY <1>4, <2>5, <2>6, <2>7, <2>8, <2>9, <2>10, <2>11, <2>12 DEF Start, Serve
<1>5. CASE \E w \in Workers : Start(w) \/ Serve(w)
  BY <1>3, <1>4, <1>5 DEF OrigStored
<1>6. CASE Retire \/ AddCalibration \/ Tick \/ UNCHANGED vars
  BY <1>6 DEF Retire, AddCalibration, Tick, vars, LogInv, OrigStored
<1>7. CASE Crash BY <1>7 DEF Crash, OrigStored, FixPCs
<1> QED BY <1>5, <1>6, <1>7 DEF Next

LEMMA LogInvStep == ASSUME LogInv, [Next]_vars PROVE LogInv'
<1>1. (TypeOK /\ ItemChecked)' BY TypeStep, ItemCheckedStep DEF LogInv
<1>2. rows \in SUBSET RowType /\ rows' \in SUBSET RowType BY <1>1 DEF LogInv, TypeOK
<1>3. Table!DistinctKeys(rows)'
  <2>1. Table!DistinctKeys(rows) BY DEF LogInv
  <2>2. CASE rows' = rows BY <2>1, <2>2 DEF Table!DistinctKeys
  <2> QED BY <1>2, <2>1, <2>2, LogStep, KeysStayDistinct DEF Table!DistinctKeys
<1> QED BY <1>1, <1>3, DraftExtendsStep, OrigStoredStep DEF LogInv

LEMMA LogInvInit == Init => LogInv
<1> SUFFICES ASSUME Init PROVE LogInv OBVIOUS
<1>1. DraftExtends BY ConstantsAssumption DEF Init, DraftExtends
<1>2. OrigStored BY DEF Init, OrigStored, FixPCs
<1>3. Table!DistinctKeys(rows) BY DEF Init, Table!DistinctKeys
<1> QED BY <1>1, <1>2, <1>3, TypeInit DEF LogInv

(* Every draft extends the committed log, with keys of its own. *)
THEOREM LogInvariant == Spec => []LogInv
BY LogInvInit, LogInvStep, PTL DEF Spec

(* The readings table is the write-once log, whatever requests interleave and *)
(* wherever the process crashes: a stored measurement never changes or goes    *)
(* away, a number is used once, and a reading is superseded only together     *)
(* with the correction that replaces it.                                     *)
THEOREM Refinement == Spec => WriteOnce
<1>1. Init => Table!Init BY DEF Init, Table!Init
<1>2. LogInv /\ [Next]_vars => [Table!Next]_rows BY LogStep DEF Table!Next
<1> QED BY <1>1, <1>2, LogInvariant, PTL DEF Spec, WriteOnce, Table!Spec
=============================================================================
