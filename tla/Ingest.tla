-------------------------------- MODULE Ingest --------------------------------
(***************************************************************************)
(* The write path of the service: requests that ingest readings one by one  *)
(* or in batches, correct them, freeze months, retire and calibrate devices, *)
(* all running concurrently against one SQLite database.                     *)
(*                                                                         *)
(* A request is served by one of Workers (a thread of the server's pool with *)
(* a database session of its own).  Every SELECT it makes before its first   *)
(* write is a step of its own and sees what is committed at that moment; its *)
(* first INSERT takes the database's only write lock, and from then on it    *)
(* works on a private image of the tables, the draft, until it commits.      *)
(* The response leaves the server before the commit.                         *)
(*                                                                         *)
(* Humidity, battery and the "late" flag carry no control and are left out;  *)
(* excursion evaluation, which never changes these tables, is another module.*)
(***************************************************************************)
EXTENDS Integers, Sequences, FiniteSets

CONSTANTS
  Orgs, Devices, OrgOf,    \* organizations, registered devices, device -> organization
  Workers, NoWorker,       \* request threads, and "no thread"
  PhysMin, PhysMax,        \* PHYS_MIN_MC and PHYS_MAX_MC, ingest.py
  Skew,                    \* MAX_FUTURE_SKEW_MS, ingest.py
  MonthLen,                \* length of a calendar month
  Messages,                \* readings the devices may send
  Batches,                 \* bodies of ingestion requests
  FixTemps,                \* temperatures a correction may carry
  Windows,                 \* calibration windows that may be registered
  LockPeriods,             \* months that may be frozen
  MaxNow,                  \* bound on the clock
  MaxCorrections,          \* bound on the corrections requested
  Faults                   \* which of "crash" and "timeout" happen

MessageType == [dev : Devices, seq : Int, ts : Int, temp : Int]

ASSUME ConstantsAssumption ==
  /\ OrgOf \in [Devices -> Orgs]
  /\ NoWorker \notin Workers
  /\ PhysMin \in Int /\ PhysMax \in Int
  /\ Skew \in Nat /\ MaxNow \in Nat
  /\ MonthLen \in Nat \ {0}
  /\ Messages \subseteq MessageType
  /\ Batches \subseteq Seq(Messages) \ {<<>>}
  /\ FixTemps \subseteq Int
  /\ Windows \subseteq [dev : Devices, from : Nat, until : Nat]
  /\ LockPeriods \subseteq Orgs \X Nat

VARIABLES
  retired,     \* devices whose status is "retired"
  cals,        \* table calibrations
  rows,        \* table readings, as committed
  log,         \* table audit_log, as committed
  locks,       \* table period_locks
  draft,       \* readings and audit_log as the open write transaction sees them
  writer,      \* the worker that holds the write lock
  now,         \* the server's clock
  pc,          \* where each worker is in its handler
  job,         \* the request each worker serves and its local variables
  acked,       \* readings some response has reported as stored
  conflicted   \* readings some request has found in conflict with a stored one

tables == <<retired, cals, locks>>
vars == <<retired, cals, rows, log, locks, draft, writer, now, pc, job, acked, conflicted>>

Table == INSTANCE ReadingLog WITH rows <- rows

Key(r) == Table!Key(r)
Measurement(r) == Table!Measurement(r)
NoSup == Table!NoSup

Status == {"accepted", "quarantined", "superseded"}
Temps == PhysMin..PhysMax
RowType == [dev : Devices, seq : Nat, ts : Nat, temp : Temps,
            status : Status, sup : Nat \union {NoSup}]
EntryType == [seq : Nat \ {0}, org : Orgs, key : Devices \X Nat]
LockType == [org : Orgs, period : Nat, snap : SUBSET MessageType]

-----------------------------------------------------------------------------
(* Queries. *)

Period(ts) == ts \div MonthLen

Locked(o, ts) == \E l \in locks : l.org = o /\ l.period = Period(ts)

Calibrated(d, ts) == \E c \in cals : c.dev = d /\ c.from <= ts /\ ts < c.until

PhysicalTemp(t) == PhysMin <= t /\ t <= PhysMax

(* Variant: the physical range is not checked. *)
ValidNumbers(m) == m.seq >= 0 /\ m.ts > 0

ValidFields(m) == m.seq >= 0 /\ m.ts > 0 /\ PhysicalTemp(m.temp)

(* What the hash of a period lock covers. *)
PeriodRows(t, o, p) ==
  {Measurement(r) : r \in {s \in t : OrgOf[s.dev] = o /\ Period(s.ts) = p}}

(* max(seq) + 1 over the readings of a device, as a singleton. *)
NextSeqs(t, d) ==
  LET stored == {r \in t : r.dev = d}
  IN  {n \in {r.seq + 1 : r \in stored} : \A r \in stored : r.seq < n}

(* Variant: one numbering for the audit rows of all organizations. *)
NextTableSeqs(lg, o) ==
  {n \in {1} \union {e.seq + 1 : e \in lg} : \A e \in lg : e.seq < n}

(* max(seq) + 1 over an organization's audit rows, 1 when it has none. *)
NextAuditSeqs(lg, o) ==
  LET chain == {e \in lg : e.org = o}
  IN  {n \in {1} \union {e.seq + 1 : e \in chain} : \A e \in chain : e.seq < n}

(* The tables as the session of worker w sees them. *)
Image(w) == IF writer = w THEN draft ELSE [rows |-> rows, log |-> log]

NoDraft == [rows |-> {}, log |-> {}]

-----------------------------------------------------------------------------
(* Local state of the requests. *)

NoJob == [done |-> {}]

IngestJob(o, batch) ==
  [org |-> o, todo |-> batch, done |-> {}, verdict |-> "accepted"]

FixJob(orig, t) ==
  [org |-> OrgOf[orig.dev], orig |-> orig, temp |-> t, seq |-> 0, done |-> {}]

LockJob(o, p) ==
  [org |-> o, period |-> p, snap |-> PeriodRows(rows, o, p)]

Item(w) == Head(job[w].todo)

Goto(w, label) == pc' = [pc EXCEPT ![w] = label]

(* The request ends with an error: no response reports anything stored and   *)
(* its session rolls back.                                                  *)
Abort(w) ==
  /\ pc' = [pc EXCEPT ![w] = "idle"]
  /\ job' = [job EXCEPT ![w] = NoJob]
  /\ writer' = IF writer = w THEN NoWorker ELSE writer
  /\ draft' = IF writer = w THEN NoDraft ELSE draft

(* Variant: an item that was refused is tried again. *)
RetryItem(w, done) ==
  /\ job' = [job EXCEPT ![w].todo = IF done = job[w].done THEN @ ELSE Tail(@), ![w].done = done]
  /\ Goto(w, IF done # job[w].done /\ Tail(job[w].todo) = <<>> THEN "respond" ELSE "device")

(* The item is settled; done is what the response will report as stored.     *)
NextItem(w, done) ==
  /\ job' = [job EXCEPT ![w].todo = Tail(@), ![w].done = done]
  /\ Goto(w, IF Tail(job[w].todo) = <<>> THEN "respond" ELSE "device")

-----------------------------------------------------------------------------
(* Ingestion: POST /v1/readings and /v1/readings/batch. *)

StartIngest(w) ==
  /\ pc[w] = "idle"
  /\ \E o \in Orgs, b \in Batches : job' = [job EXCEPT ![w] = IngestJob(o, b)]
  /\ Goto(w, "device")
  /\ UNCHANGED <<tables, rows, log, draft, writer, now, acked, conflicted>>

(* The device must be the organization's, in service, and the fields valid.  *)
ReadDevice(w) ==
  /\ pc[w] = "device"
  /\ LET m == Item(w) IN
       IF OrgOf[m.dev] = job[w].org /\ m.dev \notin retired /\ ValidFields(m)
         THEN Goto(w, "duplicate") /\ UNCHANGED job
         ELSE NextItem(w, job[w].done)
  /\ UNCHANGED <<tables, rows, log, draft, writer, now, acked, conflicted>>

(* Variant: a replay with another value counts as the same reading. *)
SameTime(r, m) == r.ts = m.ts

(* Humidity and battery, which the code compares too, are not modelled. *)
SamePayload(r, m) == r.ts = m.ts /\ r.temp = m.temp

(* A stored row under the same (device, seq) makes the item a replay, which  *)
(* is reported as stored, or a conflict.                                     *)
ReadDuplicate(w) ==
  /\ pc[w] = "duplicate"
  /\ LET m == Item(w)
         existing == {r \in Image(w).rows : Key(r) = Key(m)}
     IN  \/ /\ existing = {}
            /\ Goto(w, "period")
            /\ UNCHANGED <<job, conflicted>>
         \/ \E r \in existing :
              /\ SamePayload(r, m)
              /\ NextItem(w, job[w].done \union {m})
              /\ UNCHANGED conflicted
         \/ \E r \in existing :
              /\ ~ SamePayload(r, m)
              /\ NextItem(w, job[w].done)
              /\ conflicted' = conflicted \union {m}
  /\ UNCHANGED <<tables, rows, log, draft, writer, now, acked>>

ReadPeriod(w) ==
  /\ pc[w] = "period"
  /\ IF Locked(job[w].org, Item(w).ts)
       THEN NextItem(w, job[w].done)
       ELSE Goto(w, "classify") /\ UNCHANGED job
  /\ UNCHANGED <<tables, rows, log, draft, writer, now, acked, conflicted>>

(* A reading from the future, or outside every calibration window of its     *)
(* device, is stored in quarantine.                                          *)
Verdict(m) ==
  IF m.ts > now + Skew \/ ~ Calibrated(m.dev, m.ts) THEN "quarantined" ELSE "accepted"

Classify(w) ==
  /\ pc[w] = "classify"
  /\ job' = [job EXCEPT ![w].verdict = Verdict(Item(w))]
  /\ Goto(w, "insert")
  /\ UNCHANGED <<tables, rows, log, draft, writer, now, acked, conflicted>>

NewRow(m, status) ==
  [dev |-> m.dev, seq |-> m.seq, ts |-> m.ts, temp |-> m.temp,
   status |-> status, sup |-> NoSup]

Entry(n, o, r) == [seq |-> n, org |-> o, key |-> Key(r)]

(* Variant: a table without the constraint. *)
NoConstraint(r, t) == TRUE

(* uq_readings_device_seq *)
Unique(r, t) == Table!Fresh(r, t)

(* audit_log.seq is the primary key of the whole table. *)
SeqTaken(lg, n) == \E e \in lg : e.seq = n

(* The write lock is taken (or already held) and the row goes into the draft *)
(* with its audit entry.  A row committed under the same key since the        *)
(* duplicate check fails the whole request.  An audit entry whose seq another *)
(* organization uses rolls the session back; that error is swallowed, so the  *)
(* response still reports the item, and the rest of the batch, if any, fails. *)
Insert(w) ==
  /\ pc[w] = "insert"
  /\ writer \in {NoWorker, w}
  /\ LET img == Image(w)
         r == NewRow(Item(w), job[w].verdict)
     IN  \/ /\ ~ Unique(r, img.rows)
            /\ Abort(w)
         \/ /\ Unique(r, img.rows)
            /\ \E n \in NextAuditSeqs(img.log, job[w].org) :
                 \/ /\ ~ SeqTaken(img.log, n)
                    /\ draft' = [rows |-> img.rows \union {r},
                                 log |-> img.log \union {Entry(n, job[w].org, r)}]
                    /\ writer' = w
                    /\ NextItem(w, job[w].done \union {Item(w)})
                 \/ /\ SeqTaken(img.log, n)
                    /\ Tail(job[w].todo) # <<>>
                    /\ Abort(w)
                 \/ /\ SeqTaken(img.log, n)
                    /\ Tail(job[w].todo) = <<>>
                    /\ draft' = NoDraft
                    /\ writer' = NoWorker
                    /\ NextItem(w, job[w].done \union {Item(w)})
  /\ UNCHANGED <<tables, rows, log, now, acked, conflicted>>

-----------------------------------------------------------------------------
(* Corrections: POST /v1/readings/{id}/supersede. *)

Corrections == {r \in rows : r.sup # NoSup}

(* Variants: all but superseded readings, all but quarantined ones. *)
NotSuperseded(r) == r.status # "superseded"
NotQuarantined(r) == r.status # "quarantined"

Correctable(r) == r.status = "accepted"

(* The original must be accepted, the new temperature physical. *)
StartSupersede(w) ==
  /\ pc[w] = "idle"
  /\ Cardinality(Corrections) < MaxCorrections
  /\ \E orig \in rows, t \in FixTemps :
       /\ Correctable(orig)
       /\ PhysicalTemp(t)
       /\ job' = [job EXCEPT ![w] = FixJob(orig, t)]
  /\ Goto(w, "fix_period")
  /\ UNCHANGED <<tables, rows, log, draft, writer, now, acked, conflicted>>

(* Variant: corrections enter locked months. *)
FixAnyPeriod(w) ==
  /\ pc[w] = "fix_period"
  /\ Goto(w, "fix_seq")
  /\ UNCHANGED <<tables, rows, log, draft, writer, now, job, acked, conflicted>>

FixReadPeriod(w) ==
  /\ pc[w] = "fix_period"
  /\ IF Locked(job[w].org, job[w].orig.ts)
       THEN Abort(w)
       ELSE Goto(w, "fix_seq") /\ UNCHANGED <<job, writer, draft>>
  /\ UNCHANGED <<tables, rows, log, now, acked, conflicted>>

FixReadSeq(w) ==
  /\ pc[w] = "fix_seq"
  /\ \E n \in NextSeqs(rows, job[w].orig.dev) : job' = [job EXCEPT ![w].seq = n]
  /\ Goto(w, "fix_write")
  /\ UNCHANGED <<tables, rows, log, draft, writer, now, acked, conflicted>>

Correction(j) ==
  [dev |-> j.orig.dev, seq |-> j.seq, ts |-> j.orig.ts, temp |-> j.temp,
   status |-> "accepted", sup |-> j.orig.seq]

(* Variant: the correction is added, the original stays as it is. *)
KeepAll(t, orig) == t

(* UPDATE readings SET status = 'superseded' WHERE id = ... : by key, and     *)
(* whatever the status has become meanwhile.                                 *)
Flip(t, orig) ==
  {IF Key(r) = Key(orig) THEN Table!Superseded(r) ELSE r : r \in t}

(* Insert, update and audit entry go into the draft together; a key or an    *)
(* audit seq already taken fails the request.                                *)
FixWrite(w) ==
  /\ pc[w] = "fix_write"
  /\ writer = NoWorker
  /\ LET r == Correction(job[w])
     IN  \/ /\ ~ Unique(r, rows)
            /\ Abort(w)
         \/ /\ Unique(r, rows)
            /\ \E n \in NextAuditSeqs(log, job[w].org) :
                 \/ /\ SeqTaken(log, n)
                    /\ Abort(w)
                 \/ /\ ~ SeqTaken(log, n)
                    /\ draft' = [rows |-> Flip(rows, job[w].orig) \union {r},
                                 log |-> log \union {Entry(n, job[w].org, r)}]
                    /\ writer' = w
                    /\ job' = [job EXCEPT ![w].done = {Measurement(r)}]
                    /\ Goto(w, "respond")
  /\ UNCHANGED <<tables, rows, log, now, acked, conflicted>>

-----------------------------------------------------------------------------
(* The end of every ingestion and correction: the response is sent, then the *)
(* database dependency commits.                                              *)

Respond(w) ==
  /\ pc[w] = "respond"
  /\ acked' = acked \union job[w].done
  /\ Goto(w, "commit")
  /\ UNCHANGED <<tables, rows, log, draft, writer, now, job, conflicted>>

(* A session whose flush failed holds no draft any more and commits nothing. *)
Commit(w) ==
  /\ pc[w] = "commit"
  /\ IF writer = w
       THEN rows' = draft.rows /\ log' = draft.log
       ELSE UNCHANGED <<rows, log>>
  /\ Abort(w)
  /\ UNCHANGED <<tables, now, acked, conflicted>>

-----------------------------------------------------------------------------
(* Freezing a month: POST /v1/periods/lock. *)

(* The month is not locked yet; its readings are read for the hash. *)
StartLock(w) ==
  /\ pc[w] = "idle"
  /\ \E op \in LockPeriods :
       /\ \A l \in locks : <<l.org, l.period>> # op
       /\ job' = [job EXCEPT ![w] = LockJob(op[1], op[2])]
  /\ Goto(w, "lock_write")
  /\ UNCHANGED <<tables, rows, log, draft, writer, now, acked, conflicted>>

(* uq_locks_org_period rejects the loser of two concurrent requests. *)
LockWrite(w) ==
  /\ pc[w] = "lock_write"
  /\ writer = NoWorker
  /\ LET l == [org |-> job[w].org, period |-> job[w].period, snap |-> job[w].snap]
     IN  locks' = IF \E k \in locks : k.org = l.org /\ k.period = l.period
                    THEN locks
                    ELSE locks \union {l}
  /\ Abort(w)
  /\ UNCHANGED <<retired, cals, rows, log, now, acked, conflicted>>

-----------------------------------------------------------------------------
(* Devices: one-statement writes, which wait for the write lock. *)

Retire ==
  /\ writer = NoWorker
  /\ \E d \in Devices \ retired : retired' = retired \union {d}
  /\ UNCHANGED <<cals, locks, rows, log, draft, writer, now, pc, job, acked, conflicted>>

AddCalibration ==
  /\ writer = NoWorker
  /\ \E c \in Windows \ cals : c.from < c.until /\ cals' = cals \union {c}
  /\ UNCHANGED <<retired, locks, rows, log, draft, writer, now, pc, job, acked, conflicted>>

-----------------------------------------------------------------------------
(* The environment. *)

Tick ==
  /\ now < MaxNow
  /\ now' = now + 1
  /\ UNCHANGED <<tables, rows, log, draft, writer, pc, job, acked, conflicted>>

(* SQLite gives up waiting for the write lock after 30 s. *)
BusyTimeout(w) ==
  /\ "timeout" \in Faults
  /\ pc[w] \in {"insert", "fix_write", "lock_write"}
  /\ writer \notin {NoWorker, w}
  /\ Abort(w)
  /\ UNCHANGED <<tables, rows, log, now, acked, conflicted>>

(* The process dies and is restarted: the open transaction is gone. *)
Crash ==
  /\ "crash" \in Faults
  /\ \E w \in Workers : pc[w] # "idle"
  /\ pc' = [w \in Workers |-> "idle"]
  /\ job' = [w \in Workers |-> NoJob]
  /\ writer' = NoWorker
  /\ draft' = NoDraft
  /\ UNCHANGED <<tables, rows, log, now, acked, conflicted>>

-----------------------------------------------------------------------------
Init ==
  /\ retired = {} /\ cals = {} /\ rows = {} /\ log = {} /\ locks = {}
  /\ draft = NoDraft
  /\ writer = NoWorker
  /\ now = 0
  /\ pc = [w \in Workers |-> "idle"]
  /\ job = [w \in Workers |-> NoJob]
  /\ acked = {} /\ conflicted = {}

(* A step of the request worker w serves. *)
Serve(w) ==
  \/ ReadDevice(w) \/ ReadDuplicate(w) \/ ReadPeriod(w) \/ Classify(w) \/ Insert(w)
  \/ FixReadPeriod(w) \/ FixReadSeq(w) \/ FixWrite(w)
  \/ Respond(w) \/ Commit(w)
  \/ LockWrite(w)
  \/ BusyTimeout(w)

Start(w) == StartIngest(w) \/ StartSupersede(w) \/ StartLock(w)

Next ==
  \/ \E w \in Workers : Start(w) \/ Serve(w)
  \/ Retire \/ AddCalibration \/ Tick \/ Crash

Spec == Init /\ [][Next]_vars

(* A thread that has a request keeps executing it. *)
FairSpec == Spec /\ \A w \in Workers : WF_vars(Serve(w))
-----------------------------------------------------------------------------
(* Properties. *)

IngestPCs == {"device", "duplicate", "period", "classify", "insert"}
FixPCs == {"fix_period", "fix_seq", "fix_write"}
EndPCs == {"respond", "commit"}
Places == {"idle", "lock_write"} \union IngestPCs \union FixPCs \union EndPCs

IngestJobs == [org : Orgs, todo : Seq(Messages), done : SUBSET MessageType,
               verdict : {"accepted", "quarantined"}]
FixJobs == [org : Orgs, orig : RowType, temp : Temps, seq : Nat, done : SUBSET MessageType]
LockJobs == [org : Orgs, period : Nat, snap : SUBSET MessageType]
JobType == {NoJob} \union IngestJobs \union FixJobs \union LockJobs

JobOK(w) ==
  \/ pc[w] = "idle" /\ job[w] = NoJob
  \/ pc[w] \in IngestPCs /\ job[w] \in IngestJobs /\ job[w].todo # <<>>
  \/ pc[w] \in FixPCs /\ job[w] \in FixJobs
  \/ pc[w] \in EndPCs /\ job[w] \in IngestJobs \union FixJobs
  \/ pc[w] = "lock_write" /\ job[w] \in LockJobs

(* Type correctness, with the local variables a request has at each of its   *)
(* steps; only a worker inside a handler that writes can hold the lock.      *)
TypeOK ==
  /\ retired \subseteq Devices
  /\ cals \subseteq Windows
  /\ rows \subseteq RowType
  /\ log \subseteq EntryType
  /\ locks \subseteq LockType
  /\ draft \in [rows : SUBSET RowType, log : SUBSET EntryType]
  /\ writer \in Workers \union {NoWorker}
  /\ now \in Nat
  /\ pc \in [Workers -> Places]
  /\ job \in [Workers -> JobType]
  /\ \A w \in Workers : JobOK(w) /\ (writer = w => pc[w] \in IngestPCs \union EndPCs)
  /\ acked \subseteq MessageType
  /\ conflicted \subseteq Messages

(* The readings certificates count as evidence (accepted, or accepted once    *)
(* and superseded) were taken under a calibration certificate of their device *)
(* and not in the future, whatever path brought them in: classified at        *)
(* ingestion, or stored as the correction of such a reading.                 *)
QuarantineSound ==
  \A r \in rows : r.status # "quarantined" =>
    /\ \E c \in cals : c.dev = r.dev /\ r.ts \in c.from..(c.until - 1)
    /\ r.ts <= now + Skew

(* A superseded reading is one that some stored correction replaces, and a    *)
(* correction repeats the device and time of an older reading that is         *)
(* superseded: no correction is counted as evidence beside its original.      *)
SupersedeLinks ==
  /\ \A r \in rows : r.status = "superseded" <=> \E s \in rows : s.dev = r.dev /\ s.sup = r.seq
  /\ \A s \in Corrections : \E r \in rows :
       r.dev = s.dev /\ r.seq = s.sup /\ r.seq < s.seq /\ r.ts = s.ts

(* Every stored reading has exactly one audit entry, in the chain of the      *)
(* organization that owns its device, every entry has its reading, and the    *)
(* entries of each organization are numbered 1, 2, 3, ... with no gap, which  *)
(* is what verify_audit requires of the chain.                               *)
AuditComplete ==
  /\ {e.key : e \in log} = {Key(r) : r \in rows}
  /\ \A e \in log : e.org = OrgOf[e.key[1]]
  /\ \A e, f \in log : e.key = f.key \/ (e.org = f.org /\ e.seq = f.seq) => e = f
  /\ \A e \in log : e.seq = 1 \/ \E f \in log : f.org = e.org /\ f.seq = e.seq - 1

(* The committed readings behave as the write-once log of ReadingLog.        *)
WriteOnce == Table!Spec

(* "Send seq N until acked" is a complete protocol only if what a response    *)
(* reports as stored is stored, or in the open transaction of its sender.     *)
AckedIsStored ==
  \A m \in acked : \E r \in rows \union draft.rows : Measurement(r) = m

(* A reading is corrected at most once: two accepted corrections of one       *)
(* reading would both count.                                                 *)
SupersededOnce ==
  \A r, s \in Corrections : r.dev = s.dev /\ r.sup = s.sup => r = s

(* The readings of a locked month are those its lock hashed.                 *)
LockedFrozen ==
  \A l \in locks : PeriodRows(rows, l.org, l.period) = l.snap

(* A reading that some response has reported as stored is never refused as a  *)
(* conflict, before or after, whatever races, retries and corrections there   *)
(* are: the two answers would leave its device without a next step.          *)
OneAnswer == acked \intersect conflicted = {}

(* Every request gets to its end, whatever becomes of the items of its batch  *)
(* and whether it gets the write lock it waits for or gives up.              *)
RequestsFinish ==
  \A w \in Workers : pc[w] # "idle" ~> pc[w] = "idle"
=============================================================================
