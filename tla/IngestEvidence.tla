---------------------------- MODULE IngestEvidence ----------------------------
(***************************************************************************)
(* What the stored readings are worth as evidence: calibrated and not from   *)
(* the future, corrections linked to their originals, every reading audited. *)
(* Each holds of the committed tables because it holds of every draft too.   *)
(* Then what the answers are worth, in a service of one organization that    *)
(* does not crash, and what locks and corrections promise where one worker   *)
(* serves all requests; the README says what becomes of them without that.   *)
(***************************************************************************)
EXTENDS IngestProofs

(* The time of a reading is under a calibration certificate and not ahead. *)
Covered(d, ts) ==
  /\ \E c \in cals : c.dev = d /\ ts \in c.from..(c.until - 1)
  /\ ts <= now + Skew

SoundTable(t) == \A r \in t : r.status # "quarantined" => Covered(r.dev, r.ts)

LinkedTable(t) ==
  /\ \A r \in t : r.status = "superseded" <=> \E s \in t : s.dev = r.dev /\ s.sup = r.seq
  /\ \A s \in t : s.sup # NoSup => \E r \in t :
       r.dev = s.dev /\ r.seq = s.sup /\ r.seq < s.seq /\ r.ts = s.ts

AuditedTable(t, lg) ==
  /\ {e.key : e \in lg} = {Key(r) : r \in t}
  /\ \A e \in lg : e.org = OrgOf[e.key[1]]
  /\ \A e, f \in lg : e.key = f.key \/ (e.org = f.org /\ e.seq = f.seq) => e = f
  /\ \A e \in lg : e.seq = 1 \/ \E f \in lg : f.org = e.org /\ f.seq = e.seq - 1

(* What a request has found out about the row it is about to write. *)
VerdictSound ==
  \A w \in Workers : pc[w] = "insert" /\ job[w].verdict = "accepted" =>
    Covered(Item(w).dev, Item(w).ts)

SeqAhead ==
  \A w \in Workers : pc[w] = "fix_write" => job[w].orig.seq < job[w].seq

-----------------------------------------------------------------------------
(* The committed tables are the old ones or the draft; the draft is the old   *)
(* one, empty, or written by one of two actions.                             *)
LEMMA CommittedStep ==
  ASSUME LogInv, [Next]_vars
  PROVE  \/ rows' = rows /\ log' = log
         \/ rows' = draft.rows /\ log' = draft.log
<1>1. ASSUME NEW w \in Workers, Commit(w)
      PROVE  (rows' = rows /\ log' = log) \/ (rows' = draft.rows /\ log' = draft.log)
  BY <1>1 DEF Commit
<1>2. ASSUME NEW w \in Workers, Start(w) \/ Serve(w), ~ Commit(w)
      PROVE  rows' = rows /\ log' = log
  BY <1>2 DEF Start, Serve, StartIngest, StartSupersede, StartLock, ReadDevice,
     ReadDuplicate, ReadPeriod, Classify, Insert, FixReadPeriod, FixReadSeq, FixWrite,
     Respond, LockWrite, BusyTimeout
<1>3. CASE Retire \/ AddCalibration \/ Tick \/ Crash \/ UNCHANGED vars
  BY <1>3 DEF Retire, AddCalibration, Tick, Crash, vars
<1> QED BY <1>1, <1>2, <1>3 DEF Next

LEMMA DraftStep ==
  ASSUME LogInv, [Next]_vars
  PROVE  \/ draft' = draft \/ draft' = NoDraft
         \/ \E w \in Workers : Insert(w) /\ writer' = w
         \/ \E w \in Workers : FixWrite(w) /\ writer' = w
<1>1. \A w \in Workers : Abort(w) => draft' = draft \/ draft' = NoDraft BY DEF Abort
<1>2. ASSUME NEW w \in Workers, Insert(w)
      PROVE  draft' = draft \/ draft' = NoDraft \/ writer' = w
  BY <1>1, <1>2 DEF Insert
<1>3. ASSUME NEW w \in Workers, FixReadPeriod(w) \/ FixReadSeq(w) \/ FixWrite(w)
      PROVE  draft' = draft \/ draft' = NoDraft \/ (FixWrite(w) /\ writer' = w)
  BY <1>1, <1>3 DEF FixReadPeriod, FixReadSeq, FixWrite
<1>4. ASSUME NEW w \in Workers,
             Start(w) \/ ReadDevice(w) \/ ReadDuplicate(w) \/ ReadPeriod(w) \/ Classify(w)
               \/ Respond(w) \/ Commit(w) \/ LockWrite(w) \/ BusyTimeout(w)
      PROVE  draft' = draft \/ draft' = NoDraft
  BY <1>1, <1>4 DEF Start, StartIngest, StartSupersede, StartLock, ReadDevice,
     ReadDuplicate, ReadPeriod, Classify, Respond, Commit, LockWrite, BusyTimeout
<1>5. CASE Retire \/ AddCalibration \/ Tick \/ Crash \/ UNCHANGED vars
  BY <1>5 DEF Retire, AddCalibration, Tick, Crash, vars
<1> QED BY <1>2, <1>3, <1>4, <1>5 DEF Next, Serve

(* What the two writing actions write. *)
LEMMA InsertWrites ==
  ASSUME LogInv, NEW w \in Workers, Insert(w), writer' = w
  PROVE  LET img == Image(w)
             r == NewRow(Item(w), job[w].verdict)
         IN  /\ img = draft \/ img = [rows |-> rows, log |-> log]
             /\ img.rows \in SUBSET RowType /\ img.log \in SUBSET EntryType
             /\ r \in RowType /\ Table!Fresh(r, img.rows)
             /\ job[w].org \in Orgs
             /\ \E n \in NextAuditSeqs(img.log, job[w].org) :
                  /\ ~ SeqTaken(img.log, n)
                  /\ draft' = [rows |-> img.rows \union {r},
                               log |-> img.log \union {Entry(n, job[w].org, r)}]
<1>1. pc[w] \in IngestPCs /\ pc[w] # "device" BY DEF Insert, IngestPCs
<1>2. job[w] \in IngestJobs /\ job[w].todo # <<>>
  BY <1>1 DEF LogInv, TypeOK, JobOK, IngestPCs, FixPCs, EndPCs
<1> DEFINE img == Image(w)
           r == NewRow(Item(w), job[w].verdict)
<1>3. img = draft \/ img = [rows |-> rows, log |-> log] BY DEF Image
<1>4. img \in [rows : SUBSET RowType, log : SUBSET EntryType] BY ImageType DEF LogInv
<1>5. r \in RowType BY <1>1, <1>2, NewRowType DEF LogInv, ItemChecked
<1>6. job[w].org \in Orgs BY <1>2 DEF IngestJobs
<1>7. ~ Abort(w) /\ writer' # NoWorker BY ConstantsAssumption DEF Abort
<1>8. /\ Table!Fresh(r, img.rows)
      /\ \E n \in NextAuditSeqs(img.log, job[w].org) :
           /\ ~ SeqTaken(img.log, n)
           /\ draft' = [rows |-> img.rows \union {r},
                        log |-> img.log \union {Entry(n, job[w].org, r)}]
  BY <1>7 DEF Insert, Unique
<1> HIDE DEF img, r
<1>9. img.rows \in SUBSET RowType /\ img.log \in SUBSET EntryType BY <1>4
<1> QED BY <1>3, <1>5, <1>6, <1>8, <1>9 DEF img, r

LEMMA FixWrites ==
  ASSUME LogInv, NEW w \in Workers, FixWrite(w), writer' = w
  PROVE  LET r == Correction(job[w])
         IN  /\ job[w] \in FixJobs
             /\ r \in RowType /\ Table!Fresh(r, rows)
             /\ \E n \in NextAuditSeqs(log, job[w].org) :
                  /\ ~ SeqTaken(log, n)
                  /\ draft' = [rows |-> Flip(rows, job[w].orig) \union {r},
                               log |-> log \union {Entry(n, job[w].org, r)}]
<1>1. job[w] \in FixJobs
  BY DEF LogInv, TypeOK, JobOK, FixWrite, IngestPCs, FixPCs, EndPCs
<1>2. ~ Abort(w) BY ConstantsAssumption DEF FixWrite, Abort
<1> QED BY <1>1, <1>2, CorrectionType DEF FixWrite, Unique
-----------------------------------------------------------------------------
(* Facts about one table. *)

LEMMA NextAuditSeq ==
  ASSUME NEW lg \in SUBSET EntryType, NEW o \in Orgs, NEW n \in NextAuditSeqs(lg, o)
  PROVE  /\ n \in Nat \ {0}
         /\ n = 1 \/ \E e \in lg : e.org = o /\ e.seq = n - 1
         /\ \A e \in lg : e.org = o => e.seq # n
BY DEF NextAuditSeqs, EntryType

(* One more reading with its entry keeps an audited table audited. *)
LEMMA AuditOne ==
  ASSUME NEW t \in SUBSET RowType, NEW lg \in SUBSET EntryType, AuditedTable(t, lg),
         NEW o \in Orgs, NEW n \in NextAuditSeqs(lg, o),
         NEW r \in RowType, OrgOf[r.dev] = o, Table!Fresh(r, t),
         NEW u \in SUBSET RowType, {Key(s) : s \in u} = {Key(s) : s \in t}
  PROVE  AuditedTable(u \union {r}, lg \union {Entry(n, o, r)})
<1> DEFINE x == Entry(n, o, r)
           lg2 == lg \union {x}
<1>1. x.seq = n /\ x.org = o /\ x.key = Key(r) BY DEF Entry
<1>2. \A e \in lg : e.key # Key(r)
  <2>1. \A s \in t : Key(s) # Key(r) BY DEF Table!Fresh, Key
  <2> QED BY <2>1 DEF AuditedTable
<1> HIDE DEF x
<1>3. {e.key : e \in lg2} = {Key(s) : s \in u \union {r}}
  <2>1. {e.key : e \in lg} = {Key(s) : s \in u} BY DEF AuditedTable
  <2> QED BY <1>1, <2>1
<1>4. \A e, f \in lg2 : e.key = f.key \/ (e.org = f.org /\ e.seq = f.seq) => e = f
  <2>1. \A e \in lg : ~ (e.org = o /\ e.seq = n) BY NextAuditSeq
  <2> QED BY <1>1, <1>2, <2>1 DEF AuditedTable
<1>5. \A e \in lg2 : e.seq = 1 \/ \E f \in lg2 : f.org = e.org /\ f.seq = e.seq - 1
  BY <1>1, NextAuditSeq DEF AuditedTable
<1>6. \A e \in lg2 : e.org = OrgOf[e.key[1]]
  <2>1. x.key[1] = r.dev BY <1>1 DEF Key, Table!Key
  <2> QED BY <1>1, <2>1 DEF AuditedTable
<1> QED BY <1>3, <1>4, <1>5, <1>6 DEF AuditedTable, x, lg2

LEMMA FlipKeys ==
  ASSUME NEW t \in SUBSET RowType, NEW orig
  PROVE  {Key(r) : r \in Flip(t, orig)} = {Key(r) : r \in t}
<1>1. \A r \in t : Key(Table!Superseded(r)) = Key(r) BY SupersededRow
<1> QED BY <1>1 DEF Flip

(* A new reading corrects nothing and nothing corrects it yet. *)
LEMMA LinkOne ==
  ASSUME NEW t \in SUBSET RowType, LinkedTable(t), NEW r \in RowType,
         Table!Fresh(r, t), r.sup = NoSup, r.status # "superseded"
  PROVE  LinkedTable(t \union {r})
<1>1. \A s \in t : ~ (s.dev = r.dev /\ s.seq = r.seq) BY DEF Table!Fresh, Table!Key
<1>2. \A s \in t : ~ (s.dev = r.dev /\ s.sup = r.seq)
  <2>1. r.seq # NoSup BY DEF RowType, NoSup, Table!NoSup
  <2> QED BY <1>1, <2>1 DEF LinkedTable
<1>3. \A s \in t \union {r} : r.sup # s.seq BY DEF RowType, NoSup, Table!NoSup
<1>4. \A x \in t \union {r} : x.status = "superseded" <=>
        \E s \in t \union {r} : s.dev = x.dev /\ s.sup = x.seq
  BY <1>2, <1>3 DEF LinkedTable
<1>5. \A s \in t \union {r} : s.sup # NoSup => \E x \in t \union {r} :
        x.dev = s.dev /\ x.seq = s.sup /\ x.seq < s.seq /\ x.ts = s.ts
  BY DEF LinkedTable
<1> QED BY <1>4, <1>5 DEF LinkedTable

(* A correction is linked to the reading it supersedes. *)
LEMMA LinkCorrection ==
  ASSUME NEW t \in SUBSET RowType, LinkedTable(t), Table!DistinctKeys(t),
         NEW j \in FixJobs, j.orig.seq < j.seq,
         \E r \in t : r \in {j.orig, Table!Superseded(j.orig)},
         Table!Fresh(Correction(j), t)
  PROVE  LinkedTable(Flip(t, j.orig) \union {Correction(j)})
<1> DEFINE new == Correction(j)
           u == Flip(t, j.orig) \union {new}
<1>1. j.orig \in RowType /\ new \in RowType BY CorrectionType DEF FixJobs
<1>2. /\ new.dev = j.orig.dev /\ new.seq = j.seq /\ new.ts = j.orig.ts
      /\ new.sup = j.orig.seq /\ new.status = "accepted"
  BY DEF Correction
<1> HIDE DEF new
<1>3. \A s \in t : ~ (s.dev = new.dev /\ s.seq = new.seq)
  BY DEF Table!Fresh, Table!Key, new
<1>4. \A s \in t : ~ (s.dev = new.dev /\ s.sup = new.seq)
  <2>1. new.seq # NoSup BY <1>1 DEF RowType, NoSup, Table!NoSup
  <2> QED BY <1>3, <2>1 DEF LinkedTable
<1> DEFINE F(r) == IF Key(r) = Key(j.orig) THEN Table!Superseded(r) ELSE r
<1>5. \A r \in t : /\ F(r).dev = r.dev /\ F(r).seq = r.seq /\ F(r).ts = r.ts /\ F(r).sup = r.sup
                    /\ F(r).status = IF Key(r) = Key(j.orig) THEN "superseded" ELSE r.status
  BY DEF Table!Superseded, RowType
<1>6. \A r \in t : Key(r) = Key(j.orig) <=> r.dev = new.dev /\ r.seq = new.sup
  BY <1>2 DEF Key, Table!Key
<1>7. u = {F(r) : r \in t} \union {new} BY DEF Flip
<1> HIDE DEF F, u
<1>8. \E r \in t : r.dev = new.dev /\ r.seq = new.sup /\ r.ts = new.ts
  BY <1>1, <1>2 DEF Table!Superseded, RowType
<1>9. ASSUME NEW x \in t
      PROVE  F(x).status = "superseded" <=> \E s \in u : s.dev = x.dev /\ s.sup = x.seq
  <2>1. CASE Key(x) = Key(j.orig) BY <1>2, <1>5, <1>6, <1>7, <2>1
  <2>2. CASE Key(x) # Key(j.orig)
    <3>1. F(x).status = x.status BY <1>5, <2>2
    <3>2. ~ (new.dev = x.dev /\ new.sup = x.seq) BY <1>6, <2>2
    <3>3. (\E s \in u : s.dev = x.dev /\ s.sup = x.seq)
            <=> \E s \in t : s.dev = x.dev /\ s.sup = x.seq
      BY <1>5, <1>7, <3>2
    <3> QED BY <3>1, <3>3 DEF LinkedTable
  <2> QED BY <2>1, <2>2
<1>10. \A s \in u : ~ (s.dev = new.dev /\ s.sup = new.seq)
  <2>1. new.sup # new.seq BY <1>1, <1>2 DEF RowType, FixJobs
  <2> QED BY <1>4, <1>5, <1>7, <2>1
<1>11. \A x \in u : x.status = "superseded" <=> \E s \in u : s.dev = x.dev /\ s.sup = x.seq
  BY <1>2, <1>5, <1>7, <1>9, <1>10
<1>12. ASSUME NEW s \in u, s.sup # NoSup
       PROVE  \E x \in u : x.dev = s.dev /\ x.seq = s.sup /\ x.seq < s.seq /\ x.ts = s.ts
  <2>1. CASE s = new BY <1>2, <1>5, <1>7, <1>8, <2>1
  <2>2. ASSUME NEW q \in t, s = F(q) PROVE \E x \in u :
          x.dev = s.dev /\ x.seq = s.sup /\ x.seq < s.seq /\ x.ts = s.ts
    <3>1. PICK x \in t : x.dev = q.dev /\ x.seq = q.sup /\ x.seq < q.seq /\ x.ts = q.ts
      BY <1>5, <1>12, <2>2 DEF LinkedTable
    <3> QED BY <1>5, <1>7, <2>2, <3>1
  <2> QED BY <1>7, <2>1, <2>2
<1> QED BY <1>11, <1>12 DEF LinkedTable, u, new
-----------------------------------------------------------------------------
(* The local facts are established by the reads and last until the write. *)

CoverageStays == \A d, ts : Covered(d, ts) => Covered(d, ts)'

LEMMA CoverageStep == ASSUME TypeOK, [Next]_vars PROVE CoverageStays
<1>1. cals \subseteq cals'
  BY DEF Next, Start, Serve, StartIngest, StartSupersede, StartLock, ReadDevice,
     ReadDuplicate, ReadPeriod, Classify, Insert, FixReadPeriod, FixReadSeq, FixWrite,
     Respond, Commit, LockWrite, BusyTimeout, Retire, AddCalibration, Tick, Crash, vars, tables
<1>2. now' = now \/ now' = now + 1
  BY DEF Next, Start, Serve, StartIngest, StartSupersede, StartLock, ReadDevice,
     ReadDuplicate, ReadPeriod, Classify, Insert, FixReadPeriod, FixReadSeq, FixWrite,
     Respond, Commit, LockWrite, BusyTimeout, Retire, AddCalibration, Tick, Crash, vars
<1> SUFFICES ASSUME NEW d, NEW ts, Covered(d, ts) PROVE Covered(d, ts)'
  BY DEF CoverageStays
<1>3. PICK c \in cals : c.dev = d /\ ts \in c.from..(c.until - 1) BY DEF Covered
<1>4. c.from \in Nat /\ c.until \in Nat BY ConstantsAssumption DEF TypeOK
<1>5. ts \in Int BY <1>3, <1>4
<1>6. ts <= now' + Skew BY <1>2, <1>5, ConstantsAssumption DEF TypeOK, Covered
<1> QED BY <1>1, <1>3, <1>6 DEF Covered

(* The classification agrees with the reference notion of coverage. *)
LEMMA AcceptedIsCovered ==
  ASSUME TypeOK, NEW m \in MessageType, Verdict(m) = "accepted"
  PROVE  Covered(m.dev, m.ts)
<1>1. ~ (m.ts > now + Skew) /\ Calibrated(m.dev, m.ts) BY DEF Verdict
<1>2. PICK c \in cals : c.dev = m.dev /\ c.from <= m.ts /\ m.ts < c.until
  BY <1>1 DEF Calibrated
<1>3. c.from \in Nat /\ c.until \in Nat /\ m.ts \in Int /\ now \in Nat /\ Skew \in Nat
  BY ConstantsAssumption DEF TypeOK, MessageType
<1> QED BY <1>1, <1>2, <1>3 DEF Covered

(* Where a worker can come from when it is about to write. *)
LEMMA BeforeWrites ==
  ASSUME TypeOK, NEW w \in Workers, Start(w) \/ Serve(w)
  PROVE  /\ pc'[w] = "insert" => Classify(w)
         /\ pc'[w] = "fix_write" => FixReadSeq(w)
<1>1. pc \in [Workers -> Places] BY DEF TypeOK
<1>2. \A label : Goto(w, label) => pc'[w] = label BY <1>1 DEF Goto
<1>3. \A done : NextItem(w, done) => pc'[w] \in EndPCs \union {"device"}
  BY <1>1 DEF Goto, NextItem, EndPCs
<1>4. Abort(w) => pc'[w] = "idle" BY <1>1 DEF Abort
<1>5. CASE Start(w) BY <1>2, <1>5 DEF Start, StartIngest, StartSupersede, StartLock
<1>6. CASE ReadDevice(w) \/ ReadDuplicate(w) \/ ReadPeriod(w)
  BY <1>2, <1>3, <1>6 DEF ReadDevice, ReadDuplicate, ReadPeriod, EndPCs
<1>7. CASE Classify(w) BY <1>2, <1>7 DEF Classify
<1>8. CASE Insert(w) BY <1>3, <1>4, <1>8 DEF Insert, EndPCs
<1>9. CASE FixReadPeriod(w) \/ FixReadSeq(w) \/ FixWrite(w)
  BY <1>2, <1>4, <1>9 DEF FixReadPeriod, FixReadSeq, FixWrite
<1>10. CASE Respond(w) \/ Commit(w) \/ LockWrite(w) \/ BusyTimeout(w)
  BY <1>2, <1>4, <1>10 DEF Respond, Commit, LockWrite, BusyTimeout
<1> QED BY <1>5, <1>6, <1>7, <1>8, <1>9, <1>10 DEF Serve

LEMMA VerdictSoundStep ==
  ASSUME TypeOK, VerdictSound, [Next]_vars PROVE VerdictSound'
<1>1. CoverageStays BY CoverageStep
<1>2. ASSUME NEW v \in Workers, pc'[v] = pc[v], job'[v] = job[v]
      PROVE  (pc[v] = "insert" /\ job[v].verdict = "accepted" => Covered(Item(v).dev, Item(v).ts))'
  BY <1>1, <1>2 DEF VerdictSound, CoverageStays, Item
<1>3. ASSUME NEW w \in Workers, Start(w) \/ Serve(w),
             pc'[w] = "insert", job'[w].verdict = "accepted"
      PROVE  Covered(Item(w).dev, Item(w).ts)'
  <2>1. Classify(w) BY <1>3, BeforeWrites
  <2>2. job[w] \in IngestJobs /\ job[w].todo # <<>>
    BY <2>1 DEF TypeOK, JobOK, Classify, FixPCs, EndPCs
  <2>3. job'[w].verdict = Verdict(Item(w)) /\ job'[w].todo = job[w].todo
    BY <2>1, <2>2 DEF Classify, TypeOK, IngestJobs
  <2>4. Covered(Item(w).dev, Item(w).ts) BY <1>3, <2>2, <2>3, ItemType, AcceptedIsCovered
  <2> QED BY <1>1, <2>3, <2>4 DEF CoverageStays, Item
<1>4. CASE \E w \in Workers : Start(w) \/ Serve(w)
  BY <1>2, <1>3, <1>4, OthersStay DEF VerdictSound
<1>5. CASE Retire \/ AddCalibration \/ Tick \/ UNCHANGED vars
  BY <1>2, <1>5 DEF Retire, AddCalibration, Tick, vars, VerdictSound
<1>6. CASE Crash BY <1>6 DEF Crash, VerdictSound
<1> QED BY <1>4, <1>5, <1>6 DEF Next

LEMMA SeqAheadStep == ASSUME LogInv, SeqAhead, [Next]_vars PROVE SeqAhead'
<1>1. ASSUME NEW w \in Workers, Start(w) \/ Serve(w), pc'[w] = "fix_write"
      PROVE  (job[w].orig.seq < job[w].seq)'
  <2>1. FixReadSeq(w) BY <1>1, BeforeWrites DEF LogInv
  <2>2. job[w] \in FixJobs /\ pc[w] \in FixPCs
    BY <2>1 DEF LogInv, TypeOK, JobOK, FixReadSeq, IngestPCs, FixPCs, EndPCs
  <2>3. PICK n \in NextSeqs(rows, job[w].orig.dev) : job' = [job EXCEPT ![w].seq = n]
    BY <2>1 DEF FixReadSeq
  <2>4. PICK r \in rows : r.dev = job[w].orig.dev /\ r.seq = job[w].orig.seq
    BY <2>2 DEF LogInv, OrigStored, Table!Superseded, FixJobs, RowType
  <2>5. job[w].orig.seq < n BY <2>3, <2>4 DEF NextSeqs
  <2> QED BY <2>2, <2>3, <2>5 DEF LogInv, TypeOK, FixJobs
<1>2. CASE \E w \in Workers : Start(w) \/ Serve(w)
  BY <1>1, <1>2, OthersStay DEF SeqAhead, LogInv
<1>3. CASE Retire \/ AddCalibration \/ Tick \/ UNCHANGED vars
  BY <1>3 DEF Retire, AddCalibration, Tick, vars, SeqAhead
<1>4. CASE Crash BY <1>4 DEF Crash, SeqAhead
<1> QED BY <1>2, <1>3, <1>4 DEF Next
-----------------------------------------------------------------------------
(* The tables. *)

Good(t, lg) == SoundTable(t) /\ LinkedTable(t) /\ AuditedTable(t, lg)

EvidenceInv ==
  /\ LogInv
  /\ VerdictSound
  /\ SeqAhead
  /\ Good(rows, log)
  /\ Good(draft.rows, draft.log)

LEMMA InsertGood ==
  ASSUME EvidenceInv, NEW w \in Workers, Insert(w), writer' = w
  PROVE  Good(draft'.rows, draft'.log)
<1> DEFINE img == Image(w)
           r == NewRow(Item(w), job[w].verdict)
           o == job[w].org
<1>1. /\ img = draft \/ img = [rows |-> rows, log |-> log]
      /\ img.rows \in SUBSET RowType /\ img.log \in SUBSET EntryType
      /\ r \in RowType /\ Table!Fresh(r, img.rows)
      /\ o \in Orgs
  BY InsertWrites DEF EvidenceInv
<1>2. PICK n \in NextAuditSeqs(img.log, o) :
        draft' = [rows |-> img.rows \union {r}, log |-> img.log \union {Entry(n, o, r)}]
  BY InsertWrites DEF EvidenceInv
<1>3. pc[w] = "insert" BY DEF Insert
<1>4. job[w].verdict \in {"accepted", "quarantined"}
  BY <1>3 DEF EvidenceInv, LogInv, TypeOK, JobOK, FixPCs, EndPCs, IngestJobs
<1>5. /\ r.sup = NoSup /\ r.status = job[w].verdict
      /\ r.dev = Item(w).dev /\ r.ts = Item(w).ts
  BY DEF NewRow
<1>6. r.status # "quarantined" => Covered(r.dev, r.ts)
  BY <1>3, <1>4, <1>5 DEF EvidenceInv, VerdictSound
<1>11. OrgOf[r.dev] = o
  BY <1>3, <1>5 DEF EvidenceInv, LogInv, ItemChecked, IngestPCs
<1> HIDE DEF img, r, o
<1>7. Good(img.rows, img.log) BY <1>1 DEF EvidenceInv
<1>8. SoundTable(img.rows \union {r}) BY <1>6, <1>7 DEF Good, SoundTable
<1>9. LinkedTable(img.rows \union {r}) BY <1>1, <1>4, <1>5, <1>7, LinkOne DEF Good
<1>10. AuditedTable(img.rows \union {r}, img.log \union {Entry(n, o, r)})
  BY <1>1, <1>7, <1>11, AuditOne DEF Good
<1> QED BY <1>2, <1>8, <1>9, <1>10 DEF Good

LEMMA FixGood ==
  ASSUME EvidenceInv, NEW w \in Workers, FixWrite(w), writer' = w
  PROVE  Good(draft'.rows, draft'.log)
<1> DEFINE j == job[w]
           r == Correction(j)
           u == Flip(rows, j.orig)
<1>1. j \in FixJobs /\ r \in RowType /\ Table!Fresh(r, rows)
  BY FixWrites DEF EvidenceInv
<1>2. PICK n \in NextAuditSeqs(log, j.org) :
        draft' = [rows |-> u \union {r}, log |-> log \union {Entry(n, j.org, r)}]
  BY FixWrites DEF EvidenceInv
<1>3. pc[w] = "fix_write" BY DEF FixWrite
<1>4. j.orig.seq < j.seq BY <1>3 DEF EvidenceInv, SeqAhead
<1>5. /\ j.orig.status = "accepted"
      /\ \E s \in rows : s \in {j.orig, Table!Superseded(j.orig)}
      /\ j.org = OrgOf[j.orig.dev]
  BY <1>3 DEF EvidenceInv, LogInv, OrigStored, FixPCs
<1>6. rows \in SUBSET RowType /\ log \in SUBSET EntryType /\ Table!DistinctKeys(rows)
  BY DEF EvidenceInv, LogInv, TypeOK
<1>7. Good(rows, log) BY DEF EvidenceInv
<1>8. j.orig \in RowType /\ j.org \in Orgs BY <1>1 DEF FixJobs
<1>9. r.dev = j.orig.dev /\ r.ts = j.orig.ts BY DEF Correction
<1>10. PICK s \in rows : s \in {j.orig, Table!Superseded(j.orig)} BY <1>5
<1>11. /\ s.status # "quarantined" /\ s.dev = j.orig.dev /\ s.ts = j.orig.ts
       /\ Key(s) = Key(j.orig)
  BY <1>5, <1>8, <1>10 DEF Table!Superseded, RowType, Key, Table!Key
<1> HIDE DEF j, r
<1>12. Covered(r.dev, r.ts) BY <1>7, <1>9, <1>10, <1>11 DEF Good, SoundTable
<1>13. ASSUME NEW x \in u, x.status # "quarantined" PROVE Covered(x.dev, x.ts)
  <2>1. PICK q \in rows :
          x = IF Key(q) = Key(j.orig) THEN Table!Superseded(q) ELSE q
    BY DEF Flip, u
  <2>2. x.dev = q.dev /\ x.ts = q.ts BY <1>6, <2>1 DEF Table!Superseded, RowType
  <2>3. q.status # "quarantined"
    <3>1. CASE Key(q) = Key(j.orig)
      <4>1. q = s BY <1>6, <1>10, <1>11, <3>1 DEF Table!DistinctKeys, Key
      <4> QED BY <1>11, <4>1
    <3> QED BY <1>13, <2>1, <3>1
  <2> QED BY <1>7, <2>2, <2>3 DEF Good, SoundTable
<1>14. SoundTable(u \union {r}) BY <1>12, <1>13 DEF SoundTable
<1>15. LinkedTable(u \union {r})
  BY <1>1, <1>4, <1>5, <1>6, <1>7, LinkCorrection DEF Good, r, u
<1>16. u \in SUBSET RowType /\ {Key(x) : x \in u} = {Key(x) : x \in rows}
  BY <1>6, FlipType, FlipKeys DEF u
<1> HIDE DEF u
<1>17. AuditedTable(u \union {r}, log \union {Entry(n, j.org, r)})
  BY <1>1, <1>5, <1>6, <1>7, <1>8, <1>9, <1>16, AuditOne DEF Good
<1> QED BY <1>2, <1>14, <1>15, <1>17 DEF Good

LEMMA EvidenceStep == ASSUME EvidenceInv, [Next]_vars PROVE EvidenceInv'
<1>1. LogInv /\ TypeOK BY DEF EvidenceInv, LogInv
<1>2. LogInv' /\ VerdictSound' /\ SeqAhead'
  BY <1>1, LogInvStep, VerdictSoundStep, SeqAheadStep DEF EvidenceInv
<1>3. CoverageStays BY <1>1, CoverageStep
<1>4. ASSUME NEW t, NEW lg, Good(t, lg), rows' = t, log' = lg PROVE Good(rows, log)'
  BY <1>3, <1>4 DEF Good, SoundTable, LinkedTable, AuditedTable, CoverageStays, Key, Table!Key
<1>5. ASSUME NEW t, NEW lg, Good(t, lg), draft'.rows = t, draft'.log = lg
      PROVE  Good(draft.rows, draft.log)'
  BY <1>3, <1>5 DEF Good, SoundTable, LinkedTable, AuditedTable, CoverageStays, Key, Table!Key
<1>6. Good(rows, log)' BY <1>1, <1>4, CommittedStep DEF EvidenceInv
<1>7. Good({}, {}) BY DEF Good, SoundTable, LinkedTable, AuditedTable
<1>8. Good(draft'.rows, draft'.log)
  <2>1. CASE draft' = draft BY <2>1 DEF EvidenceInv
  <2>2. CASE draft' = NoDraft BY <1>7, <2>2 DEF NoDraft
  <2> QED BY <1>1, <2>1, <2>2, DraftStep, InsertGood, FixGood
<1>9. Good(draft.rows, draft.log)' BY <1>5, <1>8
<1> QED BY <1>2, <1>6, <1>9 DEF EvidenceInv

LEMMA EvidenceInit == Init => EvidenceInv
<1> SUFFICES ASSUME Init PROVE EvidenceInv OBVIOUS
<1>1. VerdictSound /\ SeqAhead BY DEF Init, VerdictSound, SeqAhead
<1>2. Good({}, {}) BY DEF Good, SoundTable, LinkedTable, AuditedTable
<1> QED BY <1>1, <1>2, LogInvInit DEF Init, NoDraft, EvidenceInv

(* What drafts and requests under way rest on holds in every reachable state. *)
THEOREM EvidenceInvariant == Spec => []EvidenceInv
BY EvidenceInit, EvidenceStep, PTL DEF Spec

(* Every reading that counts as evidence was taken under a calibration        *)
(* certificate of its device and not in the future, for corrections as for    *)
(* readings of the devices.                                                  *)
THEOREM Calibration == Spec => []QuarantineSound
<1>1. EvidenceInv => QuarantineSound
  BY DEF EvidenceInv, Good, SoundTable, Covered, QuarantineSound
<1> QED BY <1>1, EvidenceInvariant, PTL

(* Superseded readings and corrections point at each other. *)
THEOREM Corrected == Spec => []SupersedeLinks
<1>1. EvidenceInv => SupersedeLinks
  BY DEF EvidenceInv, Good, LinkedTable, SupersedeLinks, Corrections
<1> QED BY <1>1, EvidenceInvariant, PTL

(* The audit chain of each organization has an entry for each of its stored    *)
(* readings and no other, numbered without gaps, whatever other organizations  *)
(* and crashes do in between.                                                *)
THEOREM Audited == Spec => []AuditComplete
<1>1. EvidenceInv => AuditComplete
  BY DEF EvidenceInv, Good, AuditedTable, AuditComplete
<1> QED BY <1>1, EvidenceInvariant, PTL
-----------------------------------------------------------------------------
(* What the responses have said: readings reported as stored are stored, and   *)
(* are never refused as conflicts.                                           *)

(* All that is stored, or is in an open transaction. *)
Stored == rows \union (IF writer = NoWorker THEN {} ELSE draft.rows)

(* A transaction that is open found its item to be new in its own draft. *)
ItemNew ==
  \A w \in Workers : writer = w /\ pc[w] \in {"period", "classify", "insert"} =>
    \A r \in draft.rows : Key(r) # Key(Item(w))

(* What a response will report is in the tables its request sees. *)
DoneStored ==
  \A w \in Workers : pc[w] \in IngestPCs \union EndPCs =>
    \A m \in job[w].done : \E r \in Image(w).rows : Measurement(r) = m

AnswersOK ==
  /\ \A m \in acked : \E r \in Stored : Measurement(r) = m
  /\ \A m \in conflicted : \E r \in Stored : Key(r) = Key(m) /\ Measurement(r) # m

AnswersInv == LogInv /\ ItemNew /\ DoneStored /\ AnswersOK

(* Where a worker comes from. *)
LEMMA Before ==
  ASSUME TypeOK, NEW w \in Workers, Start(w) \/ Serve(w)
  PROVE  /\ pc'[w] = "period" => ReadDuplicate(w)
         /\ pc'[w] = "classify" => ReadPeriod(w)
         /\ pc'[w] = "fix_period" => StartSupersede(w)
         /\ pc'[w] = "fix_seq" => FixReadPeriod(w)
         /\ pc'[w] = "lock_write" => StartLock(w)
<1>1. pc \in [Workers -> Places] BY DEF TypeOK
<1>2. \A label : Goto(w, label) => pc'[w] = label BY <1>1 DEF Goto
<1>3. \A done : NextItem(w, done) => pc'[w] \in EndPCs \union {"device"}
  BY <1>1 DEF Goto, NextItem, EndPCs
<1>4. Abort(w) => pc'[w] = "idle" BY <1>1 DEF Abort
<1>5. CASE Start(w) BY <1>2, <1>5 DEF Start, StartIngest, StartSupersede, StartLock
<1>6. CASE ReadDevice(w) \/ ReadDuplicate(w) \/ ReadPeriod(w)
  BY <1>2, <1>3, <1>6 DEF ReadDevice, ReadDuplicate, ReadPeriod, EndPCs
<1>7. CASE Classify(w) BY <1>2, <1>7 DEF Classify
<1>8. CASE Insert(w) BY <1>3, <1>4, <1>8 DEF Insert, EndPCs
<1>9. CASE FixReadPeriod(w) \/ FixReadSeq(w) \/ FixWrite(w)
  BY <1>2, <1>4, <1>9 DEF FixReadPeriod, FixReadSeq, FixWrite
<1>10. CASE Respond(w) \/ Commit(w) \/ LockWrite(w) \/ BusyTimeout(w)
  BY <1>2, <1>4, <1>10 DEF Respond, Commit, LockWrite, BusyTimeout
<1> QED BY <1>5, <1>6, <1>7, <1>8, <1>9, <1>10 DEF Serve

(* The audit numbers of one organization never collide. *)
OneOrganization == \A o, p \in Orgs : o = p

LEMMA NoCollision ==
  ASSUME OneOrganization, NEW lg \in SUBSET EntryType, NEW o \in Orgs,
         NEW n \in NextAuditSeqs(lg, o)
  PROVE  ~ SeqTaken(lg, n)
<1>1. \A e \in lg : e.org = o /\ e.seq \in Nat BY DEF EntryType, OneOrganization
<1>2. \A e \in {f \in lg : f.org = o} : e.seq < n BY DEF NextAuditSeqs
<1>3. n \in Nat BY <1>1 DEF NextAuditSeqs
<1>4. \A e \in lg : e.seq < n BY <1>1, <1>2
<1> QED BY <1>1, <1>3, <1>4 DEF SeqTaken

(* Equal measurements are of the same device and number. *)
LEMMA MeasurementKey ==
  ASSUME NEW r, NEW s, Measurement(r) = Measurement(s)
  PROVE  Key(r) = Key(s)
<1>1. Measurement(r).dev = Measurement(s).dev /\ Measurement(r).seq = Measurement(s).seq OBVIOUS
<1> QED BY <1>1 DEF Measurement, Table!Measurement, Key, Table!Key

(* The committed tables lose no measurement. *)
Kept(t, u) == \A r \in t : \E s \in u : Measurement(s) = Measurement(r)

LEMMA LogKeeps ==
  ASSUME NEW t \in SUBSET RowType, NEW u \in SUBSET RowType,
         t = u \/ Table!Appends(t, u) \/ Table!CorrectsIn(t, u) \/ Table!CorrectsAgain(t, u)
  PROVE  Kept(t, u)
<1> SUFFICES ASSUME NEW r \in t PROVE \E s \in u : Measurement(s) = Measurement(r) BY DEF Kept
<1>1. CASE t = u BY <1>1
<1>2. CASE t # u
  <2>1. PICK s \in u : s \in {r, Table!Superseded(r)} BY <1>2, ReadingsStay
  <2>2. Measurement(Table!Superseded(r)) = Measurement(r) BY SupersededRow
  <2> QED BY <2>1, <2>2
<1> QED BY <1>1, <1>2

(* Writing an item in a transaction that is open already cannot fail. *)
LEMMA InsertGrows ==
  ASSUME LogInv, ItemNew, OneOrganization, NEW w \in Workers, Insert(w), writer = w
  PROVE  /\ writer' = w /\ draft.rows \subseteq draft'.rows
<1>1. pc[w] \in IngestPCs /\ pc[w] = "insert" BY DEF Insert, IngestPCs
<1>2. job[w] \in IngestJobs /\ job[w].todo # <<>>
  BY <1>1 DEF LogInv, TypeOK, JobOK, IngestPCs, FixPCs, EndPCs
<1>3. job[w].org \in Orgs BY <1>2 DEF IngestJobs
<1> DEFINE img == Image(w)
           r == NewRow(Item(w), job[w].verdict)
<1>4. img = draft BY DEF Image
<1>5. img \in [rows : SUBSET RowType, log : SUBSET EntryType] BY ImageType DEF LogInv
<1>6. Unique(r, img.rows)
  <2>1. Key(r) = Key(Item(w)) BY DEF NewRow, Key, Table!Key
  <2> QED BY <1>1, <1>4, <2>1 DEF ItemNew, Unique, Table!Fresh, Key
<1>7. \A n \in NextAuditSeqs(img.log, job[w].org) : ~ SeqTaken(img.log, n)
  <2>1. img.log \in SUBSET EntryType BY <1>5
  <2> QED BY <1>3, <2>1, NoCollision
<1>8. \E n \in NextAuditSeqs(img.log, job[w].org) :
        /\ draft' = [rows |-> img.rows \union {r}, log |-> img.log \union {Entry(n, job[w].org, r)}]
        /\ writer' = w
  BY <1>6, <1>7 DEF Insert
<1> HIDE DEF img, r
<1>9. writer' = w /\ draft'.rows = img.rows \union {r} BY <1>8
<1> QED BY <1>4, <1>9

(* An open transaction ends with its commit. *)
LEMMA WriterStep ==
  ASSUME LogInv, ItemNew, OneOrganization, "crash" \notin Faults, [Next]_vars
  PROVE  \/ rows' = rows /\ (writer = NoWorker \/ (writer' = writer /\ draft.rows \subseteq draft'.rows))
         \/ \E w \in Workers : writer = w /\ Commit(w) /\ rows' = draft.rows
<1> DEFINE Same == rows' = rows /\ (writer = NoWorker \/ (writer' = writer /\ draft.rows \subseteq draft'.rows))
<1>1. ASSUME NEW w \in Workers, Abort(w), writer # w PROVE UNCHANGED <<draft, writer>>
  BY <1>1 DEF Abort
<1>2. ASSUME NEW w \in Workers, Insert(w) PROVE Same
  <2>1. CASE writer = w BY <1>2, <2>1, InsertGrows DEF Insert
  <2>2. CASE writer # w BY <1>2, <2>2 DEF Insert
  <2> QED BY <2>1, <2>2
<1>3. ASSUME NEW w \in Workers, pc[w] \notin IngestPCs \union EndPCs PROVE writer # w
  BY <1>3 DEF LogInv, TypeOK
<1>4. ASSUME NEW w \in Workers, FixReadPeriod(w) PROVE Same
  <2>1. writer # w BY <1>3, <1>4 DEF FixReadPeriod, IngestPCs, EndPCs
  <2> QED BY <1>1, <1>4, <2>1 DEF FixReadPeriod
<1>5. ASSUME NEW w \in Workers, FixWrite(w) \/ LockWrite(w) PROVE Same
  BY <1>5 DEF FixWrite, LockWrite
<1>6. ASSUME NEW w \in Workers, BusyTimeout(w) PROVE Same
  BY <1>1, <1>6 DEF BusyTimeout
<1>7. ASSUME NEW w \in Workers, Commit(w), writer # w PROVE Same BY <1>1, <1>7 DEF Commit
<1>8. ASSUME NEW w \in Workers, Commit(w), writer = w PROVE rows' = draft.rows BY <1>8 DEF Commit
<1>9. ASSUME NEW w \in Workers,
             Start(w) \/ ReadDevice(w) \/ ReadDuplicate(w) \/ ReadPeriod(w) \/ Classify(w)
               \/ FixReadSeq(w) \/ Respond(w)
      PROVE  Same
  BY <1>9 DEF Start, StartIngest, StartSupersede, StartLock, ReadDevice, ReadDuplicate,
     ReadPeriod, Classify, FixReadSeq, Respond
<1>10. CASE Retire \/ AddCalibration \/ Tick \/ UNCHANGED vars
  BY <1>10 DEF Retire, AddCalibration, Tick, vars
<1>11. ~ Crash BY DEF Crash
<1> HIDE DEF Same
<1>12. ASSUME NEW w \in Workers, Start(w) \/ Serve(w)
       PROVE  Same \/ (writer = w /\ Commit(w) /\ rows' = draft.rows)
  BY <1>2, <1>4, <1>5, <1>6, <1>7, <1>8, <1>9, <1>12 DEF Serve
<1>13. CASE \E w \in Workers : Start(w) \/ Serve(w) BY <1>12, <1>13 DEF Same
<1> QED BY <1>10, <1>11, <1>13 DEF Next, Same

(* What is stored, or in an open transaction, stays there. *)
LEMMA StoredStays ==
  ASSUME LogInv, LogInv', ItemNew, OneOrganization, "crash" \notin Faults, [Next]_vars
  PROVE  Kept(Stored, Stored')
<1>1. CASE rows' = rows /\ (writer = NoWorker \/ (writer' = writer /\ draft.rows \subseteq draft'.rows))
  <2>1. Stored \subseteq Stored' BY <1>1 DEF Stored
  <2> QED BY <2>1 DEF Kept
<1>2. ASSUME NEW w \in Workers, writer = w, rows' = draft.rows PROVE Kept(Stored, Stored')
  <2>1. rows \in SUBSET RowType /\ draft.rows \in SUBSET RowType BY DEF LogInv, TypeOK
  <2>2. Kept(rows, draft.rows) BY <1>2, <2>1, LogKeeps DEF LogInv, DraftExtends
  <2>3. Stored = rows \union draft.rows BY <1>2, ConstantsAssumption DEF Stored
  <2>4. draft.rows \subseteq Stored' BY <1>2 DEF Stored
  <2> QED BY <2>2, <2>3, <2>4 DEF Kept
<1> QED BY <1>1, <1>2, WriterStep

(* So does what a request sees, until it ends. *)
LEMMA ImageStays ==
  ASSUME LogInv, LogInv', ItemNew, OneOrganization, "crash" \notin Faults, [Next]_vars,
         NEW v \in Workers, pc'[v] # "idle"
  PROVE  Kept(Image(v).rows, Image(v)'.rows)
<1>1. /\ rows \in SUBSET RowType /\ rows' \in SUBSET RowType
      /\ draft.rows \in SUBSET RowType /\ draft'.rows \in SUBSET RowType
      /\ pc \in [Workers -> Places]
  BY DEF LogInv, TypeOK
<1>2. CASE writer = v
  <2>1. ASSUME NEW w \in Workers, writer = w, Commit(w) PROVE FALSE
    BY <1>1, <1>2, <2>1 DEF Commit, Abort
  <2>2. writer # NoWorker BY <1>2, ConstantsAssumption
  <2>3. writer' = v /\ draft.rows \subseteq draft'.rows BY <1>2, <2>1, <2>2, WriterStep
  <2>4. Image(v).rows = draft.rows /\ Image(v)'.rows = draft'.rows BY <1>2, <2>3 DEF Image
  <2> QED BY <2>3, <2>4 DEF Kept
<1>3. CASE writer # v
  <2>1. Image(v).rows = rows BY <1>3 DEF Image
  <2>2. Kept(rows, rows') BY <1>1, LogKeeps, LogStep
  <2>3. CASE writer' = v
    <3>1. Image(v)'.rows = draft'.rows BY <2>3 DEF Image
    <3>2. \/ Table!Appends(rows, draft.rows)' \/ Table!CorrectsIn(rows, draft.rows)'
          \/ Table!CorrectsAgain(rows, draft.rows)'
      BY <2>3 DEF LogInv, DraftExtends
    <3>3. \/ Table!Appends(rows', draft'.rows) \/ Table!CorrectsIn(rows', draft'.rows)
          \/ Table!CorrectsAgain(rows', draft'.rows)
      BY <3>2 DEF Table!Appends, Table!CorrectsIn, Table!CorrectsAgain
    <3>4. Kept(rows', draft'.rows) BY <1>1, <3>3, LogKeeps
    <3> QED BY <2>1, <2>2, <3>1, <3>4 DEF Kept
  <2>4. CASE writer' # v
    <3>1. Image(v)'.rows = rows' BY <2>4 DEF Image
    <3> QED BY <2>1, <2>2, <3>1
  <2> QED BY <2>3, <2>4
<1> QED BY <1>2, <1>3

(* The open transaction of another worker is left alone. *)
LEMMA DraftOfOther ==
  ASSUME LogInv, NEW w \in Workers, Start(w) \/ Serve(w), NEW v \in Workers, v # w, writer' = v
  PROVE  writer = v /\ draft' = draft
BY DraftStays, ConstantsAssumption

LEMMA ItemNewStep ==
  ASSUME LogInv, ItemNew, "crash" \notin Faults, [Next]_vars
  PROVE  ItemNew'
<1> DEFINE New(v) == writer = v /\ pc[v] \in {"period", "classify", "insert"} =>
                       \A r \in draft.rows : Key(r) # Key(Item(v))
<1>1. ASSUME NEW w \in Workers, Start(w) \/ Serve(w), NEW v \in Workers, v # w PROVE New(v)'
  <2>1. pc'[v] = pc[v] /\ job'[v] = job[v] BY <1>1, OthersStay DEF LogInv
  <2>2. writer' = v => writer = v /\ draft' = draft BY <1>1, DraftOfOther
  <2> QED BY <2>1, <2>2 DEF ItemNew, Item
<1>2. ASSUME NEW w \in Workers, Start(w) \/ Serve(w) PROVE New(w)'
  <2> SUFFICES ASSUME writer' = w, pc'[w] \in {"period", "classify", "insert"}
               PROVE  \A r \in draft'.rows : Key(r) # Key(Item(w)')
    OBVIOUS
  <2>1. TypeOK BY DEF LogInv
  <2>2. CASE ReadDuplicate(w)
    <3>1. \A done : NextItem(w, done) => pc'[w] \in EndPCs \union {"device"}
      BY <2>1 DEF Goto, NextItem, EndPCs, TypeOK
    <3>2. {r \in Image(w).rows : Key(r) = Key(Item(w))} = {} /\ UNCHANGED <<job, draft, writer>>
      BY <2>2, <3>1 DEF ReadDuplicate, EndPCs
    <3>3. Image(w) = draft BY <3>2 DEF Image
    <3> QED BY <3>2, <3>3 DEF Item
  <2>3. CASE ReadPeriod(w)
    <3>1. \A done : NextItem(w, done) => pc'[w] \in EndPCs \union {"device"}
      BY <2>1 DEF Goto, NextItem, EndPCs, TypeOK
    <3>2. UNCHANGED <<job, draft, writer>> /\ pc[w] = "period" BY <2>3, <3>1 DEF ReadPeriod, EndPCs
    <3> QED BY <3>2 DEF ItemNew, Item
  <2>4. CASE Classify(w)
    <3>1. job[w] \in IngestJobs BY <2>1, <2>4 DEF TypeOK, JobOK, Classify, FixPCs, EndPCs
    <3>2. job'[w].todo = job[w].todo BY <2>1, <2>4, <3>1 DEF Classify, TypeOK, IngestJobs
    <3> QED BY <2>4, <3>2 DEF ItemNew, Item, Classify
  <2> QED BY <1>2, <2>1, <2>2, <2>3, <2>4, Before, BeforeWrites
<1>3. CASE \E w \in Workers : Start(w) \/ Serve(w) BY <1>1, <1>2, <1>3 DEF ItemNew
<1>4. CASE Retire \/ AddCalibration \/ Tick \/ UNCHANGED vars
  BY <1>4 DEF Retire, AddCalibration, Tick, vars, ItemNew, Item
<1>5. ~ Crash BY DEF Crash
<1> QED BY <1>3, <1>4, <1>5 DEF Next

(* What a step adds to the readings a response will report. *)
LEMMA DoneStep ==
  ASSUME LogInv, LogInv', OneOrganization, NEW w \in Workers, Start(w) \/ Serve(w),
         pc'[w] \in IngestPCs \union EndPCs, NEW m \in job'[w].done
  PROVE  \/ pc[w] \in IngestPCs \union EndPCs /\ m \in job[w].done
         \/ \E r \in Image(w).rows : Measurement(r) = m
         \/ \E r \in Image(w)'.rows : Measurement(r) = m
<1>1. TypeOK /\ pc \in [Workers -> Places] /\ job \in [Workers -> JobType] BY DEF LogInv, TypeOK
<1>2. \A label : Goto(w, label) => pc'[w] = label BY <1>1 DEF Goto
<1>3. ~ Abort(w) BY <1>1 DEF Abort, IngestPCs, EndPCs
<1>4. pc[w] \in IngestPCs => job[w] \in IngestJobs /\ job[w].todo # <<>>
  BY <1>1 DEF TypeOK, JobOK, IngestPCs, FixPCs, EndPCs
<1>5. \A done : NextItem(w, done) /\ job[w] \in IngestJobs => job'[w].done = done
  BY <1>1 DEF NextItem, IngestJobs
<1>6. CASE StartIngest(w)
  <2>1. PICK o \in Orgs, b \in Batches : job' = [job EXCEPT ![w] = IngestJob(o, b)]
    BY <1>6 DEF StartIngest
  <2>2. job'[w].done = {} BY <1>1, <2>1 DEF IngestJob
  <2> QED BY <2>2
<1>7. CASE StartSupersede(w) \/ StartLock(w)
  BY <1>2, <1>7 DEF StartSupersede, StartLock, IngestPCs, EndPCs
<1>8. CASE ReadDevice(w) \/ ReadPeriod(w)
  <2>1. pc[w] \in IngestPCs BY <1>8 DEF ReadDevice, ReadPeriod, IngestPCs
  <2> QED BY <1>4, <1>5, <1>8, <2>1 DEF ReadDevice, ReadPeriod
<1>9. CASE ReadDuplicate(w)
  <2>1. pc[w] \in IngestPCs BY <1>9 DEF ReadDuplicate, IngestPCs
  <2>2. Item(w) \in MessageType BY <1>4, <2>1, ItemType
  <2>3. ASSUME NEW r \in Image(w).rows, Key(r) = Key(Item(w)), SamePayload(r, Item(w))
        PROVE  Measurement(r) = Item(w)
    BY <2>2, <2>3 DEF Key, Table!Key, SamePayload, Measurement, Table!Measurement, MessageType
  <2> QED BY <1>4, <1>5, <1>9, <2>1, <2>3 DEF ReadDuplicate
<1>10. CASE Classify(w)
  <2>1. pc[w] \in IngestPCs BY <1>10 DEF Classify, IngestPCs
  <2>2. job'[w].done = job[w].done BY <1>1, <1>4, <1>10, <2>1 DEF Classify, IngestJobs
  <2> QED BY <2>1, <2>2
<1>11. CASE Insert(w)
  <2>1. pc[w] = "insert" /\ pc[w] \in IngestPCs BY <1>11 DEF Insert, IngestPCs
  <2>2. job[w].org \in Orgs /\ Item(w) \in MessageType BY <1>4, <2>1, ItemType DEF IngestJobs
  <2> DEFINE img == Image(w)
             r == NewRow(Item(w), job[w].verdict)
  <2>3. img \in [rows : SUBSET RowType, log : SUBSET EntryType] BY ImageType DEF LogInv
  <2>4. \A n \in NextAuditSeqs(img.log, job[w].org) : ~ SeqTaken(img.log, n)
    <3>1. img.log \in SUBSET EntryType BY <2>3
    <3> QED BY <2>2, <3>1, NoCollision
  <2>5. \E n \in NextAuditSeqs(img.log, job[w].org) :
          /\ draft' = [rows |-> img.rows \union {r}, log |-> img.log \union {Entry(n, job[w].org, r)}]
          /\ writer' = w
          /\ NextItem(w, job[w].done \union {Item(w)})
    BY <1>3, <1>11, <2>4 DEF Insert
  <2>6. Measurement(r) = Item(w)
    BY <2>2 DEF NewRow, Measurement, Table!Measurement, MessageType
  <2> HIDE DEF img, r
  <2>7. draft'.rows = img.rows \union {r} /\ writer' = w BY <2>5
  <2>8. r \in Image(w)'.rows BY <2>7 DEF Image
  <2>9. job'[w].done = job[w].done \union {Item(w)} BY <1>4, <1>5, <2>1, <2>5
  <2> QED BY <2>1, <2>6, <2>8, <2>9
<1>12. CASE FixReadPeriod(w) \/ FixReadSeq(w)
  BY <1>2, <1>3, <1>12 DEF FixReadPeriod, FixReadSeq, IngestPCs, EndPCs
<1>13. CASE FixWrite(w)
  <2> DEFINE r == Correction(job[w])
  <2>1. job[w] \in FixJobs
    BY <1>1, <1>13 DEF TypeOK, JobOK, FixWrite, IngestPCs, FixPCs, EndPCs
  <2>2. \E n \in NextAuditSeqs(log, job[w].org) :
          /\ draft' = [rows |-> Flip(rows, job[w].orig) \union {r},
                       log |-> log \union {Entry(n, job[w].org, r)}]
          /\ writer' = w
          /\ job' = [job EXCEPT ![w].done = {Measurement(r)}]
    BY <1>3, <1>13 DEF FixWrite
  <2> HIDE DEF r
  <2>3. r \in draft'.rows /\ writer' = w BY <2>2
  <2>4. job'[w].done = {Measurement(r)} BY <1>1, <2>1, <2>2 DEF FixJobs
  <2>5. r \in Image(w)'.rows BY <2>3 DEF Image
  <2> QED BY <2>4, <2>5
<1>14. CASE Respond(w) BY <1>14 DEF Respond, EndPCs
<1>15. CASE Commit(w) \/ LockWrite(w) \/ BusyTimeout(w)
  BY <1>3, <1>15 DEF Commit, LockWrite, BusyTimeout
<1> QED
  BY <1>6, <1>7, <1>8, <1>9, <1>10, <1>11, <1>12, <1>13, <1>14, <1>15 DEF Start, Serve

LEMMA DoneStoredStep ==
  ASSUME LogInv, LogInv', ItemNew, DoneStored, OneOrganization, "crash" \notin Faults, [Next]_vars
  PROVE  DoneStored'
<1> SUFFICES ASSUME NEW v \in Workers, pc'[v] \in IngestPCs \union EndPCs, NEW m \in job'[v].done
             PROVE  \E r \in Image(v)'.rows : Measurement(r) = m
  BY DEF DoneStored
<1>1. pc'[v] # "idle" BY DEF IngestPCs, EndPCs
<1>2. Kept(Image(v).rows, Image(v)'.rows) BY <1>1, ImageStays
<1>3. (\E r \in Image(v).rows : Measurement(r) = m) => \E r \in Image(v)'.rows : Measurement(r) = m
  BY <1>2 DEF Kept
<1>4. pc[v] \in IngestPCs \union EndPCs /\ m \in job[v].done =>
        \E r \in Image(v)'.rows : Measurement(r) = m
  BY <1>3 DEF DoneStored
<1>5. CASE Start(v) \/ Serve(v) BY <1>3, <1>4, <1>5, DoneStep
<1>6. ASSUME NEW w \in Workers, Start(w) \/ Serve(w), v # w
      PROVE  \E r \in Image(v)'.rows : Measurement(r) = m
  <2>1. pc'[v] = pc[v] /\ job'[v] = job[v] BY <1>6, OthersStay DEF LogInv
  <2> QED BY <1>4, <2>1
<1>7. CASE Retire \/ AddCalibration \/ Tick \/ UNCHANGED vars
  BY <1>4, <1>7 DEF Retire, AddCalibration, Tick, vars
<1>8. ~ Crash BY DEF Crash
<1> QED BY <1>5, <1>6, <1>7, <1>8 DEF Next

(* Two answers about one reading: stored, or in conflict with what is stored. *)
LEMMA AnswersStep ==
  ASSUME AnswersInv, LogInv', OneOrganization, "crash" \notin Faults, [Next]_vars
  PROVE  AnswersOK'
<1>1. Kept(Stored, Stored') BY StoredStays DEF AnswersInv
<1>2. \A w \in Workers : Image(w).rows \subseteq Stored
  BY ConstantsAssumption DEF Image, Stored
<1>3. ASSUME NEW m \in acked' PROVE \E r \in Stored : Measurement(r) = m
  <2>1. CASE m \in acked BY <2>1 DEF AnswersInv, AnswersOK
  <2>2. CASE m \notin acked
    <3>1. ~ (Retire \/ AddCalibration \/ Tick \/ Crash \/ UNCHANGED vars)
      BY <1>3, <2>2 DEF Retire, AddCalibration, Tick, Crash, vars
    <3>2. PICK w \in Workers : Start(w) \/ Serve(w) BY <3>1 DEF Next
    <3>3. ~ Start(w) BY <1>3, <2>2 DEF Start, StartIngest, StartSupersede, StartLock
    <3>4. Respond(w)
      BY <1>3, <2>2, <3>2, <3>3 DEF Serve, ReadDevice, ReadDuplicate, ReadPeriod, Classify, Insert,
         FixReadPeriod, FixReadSeq, FixWrite, Commit, LockWrite, BusyTimeout
    <3>5. m \in job[w].done /\ pc[w] \in EndPCs BY <1>3, <2>2, <3>4 DEF Respond, EndPCs
    <3>6. \E r \in Image(w).rows : Measurement(r) = m BY <3>5 DEF AnswersInv, DoneStored
    <3> QED BY <1>2, <3>6
  <2> QED BY <2>1, <2>2
<1>4. ASSUME NEW m \in conflicted' PROVE \E r \in Stored : Key(r) = Key(m) /\ Measurement(r) # m
  <2>1. CASE m \in conflicted BY <2>1 DEF AnswersInv, AnswersOK
  <2>2. CASE m \notin conflicted
    <3>1. ~ (Retire \/ AddCalibration \/ Tick \/ Crash \/ UNCHANGED vars)
      BY <1>4, <2>2 DEF Retire, AddCalibration, Tick, Crash, vars
    <3>2. PICK w \in Workers : Start(w) \/ Serve(w) BY <3>1 DEF Next
    <3>3. ~ Start(w) BY <1>4, <2>2 DEF Start, StartIngest, StartSupersede, StartLock
    <3>4. ReadDuplicate(w)
      BY <1>4, <2>2, <3>2, <3>3 DEF Serve, ReadDevice, ReadPeriod, Classify, Insert,
         FixReadPeriod, FixReadSeq, FixWrite, Respond, Commit, LockWrite, BusyTimeout
    <3>5. PICK r \in Image(w).rows : Key(r) = Key(m) /\ ~ SamePayload(r, m)
      BY <1>4, <2>2, <3>4 DEF ReadDuplicate
    <3>6. Measurement(r).ts = r.ts /\ Measurement(r).temp = r.temp
      BY DEF Measurement, Table!Measurement
    <3>7. Measurement(r) # m BY <3>5, <3>6 DEF SamePayload
    <3> QED BY <1>2, <3>5, <3>7
  <2> QED BY <2>1, <2>2
<1>5. \A m \in acked' : \E r \in Stored' : Measurement(r) = m BY <1>1, <1>3 DEF Kept
<1>6. ASSUME NEW m \in conflicted' PROVE \E r \in Stored' : Key(r) = Key(m) /\ Measurement(r) # m
  <2>1. PICK r \in Stored : Key(r) = Key(m) /\ Measurement(r) # m BY <1>4
  <2>2. PICK s \in Stored' : Measurement(s) = Measurement(r) BY <1>1 DEF Kept
  <2>3. Key(s) = Key(r) BY <2>2, MeasurementKey
  <2> QED BY <2>1, <2>2, <2>3
<1> QED BY <1>5, <1>6 DEF AnswersOK, Measurement, Table!Measurement, Key, Table!Key

LEMMA AnswersInvariant ==
  ASSUME OneOrganization, "crash" \notin Faults
  PROVE  Spec => []AnswersInv
<1>1. Init => AnswersInv
  <2> SUFFICES ASSUME Init PROVE AnswersInv OBVIOUS
  <2>1. LogInv BY LogInvInit
  <2>2. ItemNew /\ DoneStored /\ AnswersOK
    BY ConstantsAssumption DEF Init, ItemNew, DoneStored, AnswersOK, IngestPCs, EndPCs
  <2> QED BY <2>1, <2>2 DEF AnswersInv
<1>2. AnswersInv /\ [Next]_vars => AnswersInv'
  <2> SUFFICES ASSUME AnswersInv, [Next]_vars PROVE AnswersInv' OBVIOUS
  <2>1. LogInv' BY LogInvStep DEF AnswersInv
  <2>2. ItemNew' BY ItemNewStep DEF AnswersInv
  <2>3. DoneStored' BY <2>1, DoneStoredStep DEF AnswersInv
  <2>4. AnswersOK' BY <2>1, AnswersStep
  <2> QED BY <2>1, <2>2, <2>3, <2>4 DEF AnswersInv
<1> QED BY <1>1, <1>2, PTL DEF Spec

(* In a service of one organization that does not crash, what a response       *)
(* reports as stored is stored, or about to be committed.                    *)
THEOREM Acknowledged ==
  ASSUME OneOrganization, "crash" \notin Faults
  PROVE  Spec => []AckedIsStored
<1>1. AnswersInv => AckedIsStored
  BY ConstantsAssumption DEF AnswersInv, AnswersOK, AckedIsStored, Stored
<1> QED BY <1>1, AnswersInvariant, PTL

(* Nor is a reading reported as stored ever refused as a conflict. *)
THEOREM Answered ==
  ASSUME OneOrganization, "crash" \notin Faults
  PROVE  Spec => []OneAnswer
<1>1. ASSUME AnswersInv PROVE OneAnswer
  <2>1. /\ rows \in SUBSET RowType /\ draft.rows \in SUBSET RowType
        /\ Table!DistinctKeys(rows) /\ writer \in Workers \union {NoWorker}
    BY <1>1 DEF AnswersInv, LogInv, TypeOK
  <2>2. writer # NoWorker => Kept(rows, draft.rows) /\ Table!DistinctKeys(draft.rows)
    BY <1>1, <2>1, LogKeeps, KeysStayDistinct DEF AnswersInv, LogInv, DraftExtends
  <2>3. ASSUME NEW r \in Stored, NEW s \in Stored, Key(r) = Key(s)
        PROVE  Measurement(r) = Measurement(s)
    <3>1. CASE writer = NoWorker BY <2>1, <2>3, <3>1 DEF Stored, Table!DistinctKeys, Key
    <3>2. CASE writer # NoWorker
      <4>1. PICK x \in draft.rows : Measurement(x) = Measurement(r)
        BY <2>2, <3>2 DEF Stored, Kept
      <4>2. PICK y \in draft.rows : Measurement(y) = Measurement(s)
        BY <2>2, <3>2 DEF Stored, Kept
      <4>3. Key(x) = Key(y) BY <2>3, <4>1, <4>2, MeasurementKey
      <4> QED BY <2>2, <3>2, <4>1, <4>2, <4>3 DEF Table!DistinctKeys, Key
    <3> QED BY <3>1, <3>2
  <2>4. ASSUME NEW m \in acked, m \in conflicted PROVE FALSE
    <3>1. PICK r \in Stored : Measurement(r) = m BY <1>1, <2>4 DEF AnswersInv, AnswersOK
    <3>2. PICK s \in Stored : Key(s) = Key(m) /\ Measurement(s) # m
      BY <1>1, <2>4 DEF AnswersInv, AnswersOK
    <3>3. Key(m) = Key(r) BY <3>1 DEF Measurement, Table!Measurement, Key, Table!Key
    <3> QED BY <2>3, <3>1, <3>2, <3>3
  <2> QED BY <2>4 DEF OneAnswer
<1> QED BY <1>1, AnswersInvariant, PTL

-----------------------------------------------------------------------------
(* Requests that do not overlap: one worker. *)

OnceTable(t) ==
  \A r, s \in t : r.sup # NoSup /\ s.sup # NoSup /\ r.dev = s.dev /\ r.sup = s.sup => r = s

(* With one worker nothing comes between what a request reads and its writing: *)
(* the reading to correct is as it was, the month is open, the hash current.   *)
Unchanged(w) ==
  /\ pc[w] = "idle" => writer # w
  /\ pc[w] \in FixPCs => job[w].orig \in rows
  /\ pc[w] \in {"classify", "insert"} => ~ Locked(job[w].org, Item(w).ts)
  /\ pc[w] \in {"fix_seq", "fix_write"} => ~ Locked(job[w].org, job[w].orig.ts)
  /\ pc[w] = "lock_write" => job[w].snap = PeriodRows(rows, job[w].org, job[w].period)

FrozenTable(t) == \A l \in locks : PeriodRows(t, l.org, l.period) = l.snap

AloneInv(w) ==
  /\ EvidenceInv
  /\ Unchanged(w)
  /\ OnceTable(rows) /\ (writer = w => OnceTable(draft.rows))
  /\ FrozenTable(rows) /\ (writer = w => FrozenTable(draft.rows))

LEMMA UnchangedStep ==
  ASSUME NEW w, Workers = {w}, LogInv, Unchanged(w), [Next]_vars
  PROVE  Unchanged(w)'
<1>1. TypeOK /\ w \in Workers /\ w # NoWorker /\ pc \in [Workers -> Places] /\ job \in [Workers -> JobType]
  BY ConstantsAssumption DEF LogInv, TypeOK
<1>2. \A label : Goto(w, label) => pc'[w] = label BY <1>1 DEF Goto
<1>3. \A done : NextItem(w, done) => pc'[w] \in EndPCs \union {"device"}
  BY <1>1 DEF Goto, NextItem, EndPCs
<1>4. Abort(w) => pc'[w] = "idle" /\ writer' # w BY <1>1 DEF Abort
<1>5. CASE Start(w) \/ Serve(w)
  <2>1. pc'[w] = "idle" => writer' # w
    <3>1. CASE Start(w) BY <1>2, <3>1 DEF Start, StartIngest, StartSupersede, StartLock
    <3>2. CASE ReadDevice(w) \/ ReadDuplicate(w) \/ ReadPeriod(w) \/ Classify(w)
      BY <1>2, <1>3, <3>2 DEF ReadDevice, ReadDuplicate, ReadPeriod, Classify, EndPCs
    <3>3. CASE Insert(w) BY <1>3, <1>4, <3>3 DEF Insert, EndPCs
    <3>4. CASE FixReadPeriod(w) \/ FixReadSeq(w) \/ FixWrite(w)
      BY <1>2, <1>4, <3>4 DEF FixReadPeriod, FixReadSeq, FixWrite
    <3>5. CASE Respond(w) \/ Commit(w) \/ LockWrite(w) \/ BusyTimeout(w)
      BY <1>2, <1>4, <3>5 DEF Respond, Commit, LockWrite, BusyTimeout
    <3> QED BY <1>5, <3>1, <3>2, <3>3, <3>4, <3>5 DEF Serve
  <2>2. pc'[w] = "fix_period" => job'[w].orig \in rows'
    <3> SUFFICES ASSUME pc'[w] = "fix_period" PROVE job'[w].orig \in rows' OBVIOUS
    <3>1. StartSupersede(w) BY <1>1, <1>5, Before
    <3>2. PICK orig \in rows, t \in FixTemps : job' = [job EXCEPT ![w] = FixJob(orig, t)]
      BY <3>1 DEF StartSupersede
    <3>3. job'[w].orig = orig BY <1>1, <3>2 DEF FixJob
    <3> QED BY <3>1, <3>3 DEF StartSupersede
  <2>3. pc'[w] = "fix_seq" => job'[w].orig \in rows' /\ ~ Locked(job[w].org, job[w].orig.ts)'
    <3> SUFFICES ASSUME pc'[w] = "fix_seq"
                 PROVE  job'[w].orig \in rows' /\ ~ Locked(job[w].org, job[w].orig.ts)'
      OBVIOUS
    <3>1. FixReadPeriod(w) BY <1>1, <1>5, Before
    <3>2. /\ ~ Locked(job[w].org, job[w].orig.ts) /\ pc[w] = "fix_period"
          /\ UNCHANGED <<job, rows, locks>>
      BY <1>4, <3>1 DEF FixReadPeriod, tables
    <3> QED BY <3>2 DEF Unchanged, FixPCs, Locked
  <2>4. pc'[w] = "fix_write" => job'[w].orig \in rows' /\ ~ Locked(job[w].org, job[w].orig.ts)'
    <3> SUFFICES ASSUME pc'[w] = "fix_write"
                 PROVE  job'[w].orig \in rows' /\ ~ Locked(job[w].org, job[w].orig.ts)'
      OBVIOUS
    <3>1. FixReadSeq(w) BY <1>1, <1>5, BeforeWrites
    <3>2. job[w] \in FixJobs
      BY <1>1, <3>1 DEF TypeOK, JobOK, FixReadSeq, IngestPCs, FixPCs, EndPCs
    <3>3. job'[w].orig = job[w].orig /\ job'[w].org = job[w].org
      BY <1>1, <3>1, <3>2 DEF FixReadSeq, FixJobs
    <3>4. pc[w] = "fix_seq" /\ UNCHANGED <<rows, locks>> BY <3>1 DEF FixReadSeq, tables
    <3> QED BY <3>3, <3>4 DEF Unchanged, FixPCs, Locked
  <2>5. pc'[w] = "classify" => ~ Locked(job[w].org, Item(w).ts)'
    <3> SUFFICES ASSUME pc'[w] = "classify" PROVE ~ Locked(job[w].org, Item(w).ts)' OBVIOUS
    <3>1. ReadPeriod(w) BY <1>1, <1>5, Before
    <3>2. ~ Locked(job[w].org, Item(w).ts) /\ UNCHANGED <<job, locks>>
      BY <1>3, <3>1 DEF ReadPeriod, tables, EndPCs
    <3> QED BY <3>2 DEF Locked, Item
  <2>6. pc'[w] = "insert" => ~ Locked(job[w].org, Item(w).ts)'
    <3> SUFFICES ASSUME pc'[w] = "insert" PROVE ~ Locked(job[w].org, Item(w).ts)' OBVIOUS
    <3>1. Classify(w) BY <1>1, <1>5, BeforeWrites
    <3>2. job[w] \in IngestJobs BY <1>1, <3>1 DEF TypeOK, JobOK, Classify, FixPCs, EndPCs
    <3>3. job'[w].todo = job[w].todo /\ job'[w].org = job[w].org
      BY <1>1, <3>1, <3>2 DEF Classify, IngestJobs
    <3>4. pc[w] = "classify" /\ UNCHANGED locks BY <3>1 DEF Classify, tables
    <3> QED BY <3>3, <3>4 DEF Unchanged, Locked, Item
  <2>7. pc'[w] = "lock_write" => job'[w].snap = PeriodRows(rows, job[w].org, job[w].period)'
    <3> SUFFICES ASSUME pc'[w] = "lock_write"
                 PROVE  job'[w].snap = PeriodRows(rows, job[w].org, job[w].period)'
      OBVIOUS
    <3>1. StartLock(w) BY <1>1, <1>5, Before
    <3>2. PICK op \in LockPeriods : job' = [job EXCEPT ![w] = LockJob(op[1], op[2])]
      BY <3>1 DEF StartLock
    <3>3. /\ job'[w].org = op[1] /\ job'[w].period = op[2]
          /\ job'[w].snap = PeriodRows(rows, op[1], op[2])
      BY <1>1, <3>2 DEF LockJob
    <3> QED BY <3>1, <3>3 DEF StartLock, PeriodRows
  <2> QED BY <2>1, <2>2, <2>3, <2>4, <2>5, <2>6, <2>7 DEF Unchanged, FixPCs
<1>6. CASE Retire \/ AddCalibration \/ Tick \/ UNCHANGED vars
  <2>1. UNCHANGED <<rows, locks, writer, pc, job>>
    BY <1>6 DEF Retire, AddCalibration, Tick, vars, tables
  <2> QED BY <2>1 DEF Unchanged, Locked, Item, PeriodRows
<1>7. CASE Crash BY <1>1, <1>7 DEF Crash, Unchanged, FixPCs
<1> QED BY <1>5, <1>6, <1>7 DEF Next

(* A new row that is no correction, and a row outside of every locked month. *)
LEMMA OnceOne ==
  ASSUME NEW t \in SUBSET RowType, OnceTable(t), NEW r, r.sup = NoSup
  PROVE  OnceTable(t \union {r})
BY DEF OnceTable

LEMMA FrozenOne ==
  ASSUME NEW t \in SUBSET RowType, FrozenTable(t), NEW r, ~ Locked(OrgOf[r.dev], r.ts)
  PROVE  FrozenTable(t \union {r})
<1> SUFFICES ASSUME NEW l \in locks PROVE PeriodRows(t \union {r}, l.org, l.period) = l.snap
  BY DEF FrozenTable
<1>1. ~ (OrgOf[r.dev] = l.org /\ Period(r.ts) = l.period) BY DEF Locked
<1>2. PeriodRows(t \union {r}, l.org, l.period) = PeriodRows(t, l.org, l.period)
  BY <1>1 DEF PeriodRows
<1> QED BY <1>2 DEF FrozenTable

(* Superseding a reading changes no measurement. *)
LEMMA FlipRow ==
  ASSUME NEW t \in SUBSET RowType, NEW orig
  PROVE  /\ \A s \in Flip(t, orig) : \E r \in t :
              s.dev = r.dev /\ s.seq = r.seq /\ s.ts = r.ts /\ s.sup = r.sup
              /\ Measurement(s) = Measurement(r)
              /\ s = (IF Key(r) = Key(orig) THEN Table!Superseded(r) ELSE r)
         /\ \A r \in t : \E s \in Flip(t, orig) :
              s.dev = r.dev /\ s.ts = r.ts /\ Measurement(s) = Measurement(r)
<1>1. ASSUME NEW r \in t
      PROVE  LET s == IF Key(r) = Key(orig) THEN Table!Superseded(r) ELSE r
             IN  /\ s.dev = r.dev /\ s.seq = r.seq /\ s.ts = r.ts /\ s.sup = r.sup
                 /\ Measurement(s) = Measurement(r)
  BY SupersededRow DEF Table!Superseded, RowType
<1> QED BY <1>1 DEF Flip

LEMMA FlipFrozen ==
  ASSUME NEW t \in SUBSET RowType, NEW orig, NEW o, NEW p
  PROVE  PeriodRows(Flip(t, orig), o, p) = PeriodRows(t, o, p)
<1>1. ASSUME NEW m \in PeriodRows(Flip(t, orig), o, p) PROVE m \in PeriodRows(t, o, p)
  BY FlipRow DEF PeriodRows
<1>2. ASSUME NEW m \in PeriodRows(t, o, p) PROVE m \in PeriodRows(Flip(t, orig), o, p)
  BY FlipRow DEF PeriodRows
<1> QED BY <1>1, <1>2

(* The correction of a reading that nothing corrects yet. *)
LEMMA OnceCorrection ==
  ASSUME NEW t \in SUBSET RowType, OnceTable(t), LinkedTable(t), NEW j \in FixJobs,
         j.orig \in t, j.orig.status = "accepted"
  PROVE  OnceTable(Flip(t, j.orig) \union {Correction(j)})
<1> DEFINE new == Correction(j)
           u == Flip(t, j.orig)
<1>1. new.dev = j.orig.dev /\ new.sup = j.orig.seq BY DEF Correction
<1>2. \A s \in t : ~ (s.dev = j.orig.dev /\ s.sup = j.orig.seq) BY DEF LinkedTable
<1>3. \A s \in u : ~ (s.dev = new.dev /\ s.sup = new.sup) BY <1>1, <1>2, FlipRow
<1>4. ASSUME NEW r \in u, NEW s \in u, r.sup # NoSup, s.sup # NoSup, r.dev = s.dev, r.sup = s.sup
      PROVE  r = s
  <2>1. PICK x \in t : r.dev = x.dev /\ r.sup = x.sup
                       /\ r = (IF Key(x) = Key(j.orig) THEN Table!Superseded(x) ELSE x)
    BY FlipRow
  <2>2. PICK y \in t : s.dev = y.dev /\ s.sup = y.sup
                       /\ s = (IF Key(y) = Key(j.orig) THEN Table!Superseded(y) ELSE y)
    BY FlipRow
  <2>3. x = y BY <1>4, <2>1, <2>2 DEF OnceTable
  <2> QED BY <2>1, <2>2, <2>3
<1> HIDE DEF new, u
<1>5. OnceTable(u \union {new}) BY <1>3, <1>4 DEF OnceTable
<1> QED BY <1>5 DEF u, new

LEMMA AloneStep ==
  ASSUME NEW w, Workers = {w}, AloneInv(w), [Next]_vars
  PROVE  AloneInv(w)'
<1>1. /\ EvidenceInv /\ LogInv /\ TypeOK /\ w \in Workers /\ w # NoWorker /\ Unchanged(w)
      /\ OnceTable(rows) /\ FrozenTable(rows)
      /\ rows \in SUBSET RowType /\ draft.rows \in SUBSET RowType
  BY ConstantsAssumption DEF AloneInv, EvidenceInv, LogInv, TypeOK
<1>2. EvidenceInv' BY <1>1, EvidenceStep
<1>3. Unchanged(w)' BY <1>1, UnchangedStep
<1> DEFINE Fine(t) == OnceTable(t) /\ FrozenTable(t)
<1>4. ASSUME UNCHANGED locks, NEW t, Fine(t) PROVE OnceTable(t) /\ \A l \in locks' : PeriodRows(t, l.org, l.period) = l.snap
  BY <1>4 DEF FrozenTable
<1>5. ASSUME Insert(w), writer' = w PROVE Fine(draft'.rows)
  <2> DEFINE img == Image(w)
             r == NewRow(Item(w), job[w].verdict)
  <2>1. /\ (img = draft /\ writer = w) \/ img = [rows |-> rows, log |-> log]
        /\ img.rows \in SUBSET RowType
    <3>1. img.rows \in SUBSET RowType BY <1>1, <1>5, InsertWrites
    <3> QED BY <3>1 DEF Image
  <2>2. draft'.rows = img.rows \union {r} BY <1>1, <1>5, InsertWrites
  <2>3. r.sup = NoSup /\ r.dev = Item(w).dev /\ r.ts = Item(w).ts BY DEF NewRow
  <2>4. pc[w] = "insert" /\ pc[w] \in IngestPCs \ {"device"} BY <1>5 DEF Insert, IngestPCs
  <2>5. ~ Locked(OrgOf[r.dev], r.ts) BY <1>1, <2>3, <2>4 DEF LogInv, ItemChecked, Unchanged
  <2>6. Fine(img.rows) BY <1>1, <2>1 DEF AloneInv
  <2> HIDE DEF img, r
  <2> QED BY <2>1, <2>2, <2>3, <2>5, <2>6, OnceOne, FrozenOne
<1>6. ASSUME FixWrite(w), writer' = w PROVE Fine(draft'.rows)
  <2> DEFINE orig == job[w].orig
             r == Correction(job[w])
             t == Flip(rows, orig)
  <2>1. job[w] \in FixJobs /\ draft'.rows = t \union {r} BY <1>1, <1>6, FixWrites
  <2>2. pc[w] = "fix_write" /\ pc[w] \in FixPCs BY <1>6 DEF FixWrite, FixPCs
  <2>3. /\ orig \in rows /\ orig.status = "accepted" /\ job[w].org = OrgOf[orig.dev]
        /\ ~ Locked(job[w].org, orig.ts)
    BY <1>1, <2>2 DEF LogInv, OrigStored, Unchanged
  <2>4. OnceTable(t \union {r}) BY <1>1, <2>1, <2>3, OnceCorrection DEF EvidenceInv, Good
  <2>5. FrozenTable(t) BY <1>1, FlipFrozen DEF FrozenTable
  <2>6. t \in SUBSET RowType BY <1>1, <2>3, FlipType
  <2>7. ~ Locked(OrgOf[r.dev], r.ts) BY <2>3 DEF Correction
  <2> HIDE DEF t, r
  <2> QED BY <2>1, <2>4, <2>5, <2>6, <2>7, FrozenOne
<1>7. CASE Start(w) \/ Serve(w)
  <2>1. CASE LockWrite(w)
    <3>1. writer' # w /\ rows' = rows BY <1>1, <2>1 DEF LockWrite, Abort
    <3>2. job[w].snap = PeriodRows(rows, job[w].org, job[w].period)
      BY <1>1, <2>1 DEF LockWrite, Unchanged
    <3>3. \A l \in locks' : l \in locks \/ l = [org |-> job[w].org, period |-> job[w].period, snap |-> job[w].snap]
      BY <2>1 DEF LockWrite
    <3>4. \A l \in locks' : PeriodRows(rows, l.org, l.period) = l.snap
      BY <1>1, <3>2, <3>3 DEF FrozenTable
    <3>5. FrozenTable(rows)' BY <3>1, <3>4 DEF FrozenTable, PeriodRows
    <3>6. OnceTable(rows)' BY <1>1, <3>1 DEF OnceTable
    <3> QED BY <1>2, <1>3, <3>1, <3>5, <3>6 DEF AloneInv
  <2>2. CASE ~ LockWrite(w)
    <3>1. UNCHANGED locks
      BY <1>7, <2>2 DEF Start, Serve, StartIngest, StartSupersede, StartLock, ReadDevice,
         ReadDuplicate, ReadPeriod, Classify, Insert, FixReadPeriod, FixReadSeq, FixWrite,
         Respond, Commit, BusyTimeout, tables
    <3>2. Fine(rows')
      <4>1. CASE Commit(w) /\ writer = w BY <1>1, <4>1 DEF Commit, AloneInv
      <4>2. CASE ~ (Commit(w) /\ writer = w)
        <5>1. rows' = rows
          BY <1>7, <4>2 DEF Start, Serve, StartIngest, StartSupersede, StartLock, ReadDevice,
             ReadDuplicate, ReadPeriod, Classify, Insert, FixReadPeriod, FixReadSeq, FixWrite,
             Respond, Commit, LockWrite, BusyTimeout
        <5> QED BY <1>1, <5>1
      <4> QED BY <4>1, <4>2
    <3>3. writer' = w => Fine(draft'.rows)
      <4> SUFFICES ASSUME writer' = w PROVE Fine(draft'.rows) OBVIOUS
      <4>1. CASE UNCHANGED <<rows, draft, writer>> BY <4>1 DEF AloneInv
      <4> QED BY <1>1, <1>5, <1>6, <1>7, <4>1, DraftStays
    <3> HIDE DEF Fine
    <3>4. OnceTable(rows)' /\ FrozenTable(rows)'
      BY <1>4, <3>1, <3>2 DEF Fine, OnceTable, FrozenTable, PeriodRows
    <3>5. writer' = w => OnceTable(draft.rows)' /\ FrozenTable(draft.rows)'
      BY <1>4, <3>1, <3>3 DEF Fine, OnceTable, FrozenTable, PeriodRows
    <3> QED BY <1>2, <1>3, <3>4, <3>5 DEF AloneInv
  <2> QED BY <2>1, <2>2
<1>8. CASE Retire \/ AddCalibration \/ Tick \/ UNCHANGED vars
  <2>1. UNCHANGED <<rows, locks, writer, draft>>
    BY <1>8 DEF Retire, AddCalibration, Tick, vars, tables
  <2> QED BY <1>2, <1>3, <2>1 DEF AloneInv, OnceTable, FrozenTable, PeriodRows
<1>9. CASE Crash
  <2>1. UNCHANGED <<rows, locks>> /\ writer' # w BY <1>1, <1>9 DEF Crash, tables
  <2> QED BY <1>2, <1>3, <2>1 DEF AloneInv, OnceTable, FrozenTable, PeriodRows
<1> QED BY <1>7, <1>8, <1>9 DEF Next

LEMMA AloneInvariant ==
  ASSUME NEW worker, Workers = {worker}
  PROVE  Spec => []AloneInv(worker)
<1>1. Init => AloneInv(worker)
  <2> SUFFICES ASSUME Init PROVE AloneInv(worker) OBVIOUS
  <2>1. EvidenceInv BY EvidenceInit
  <2>2. worker \in Workers /\ worker # NoWorker BY ConstantsAssumption
  <2> QED BY <2>1, <2>2 DEF Init, AloneInv, Unchanged, OnceTable, FrozenTable, FixPCs
<1>2. AloneInv(worker) /\ [Next]_vars => AloneInv(worker)' BY AloneStep
<1> QED BY <1>1, <1>2, PTL DEF Spec

(* Where one worker serves all requests, a reading is corrected at most once. *)
THEOREM CorrectedOnce ==
  ASSUME NEW worker, Workers = {worker}
  PROVE  Spec => []SupersededOnce
<1>1. AloneInv(worker) => SupersededOnce
  BY DEF AloneInv, OnceTable, SupersededOnce, Corrections
<1> QED BY <1>1, AloneInvariant, PTL

(* Where one worker serves all requests, a locked month is frozen, whatever    *)
(* crashes: its readings are those the lock has hashed.                      *)
THEOREM Frozen ==
  ASSUME NEW worker, Workers = {worker}
  PROVE  Spec => []LockedFrozen
<1>1. AloneInv(worker) => LockedFrozen BY DEF AloneInv, FrozenTable, LockedFrozen
<1> QED BY <1>1, AloneInvariant, PTL

=============================================================================
