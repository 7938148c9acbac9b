------------------------------ MODULE Certificate ------------------------------
(***************************************************************************)
(* Certificates of shipments and the signatures on them.  A certificate is   *)
(* built by several SELECTs of one session, while readings, corrections and  *)
(* completions are committed by others: the shipment, the readings in its    *)
(* window, the readings again for the statistics (rows loaded before keep    *)
(* the status they had), the excursions.  An approval builds the certificate *)
(* once more and signs the hash of what it finds.                            *)
(*                                                                         *)
(* A statement's hash stands for the statement.  Of the temperatures the      *)
(* statement holds the counts, from which MKT, minimum and maximum follow;    *)
(* the MKT itself, floating point in the code, is an uninterpreted operator  *)
(* on the counts.  Calibration gaps are left out: an accepted reading is     *)
(* covered by a calibration (QuarantineSound in Ingest) and calibrations are *)
(* never removed, so there are none.                                        *)
(***************************************************************************)
EXTENDS Excursions

CONSTANTS
  Workers,
  Builders,       \* those that may serve certificates and approvals
  Closers,        \* those that may serve the completion of a shipment
  Started,        \* started_at_ms of each shipment
  Ends,           \* ended_at_ms that a completion may ask for, 0 for "now"
  Covered,        \* readings covered by a calibration of their device
  Skew,           \* MAX_FUTURE_SKEW_MS, ingest.py
  Mkt(_),         \* compute_mkt_mc, of the counts of the temperatures
  MktLimit,       \* mkt_limit_mc of the shipments whose profile sets one
  MaxNow,         \* bound on the clock
  MaxBuilds       \* bound on the certificates built

ASSUME CertificateAssumption ==
  /\ Builders \subseteq Workers /\ Closers \subseteq Workers
  /\ Started \in [Ships -> Nat]
  /\ Ends \subseteq Nat
  /\ Covered \subseteq Readings
  /\ DOMAIN MktLimit \subseteq Ships /\ MktLimit \in [DOMAIN MktLimit -> Int]
  /\ Skew \in Nat /\ MaxNow \in Nat /\ MaxBuilds \in Nat

VARIABLES
  mark,      \* status of each reading in the table, "absent" if it is not there
  ended,     \* ended_at_ms of each shipment, 0 until it is completed
  now,       \* the server's clock
  pc, job,   \* where each request is, and its local variables
  shown,     \* statements that responses have carried
  signed,    \* statements with an approval
  failed,    \* shipments with a final statement that fails for good
  current,   \* final statements built since the evidence last changed
  builds     \* certificates begun

detection == <<excs, outbox, stored, seen, ordered>>
requests == <<pc, job>>
statements == <<shown, signed, failed, current>>
allVars == <<phase, detection, mark, ended, now, requests, statements, builds>>

Marks == {"absent", "accepted", "quarantined", "superseded"}

NoHash == [ship |-> {}]
NoJob == [calm |-> TRUE]

Goto(w, label) == pc' = [pc EXCEPT ![w] = label]

Finish(w) == Goto(w, "idle") /\ job' = [job EXCEPT ![w] = NoJob]

-----------------------------------------------------------------------------
(* The contents of a statement. *)

(* Variant: the window of every certificate ends now. *)
OpenWindow(end, t) == t

WindowEnd(end, t) == IF end # 0 THEN end ELSE t

InWindow(s, end, r) == r.dev \in DevicesOf[s] /\ Started[s] <= r.ts /\ r.ts <= end

TableRows == {r \in Readings : mark[r] # "absent"}

With(marks, m) == {r \in DOMAIN marks : marks[r] = m}

TempCounts(rs) == [t \in {r.temp : r \in rs} |-> Cardinality({r \in rs : r.temp = t})]

ASSUME MktAssumption ==
  \A rs \in (SUBSET Readings) \ {{}} : Mkt(TempCounts(rs)) \in Int

(* No temperatures, no MKT; no limit, nothing to exceed.                      *)
TooWarm(s, temps) ==
  s \in DOMAIN MktLimit /\ DOMAIN temps # {} /\ Mkt(temps) > MktLimit[s]

(* Reasons to fail: whole minutes over the budget, the MKT over its limit, a   *)
(* quarantined reading.                                                      *)
Reasons(s, minutes, temps, quarantined) ==
  minutes > Budget[s] \/ TooWarm(s, temps) \/ quarantined > 0

(* Variant: shipments in transit are judged, too. *)
AnyTime(s, status, minutes, temps, quarantined) ==
  IF Reasons(s, minutes, temps, quarantined) THEN "fail" ELSE "pass"

Verdict(s, status, minutes, temps, quarantined) ==
  IF status # "complete" THEN "incomplete"
  ELSE IF Reasons(s, minutes, temps, quarantined) THEN "fail" ELSE "pass"

(* first and second are the statuses of the readings in the window, as the    *)
(* certificate and then its statistics have read them; es the excursions.    *)
Statement(s, status, end, t, first, second, es) ==
  LET minutes == TotalSpan(es, t) \div Minute
      quarantined == Cardinality(With(first, "quarantined"))
      temps == TempCounts(With(second, "accepted"))
  IN  [ship |-> s, status |-> status, to |-> WindowEnd(end, t),
       total |-> Cardinality(With(second, "accepted") \union With(second, "superseded")),
       quarantined |-> quarantined,
       open |-> Cardinality({i \in DOMAIN es : es[i].status = "open"}),
       closed |-> Cardinality({i \in DOMAIN es : es[i].status = "closed"}),
       minutes |-> minutes,
       temps |-> temps,
       verdict |-> Verdict(s, status, minutes, temps, quarantined)]

(* For the properties: a final statement that fails, and not for its MKT alone, *)
(* which a reading in the window stored later, or a correction, can lower.      *)
FailsForGood(x) ==
  x.verdict = "fail" /\ (x.minutes > Budget[x.ship] \/ x.quarantined > 0)

-----------------------------------------------------------------------------
(* Building a certificate: GET .../certificate and POST .../approve. *)

BuildJob(s, sign, hash) ==
  [calm |-> TRUE, ship |-> s, sign |-> sign, hash |-> hash, now |-> now, late |-> s \in failed,
   status |-> "none", end |-> 0, first |-> <<>>, second |-> <<>>, text |-> NoHash]

(* The time is taken first.  An approval may name the hash it is to sign. *)
StartCertificate(w) ==
  /\ pc[w] = "idle"
  /\ w \in Builders
  /\ builds < MaxBuilds
  /\ builds' = builds + 1
  /\ \E s \in Ships :
       \/ job' = [job EXCEPT ![w] = BuildJob(s, FALSE, NoHash)]
       \/ \E h \in {NoHash} \union {x \in shown : x.ship = s} :
            job' = [job EXCEPT ![w] = BuildJob(s, TRUE, h)]
  /\ Goto(w, "shipment")
  /\ UNCHANGED <<phase, detection, mark, ended, now, statements>>

ReadShipment(w) ==
  /\ pc[w] = "shipment"
  /\ LET ship == job[w].ship IN
       IF phase[ship] = "none"
         THEN Finish(w)
         ELSE /\ job' = [job EXCEPT ![w].status = phase[ship], ![w].end = ended[ship]]
              /\ Goto(w, "rows")
  /\ UNCHANGED <<phase, detection, mark, ended, now, statements, builds>>

(* The readings in the window, with their statuses now. *)
Window(j) == {r \in TableRows : InWindow(j.ship, WindowEnd(j.end, j.now), r)}

ReadRows(w) ==
  /\ pc[w] = "rows"
  /\ job' = [job EXCEPT ![w].first = [r \in Window(job[w]) |-> mark[r]]]
  /\ Goto(w, "stats")
  /\ UNCHANGED <<phase, detection, mark, ended, now, statements, builds>>

(* The same query again: new rows appear, rows the session holds are not      *)
(* refreshed.                                                               *)
ReadStats(w) ==
  /\ pc[w] = "stats"
  /\ LET held == job[w].first IN
       job' = [job EXCEPT ![w].second =
                 [r \in Window(job[w]) |-> IF r \in DOMAIN held THEN held[r] ELSE mark[r]]]
  /\ Goto(w, "excursions")
  /\ UNCHANGED <<phase, detection, mark, ended, now, statements, builds>>

Built(j) ==
  Statement(j.ship, j.status, j.end, j.now, j.first, j.second, excs[j.ship])

(* Variant: a certificate of a shipment in transit can be signed. *)
AnyStatement(x) == TRUE

Signable(x) == x.verdict # "incomplete"

(* The excursions complete the statement.  It is shown, or refused as not     *)
(* final or stale, or signed in a further step.                              *)
ReadExcursions(w) ==
  /\ pc[w] = "excursions"
  /\ LET x == Built(job[w]) IN
       /\ \/ ~ job[w].sign /\ shown' = shown \union {x} /\ Finish(w)
          \/ /\ job[w].sign /\ shown' = shown
             /\ Signable(x) /\ job[w].hash \in {NoHash, x}
             /\ job' = [job EXCEPT ![w].text = x]
             /\ Goto(w, "sign")
          \/ /\ job[w].sign /\ shown' = shown
             /\ ~ (Signable(x) /\ job[w].hash \in {NoHash, x})
             /\ Finish(w)
       /\ failed' = IF FailsForGood(x) THEN failed \union {x.ship} ELSE failed
       /\ current' = IF job[w].calm /\ x.status = "complete" THEN current \union {x} ELSE current
  /\ UNCHANGED <<phase, detection, mark, ended, now, signed, builds>>

(* approve_report, with the commit of the request. *)
Sign(w) ==
  /\ pc[w] = "sign"
  /\ signed' = signed \union {job[w].text}
  /\ Finish(w)
  /\ UNCHANGED <<phase, detection, mark, ended, now, shown, failed, current, builds>>

-----------------------------------------------------------------------------
(* Everything else changes the evidence. *)

(* For the properties: statements under way, or built before, are about other *)
(* evidence from now on.                                                    *)
Disturbed ==
  [w \in Workers |-> IF pc[w] = "idle" THEN job[w] ELSE [job[w] EXCEPT !.calm = FALSE]]

(* POST .../complete: the status is checked, then written with the end. *)
StartClose(w) ==
  /\ pc[w] = "idle"
  /\ w \in Closers
  /\ \E s \in Ships, end \in Ends :
       /\ phase[s] = "in_transit"
       /\ job' = [job EXCEPT ![w] =
                    [calm |-> TRUE, ship |-> s, end |-> IF end = 0 THEN now ELSE end]]
  /\ Goto(w, "close")
  /\ UNCHANGED <<phase, detection, mark, ended, now, statements, builds>>

WriteClose(w) ==
  /\ pc[w] = "close"
  /\ phase' = [phase EXCEPT ![job[w].ship] = "complete"]
  /\ ended' = [ended EXCEPT ![job[w].ship] = job[w].end]
  /\ job' = [Disturbed EXCEPT ![w] = NoJob]
  /\ Goto(w, "idle")
  /\ current' = {}
  /\ UNCHANGED <<detection, mark, now, shown, signed, failed, builds>>

Create(s) ==
  /\ CreateShipment(s)
  /\ UNCHANGED <<mark, ended, now, requests, statements, builds>>

Fresh(r) == \A q \in TableRows : q.dev = r.dev => q.seq # r.seq

(* What Ingest accepts is calibrated and not from the future. *)
Acceptable(r) == r \in Covered /\ r.ts <= now + Skew

(* The reading is stored and evaluated. *)
Accept(r) ==
  /\ Fresh(r)
  /\ Acceptable(r)
  /\ EvaluateReading(r)
  /\ mark' = [mark EXCEPT ![r] = "accepted"]
  /\ job' = Disturbed /\ current' = {}
  /\ UNCHANGED <<ended, now, pc, shown, signed, failed, builds>>

(* The reading is stored and not evaluated. *)
Quarantine(r) ==
  /\ Fresh(r)
  /\ ~ Acceptable(r)
  /\ mark' = [mark EXCEPT ![r] = "quarantined"]
  /\ job' = Disturbed /\ current' = {}
  /\ UNCHANGED <<phase, detection, ended, now, pc, shown, signed, failed, builds>>

(* Variant: quarantined readings can be corrected, too. *)
Kept(q) == mark[q] \in {"accepted", "quarantined"}

Correctable(q) == mark[q] = "accepted"

(* The correction q -> r has the time of the reading it replaces, the next     *)
(* sequence number of the device, and is evaluated in turn.                   *)
Correct(q, r) ==
  /\ Correctable(q)
  /\ r.dev = q.dev /\ r.ts = q.ts
  /\ r.seq = Max({x.seq : x \in {y \in TableRows : y.dev = q.dev}}) + 1
  /\ EvaluateReading(r)
  /\ mark' = [mark EXCEPT ![q] = "superseded", ![r] = "accepted"]
  /\ job' = Disturbed /\ current' = {}
  /\ UNCHANGED <<ended, now, pc, shown, signed, failed, builds>>

Tick ==
  /\ now < MaxNow
  /\ now' = now + 1
  /\ UNCHANGED <<phase, detection, mark, ended, requests, statements, builds>>

CertificateInit ==
  /\ Init
  /\ mark = [r \in Readings |-> "absent"]
  /\ ended = [s \in Ships |-> 0]
  /\ now = 1
  /\ pc = [w \in Workers |-> "idle"]
  /\ job = [w \in Workers |-> NoJob]
  /\ shown = {} /\ signed = {} /\ failed = {} /\ current = {} /\ builds = 0

CertificateNext ==
  \/ \E w \in Workers :
       \/ StartCertificate(w) \/ ReadShipment(w) \/ ReadRows(w) \/ ReadStats(w)
       \/ ReadExcursions(w) \/ Sign(w)
       \/ StartClose(w) \/ WriteClose(w)
  \/ \E s \in Ships : Create(s)
  \/ \E r \in Readings : Accept(r) \/ Quarantine(r) \/ \E q \in Readings : Correct(q, r)
  \/ Tick

CertificateSpec == CertificateInit /\ [][CertificateNext]_allVars

-----------------------------------------------------------------------------
(* Properties. *)

(* Type correctness; a final statement has a final verdict.                   *)
CertificateTypeOK ==
  /\ TypeOK
  /\ mark \in [Readings -> Marks]
  /\ ended \in [Ships -> Nat] /\ now \in Nat /\ builds \in Nat
  /\ \A s \in Ships : phase[s] # "complete" => ended[s] = 0
  /\ pc \in [Workers -> {"idle", "shipment", "rows", "stats", "excursions", "sign", "close"}]
  /\ \A w \in Workers : pc[w] = "idle" <=> job[w] = NoJob
  /\ failed \subseteq Ships
  /\ \A x \in shown \union signed \union current :
       /\ x.ship \in Ships
       /\ (x.verdict = "incomplete") = (x.status # "complete")

(* What a final statement, shown or signed, says of the window and of the     *)
(* excursions stays true of the tables for good, whatever else is stored     *)
(* while it is built or after it; the readings it counts are still there.     *)
FinalFacts ==
  \A x \in shown \union signed : x.status = "complete" =>
    LET es == excs[x.ship]
        rows == {r \in TableRows : InWindow(x.ship, x.to, r)}
    IN  /\ x.to = ended[x.ship]
        /\ x.open = Cardinality({i \in DOMAIN es : es[i].status = "open"})
        /\ x.closed = Cardinality({i \in DOMAIN es : es[i].status = "closed"})
        /\ x.total + x.quarantined <= Cardinality(rows)
        /\ x.minutes * Minute <= TotalSpan(es, now)

(* Only final statements are signed, and one that passes is within budget.    *)
SignedFinal ==
  \A x \in signed :
    /\ x.status = "complete" /\ phase[x.ship] = "complete"
    /\ x.verdict = "pass" => TotalSpan(excs[x.ship], 0) < (Budget[x.ship] + 1) * Minute

(* Once a certificate of a completed shipment has failed for its excursion     *)
(* minutes or a quarantined reading, every one begun later fails for one of    *)
(* these: no correction, late reading or passing of time clears them.  (A     *)
(* failure for the MKT alone can be cleared, and is not meant.)               *)
FailureSticks ==
  \A w \in Workers : pc[w] = "excursions" /\ job[w].late => FailsForGood(Built(job[w]))

(* Final statements about the same evidence are the same, whenever they are   *)
(* made, if no excursion was left open.                                      *)
StableOnceClosed ==
  \A x, y \in current : x.ship = y.ship /\ x.open = 0 => x = y

(* A certificate of a shipment with one device whose excursions are closed     *)
(* exceeds the budget only if the breach was announced when it happened.      *)
BreachAnnounced ==
  \A x \in shown : x.open = 0 /\ x.minutes > Budget[x.ship] /\ Cardinality(DevicesOf[x.ship]) = 1
    => Breaches(x.ship) # {}

(* "Completed records are content-stable: same hash on repeat reads".         *)
ContentStable == \A x, y \in current : x.ship = y.ship => x = y
=============================================================================
