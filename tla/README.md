# Coldchain: a verification project

TLA+ modules that model the service in `src/src/coldchain/`, TLC configurations that
check them on small instances, and proofs, checked by TLAPS, of what matters most for
every size of the system.  Paths below are relative to `src/src/coldchain/` unless they
start with `docs/`, `tests/` or `README.md` (under `src/`).

## The system

Devices in shipments send temperature readings over HTTP; the service stores them
write-once, detects excursions from a shipment's temperature profile, notifies
subscribers through a webhook outbox, and issues certificates that people sign.  It is one
Python process (FastAPI, a thread pool for the synchronous routes) over one database,
SQLite in WAL mode by default.

| Component | Keeps | Operations | Correct means | Hard because |
| --- | --- | --- | --- | --- |
| Ingestion, corrections (`ingest.py`, `routers/readings.py`) | readings, devices, calibrations | ingest one, ingest a batch, supersede, retire, calibrate | a reading is stored once and never altered; what is acknowledged is stored; evidence is calibrated; one correction per reading | checks and insert are separate statements of concurrent requests; the commit follows the response; batches fail halfway |
| Period locks (`compliance.py`) | locked months with a hash | lock a month | a locked month stays what its hash says | the lock may fall between check and insert |
| Audit chain (`compliance.py`, `routers/audit.py`) | hash-chained entries per organization | append, verify | one entry per reading, no gaps | one table-wide primary key, swallowed errors |
| Excursions (`excursions.py`) | excursions per shipment and device | evaluate a reading | excursions are the runs of out-of-bounds readings; one breach event | readings arrive late and out of order, devices interleave |
| Devices, profiles, shipments (`routers/devices.py`, `routers/profiles.py`, `routers/shipments.py`) | status, window, devices, unique names | create, retire, complete | one thing per name; nothing new for a retired device; evidence of a completed shipment is final | look-up and insert are apart; races with ingestion |
| Outbox (`webhooks.py`) | deliveries, endpoints | enqueue, dispatch | every event is delivered or given up after its attempts | overlapping dispatches, crashes, lock timeouts |
| Certificates, approvals (`reports.py`, `routers/reports_extra.py`) | approvals | certificate, approve | the hash is a function of the evidence; a signature binds what was seen | clock-dependent statistics, several reads per certificate |
| Idempotency keys (`deps.py`) | stored responses | look up, store | one request and one answer per key; a replayed answer is backed by what is stored | look-up and store are apart; the store is an upsert |
| Temperature, months (`temp.py`, `compliance.py`) | — | convert, month of a time, bounds of a month | rounding to the nearest; a lock refuses exactly what it has hashed | ties, negative values, leap years, the last year |
| Simulator (`cli.py`) | — | stream readings in one transaction | all of a run or none of it | devices send meanwhile |
| Auth, settings, API wiring, other commands | — | look-ups and declarations | — | — |

Ingestion calls the excursion engine and the audit log inside its own transaction; the
excursion engine enqueues webhook rows inside the same transaction; dispatch reads them in
later requests.  Locks, certificates and audits read what ingestion committed.  So the
components interact through the tables, and the database's write lock is the only
synchronization.

### What the database does

The models rest on these facts about the code's configuration (`db.py`, `deps.py`):

- A SELECT before the first write of a session runs outside of a transaction and sees what
  is committed at that moment.  The first INSERT or UPDATE takes SQLite's single write
  lock; until the commit the session sees its own image, and no other session writes.
- A writer that finds the lock taken waits 30 s (`db.py:32`), then its request fails.
- A failed flush rolls the session back and leaves it unusable: the next statement and the
  commit raise.  `routers/readings.py:82` swallows the error of the audit insert itself,
  so a single-item request is still answered 201.
- `get_db` commits after the route has returned (`deps.py:35`), which in the locked FastAPI
  version is after the response was sent.

## The modules

| Module | Stands for | Role |
| --- | --- | --- |
| `ReadingLog` | what the readings table promises: a write-once log | abstract specification, of `Ingest` and of `Simulation` |
| `Ingest` | requests that ingest, correct, lock, retire and calibrate, concurrently | refines `ReadingLog` |
| `IngestProofs`, `IngestEvidence` | theorems about `Ingest` | types, refinement; evidence, audit, answers, locks |
| `Excursions` | `evaluate_reading` for all shipments of a device | reference definition by runs |
| `FiniteSums` | sums over finite sets; induction by a least counterexample | lemmas for the other proofs |
| `ExcursionsProofs` | theorems about `Excursions` | types; breach; runs |
| `Outbox` | endpoints, the fan-out of events, `dispatch_due` by overlapping requests | |
| `OutboxProofs` | theorems about `Outbox` | types; overlap; one dispatch at a time |
| `Certificate` | certificates and approvals, over `Excursions` | composes with it by EXTENDS |
| `CertificateProofs` | theorems about `Certificate` | implements `Excursions`; statements |
| `NameRegister` | what names and idempotency keys promise: a register that only grows | abstract specification |
| `Registry` | requests that create, retire and complete things under idempotency keys | refines `NameRegister` |
| `RegistryProofs` | theorems about `Registry` | types; refinement; keys |
| `AuditChain` | the hash chain, damage to it, and `verify_audit` | |
| `Conversions` | `parse_temp_to_mc`; months of `lock_period` and `period_locked` | checked against reference definitions |
| `Simulation` | `coldchain simulate` beside a serving process | refines `ReadingLog` |
| `ServiceProofs` | theorems about `AuditChain`, `Conversions`, `Simulation` | audit; rounding, months; runs, refinement |
| `MC*` | instances for TLC | |

**Ingest.**  `rows`, `log`, `locks`, `cals`, `retired` are the committed tables; `draft` is
the image of the transaction that holds the lock, `writer` its thread.  A worker is a
thread with a session: `pc[w]` is the next database access of its handler, `job[w]` its
local variables.  One request is `StartIngest`, then for each item of the batch
`ReadDevice`, `ReadDuplicate`, `ReadPeriod`, `Classify`, `Insert` (a stop at any of the
first three settles the item with an error or as a duplicate), then `Respond` and `Commit`.
A correction is `StartSupersede`, `FixReadPeriod`, `FixReadSeq`, `FixWrite`, `Respond`,
`Commit`; a lock is `StartLock` and `LockWrite`.  `acked` records what responses reported
as stored, `conflicted` what they refused as sequence conflicts.  Merged into one step,
because nothing another request can do in between changes the outcome: the clock and
calibration reads of `Classify`, the lock check and snapshot of `StartLock`, a reading's
insert with its audit entry (both under the write lock).  Left out: humidity, battery, the
informational `late` flag; keys of batches (`Registry`) and months of unequal length
(`Conversions`).

**Excursions.**  Evaluation runs in the transaction that stores the reading, so it is one
step.  `Evaluate` and `Events` translate the per-shipment branch structure;
`EvaluateReading` applies them to every shipment in transit with the reading's device.
`seen` and `ordered` are history for the properties: the readings evaluated against a
shipment, and whether each device's came in the order of their numbers.  Readings arrive in
any order, or, with `TimeOrder`, in that of their times.  The creation and completion of shipments are reduced to the status that
detection reads; the window belongs to `Certificate`, the reference to `Registry`.

**Outbox.**  `table` is `webhook_deliveries`, a delivery being an event for an endpoint.
`CreateEndpoint` registers one; `Enqueue` adds a delivery for every endpoint active when the
event occurs, in any order, since the query asks for none.  A dispatch loads the due rows,
posts one after the other, and writes each result back by an UPDATE of the columns it
changed (`Update`), which is what SQLAlchemy emits.  It reads the endpoint before each post,
but its session does not refresh the row it still holds from the delivery before (`Held`).
A dispatch keeps the places of its deliveries in `created` as a set, `todo`: it serves the
oldest first, so the set says the order.
`next_retry_at` is a countdown, so the clock is not a bounded counter.  `Deactivate` is an
operator's change to the table, for which the service has no route.

**Certificate.**  Extends `Excursions` (whose evaluation is part of `Accept` and `Correct`
here) with the table of readings by status (`mark`), the windows (`ended`), the clock, and
requests that build a certificate by one step per query: `StartCertificate` takes the time,
`ReadShipment`, `ReadRows`, `ReadStats` and `ReadExcursions` follow, `Sign` inserts the
approval.  A session does not refresh rows it holds, so `ReadStats` mixes the statuses of
`ReadRows` with rows committed since.  `shown` and `signed` keep the statements; `failed`,
`current` and the job's `late` and `calm` are history for the properties.  Completion is
`StartClose` (the check) and `WriteClose`.  `Builders` and `Closers` say which workers serve
what: with two closers two completions race, and the later one moves the end of a window
that certificates already state.  The MKT is floating point in the code and here an
uninterpreted operator `Mkt` on the counts of the accepted temperatures, which is all it depends on;
`MktLimit` holds the limits of the profiles that set one.  A failure for the MKT alone is not
final: a late reading in the window, or a correction of a warm one, can bring it under the
limit after completion.  `FailsForGood` tells the other failures apart, those for
excursion minutes and quarantined readings, and `failed` and `FailureSticks` are about them.

**Registry.**  Devices, profiles, shipments and single-reading batches are `things`, which a
request enters after its look-ups and under the write lock; `records` are the idempotency
records.  A keyed request is `Begin`, `Lookup` (a hit replays the stored answer, another
body is refused), the check of its kind, `Enter` (row and record in one draft) and `Finish`
(response and commit).  A batch that stores nothing comes to its `merge` without the lock,
and SELECT and INSERT or UPDATE are two steps (`StoreRead`, `StoreWrite`); the UPDATE writes
only the columns that differ from what was read.  Errors are never stored under a key, but
the per-item refusals of a batch are, since the batch itself is a success.  `Settle` retires
a device or completes a shipment.  `answered`, `raced` and `afterlife` are history for the
properties: the answers sent and committed, the keys two requests in flight have shared,
and what was entered for a device that was retired before the request began.  A crash
between response and commit is the subject of `ingest_crash`; here both are one step.

**AuditChain.**  An entry's hash is the value it is computed from, so different contents
have different hashes and nobody but the program can make one; `target` and `detail` are
sequences of lines, since `_audit_hash` joins all fields with line breaks and the hash does
not tell where one ends (`MoveBreak`).  `Damage` is any change made behind the program's
back.  `Checked` is what `verify_audit` counts before it stops, `VerifyOK` its verdict.  By
`CheckedGenuine` a chain that verifies is one the program wrote, though possibly an old one:
losing the newest entries, or all, or putting back a whole old copy, is not noticed.

**Conversions.**  Two questions and their answers: a temperature in ten-thousandths of a
degree, one digit finer than what is stored, against nearest-millidegree rounding; a month
to lock and a time at some distance (`Offsets`) from its bounds, where the calendar of
`_month_bounds_ms` (bounds by year and month) and that of `period_locked` (month of a time)
must agree.  Quotients of the Fahrenheit conversion are exact here; Python's 28 digits tell
them from a half wherever the temperature is anywhere near the physical range.

**Simulation.**  `SimNumber` reads each device's next number before the first insert;
`SimSend` is one pass of the loop, the duplicate it may send included; `SimCommit` ends it.
`ingest_reading` and `evaluate_reading` appear by their outcomes, which `Ingest` and
`Excursions` detail.  `DeviceSends` and `Bar` (a retirement or a lock) are the server,
which waits while the simulation holds the write lock.  The simulator writes no audit entries.
A device listed twice gets one sequence of numbers for both places and may end with gaps,
which `SimulationWhole` exempts.  Like `Ingest`, simulator and devices are shown to implement
`ReadingLog` (`SimulationKeepsLog`): the two ways readings get into the table promise the same.

## The runs

| Run | Instance | Shows |
| --- | --- | --- |
| `ingest_race` | 2 workers, 1 device, 4 messages, 4 batches, 2 corrections, timeouts, fair | `TypeOK`, `AckedIsStored`, `OneAnswer`, `QuarantineSound`, `SupersedeLinks`; `WriteOnce` (refinement); `RequestsFinish` (liveness) |
| `ingest_serial` | 1 worker, 2 organizations, month locks, corrections, crashes | `AuditComplete`; `LockedFrozen` and `SupersededOnce` hold if requests do not overlap |
| `excursions_late` | 2 shipments, 2 devices, 5 readings with 2–3 temperatures, any order, one clock jump | `OneOpen`, `SpansSound`, `BreachExact`, `OrderedRuns`, `EvidenceKept` |
| `certificate_overlap` | 1 shipment, 3 readings (one a correction), 1 builder and 1 closer, 2 certificates, clock 1..4, a mean for the MKT | `CertificateTypeOK` (with the `TypeOK` of `Excursions`), `FinalFacts`, `SignedFinal`, `FailureSticks`, `StableOnceClosed`, `BreachAnnounced` |
| `outbox_overlap` | 2 dispatches, 1 event for 2 endpoints, 3 attempts, all faults, symmetry | `TypeOK`, `DeliveredWasAccepted`, `FailedWasExhausted`, `AttemptsCovered`, `SettledStays` |
| `outbox_serial` | 1 dispatch at a time, 3 events for 1 endpoint, deactivation, 2 per dispatch, 4 attempts, fair | `AttemptsExact`, `DeliveredStays`; `EveryEventSettles` (liveness) |
| `service_parts` | each part alone: `Registry` with 2 threads, 2 organizations, 4 of 11 requests, crash and timeout; `AuditChain` with 2 organizations, 3 entries, 3 damages; `Conversions` around its edges; `Simulation` with 2 devices, 2 steps, 2 runs | `RegistryTypeOK`, `KeyHonoured`, `ReplayBacked`, `NothingAfterRetirement`; `KeepsRegister` (refinement); `IntactVerifies`, `CheckedGenuine`; `ParseExact`, `LockCoversSnapshot`; `SimulationWhole`, `SimulationKeepsLog` (refinement) |

Five further runs each end in a counterexample to something the repository says of itself:

| Run | Refutes | In short |
| --- | --- | --- |
| `ingest_crash` | docs/adr/0002 "complete at-least-once protocol" | response sent, process dies, reading gone |
| `ingest_collision` | `compliance.py` "per-org hash chain" | a second organization's readings are answered 201 and lost, because `audit_log.seq` is the key of the whole table |
| `ingest_freeze` | docs/RUNBOOK.md "After locking, ingest/supersede ... fails 409" | check, lock, insert |
| `excursions_breach` | `excursions.py` "at most once per crossing", `tests/test_excursions.py` breach exactly once | two devices: the open excursion of one counts toward the total at the close of the other, and again at its own (`BreachExactlyOnce`) |
| `certificate_stable` | docs/adr/0003 "pure function of evidence", `tests/test_api.py` "same hash on repeat reads" | an excursion left open at completion counts on, and the hash changes with the clock |

More follows from the models and has no run of its own:

- `SupersededOnce`, which `ingest_serial` checks, fails with two workers: two corrections of
  one reading pass the status check together and are both accepted (`tests/test_ingest.py`
  rejects the second when they do not overlap).
- A correction takes the device's next sequence number (`FixReadSeq`), so the device's next
  reading may be refused as a conflict, although docs/adr/0002 says "The server never
  assigns sequence numbers".  What still holds is `OneAnswer`.
- Two requests in flight with one idempotency key and different bodies both succeed, where
  docs/adr/0002 has the second refused; the later commit overwrites the record.  With three
  batches racing on a key, the column-wise UPDATE can leave the request hash of one beside
  the answer of another.  `KeyHonoured` and the second half of `ReplayBacked` therefore
  exempt raced keys.
- `OrderedRuns` needs its premise: a late reading changes the excursions (docs/adr/0002
  speaks of a "stable causal order").
- A correction committed between the two queries of a certificate counts in its statistics
  beside the reading it replaced, whose row the session holds as accepted; so "MKT/min/max
  run over accepted temperatures only" (`excursions.py`) is not quite true.
- docs/RUNBOOK.md advises to supersede a quarantined reading, which `supersede_reading`
  refuses: by `FailureSticks` the shipment fails for good.

### Bounds

`MaxNow`, `MaxCorrections`, the sets `Messages`, `Batches`, `Windows`, `LockPeriods`,
`Readings`, `Events` and `Endpoints`, `MaxAttempts`, `MaxBuilds`, `Requests`, `MaxRequests`,
`MaxEntry`, `MaxDamages`, `Digits`, `Years`, `Offsets`, `Steps`, `MaxRuns` and `MaxNumber` bound the instances; `posts` saturates one
above `MaxAttempts`, as no property tells larger counts apart.  Two workers suffice for
every race in the code: it is always one request's step between two steps of another.  Two
messages with one key, a batch of two, two corrections (a correction of a correction, or
two of one reading) are the least that let duplicates, half-failed batches and chains
happen; the budget, a minute of two clock units, is exceeded by one long or two short
excursions; four readings of a device make two excursions.  Four requests
are a device, what is done under a key, its replay and its rival; three entries have a
first, a middle and a last, and three damages are a deletion, a renumbering and a relinking.
The parts of `MCService` run in separate behaviours (`part`), so their states add up.  Every property has a variant of
a definition (named in its comment, listed in `PROJECT.json`) that breaks it in its run, so
the bounds do let the interesting cases happen.

### Fairness

`Ingest!FairSpec` assumes of each worker only that the thread of a started request keeps
running (weak fairness of its handler, the busy timeout included); requests need not come.
A worker that waits for the lock gets it or times out, which is what `db.py:32` provides;
the holder never waits for anybody, so the lock comes free.  `Outbox!FairSpec` adds that dispatches keep
coming, as docs/RUNBOOK.md prescribes ("schedule it (cron every minute)"), and that time
passes.  It assumes no crash: a crash per dispatch defeats any
retry count.

## The proofs

All theorems hold for arbitrary sets of organizations, devices, workers, readings, profiles,
faults, keys, requests and notices, under `ConstantsAssumption`, `ShipmentsAssumption`,
`OutboxAssumption`, `CertificateAssumption`, `MktAssumption`, `NoticesAssumption`, `RegistryAssumption`,
`DigitsAssumption` and `SimulationAssumption`: types of the constants; devices and endpoints
are finitely many; the physical range is around zero; years are those of four digits; `NoWorker`, `NoThread` and
`NoKey` are none of the others; and, as the routes have it, profiles, retirements and
completions take no key, and devices and profiles refer to no device.

Some properties do not hold of the code unconditionally.  Their theorems state, as the
assumption of the theorem, the premise under which a run checks them:

| Premise | Theorems | Without it |
| --- | --- | --- |
| one organization, no crash | `Acknowledged`, `Answered` | `ingest_collision` and `ingest_crash` lose an acknowledged reading; once it is lost, its retry may be answered otherwise |
| one worker (`Ingest`) | `Frozen`, `CorrectedOnce` | `ingest_freeze`; two corrections pass the status check together |
| one worker (`Outbox`) | `DeliveredFinal`, and without crashes `AttemptsCounted` | a slower dispatch overwrites what another wrote; a crash forgets attempts |
| one closer | `FinalFactsStay`, `FailuresStick` | the second of two completions moves the end of a window |

**Ingest.**

- `TypeCorrect`: `TypeOK` needs one more fact to be inductive: an item past the
  device check has valid fields (`ItemChecked`), or the row it becomes would not be typed.
- `Refinement`: `Spec => WriteOnce`.  `LogInv` adds that keys are distinct, that
  the open draft extends the committed rows (`DraftExtends`), and that the original a
  correction has read is still stored with the same measurement (`OrigStored`): then every
  commit is a step of `ReadingLog` and every other step a stutter.
- `EvidenceInv` carries `QuarantineSound`, `SupersedeLinks` and
  `AuditComplete` for the draft as for the committed tables, and what a request has read
  about its item (its verdict, its original, the sequence number it will use).
  `Calibration`, `Corrected` and `Audited` follow.
- `AnswersInv` says that what a request will report is in the tables it sees (`DoneStored`)
  and that what responses have reported is stored or in the open draft, which nothing but a
  crash or a rolled-back draft could take away: one organization has no audit collision
  (`NoCollision`), so no draft is rolled back with readings in it that have been answered.
- `AloneInv` says that with one worker nothing comes between what a request reads and its
  writing (`Unchanged`): the month is still open, the original still uncorrected.

**Excursions.**

- `SingleInv` is the type invariant with "no device has two
  open excursions" per list of excursions; it makes the query for the open excursion
  single-valued, and from it follow `TypeCorrect`, `OneOpenAlways`, `EvidenceIsKept` (an
  action property) and, with the readings seen, `SpansAreSound`.
- `BreachesExact` has no premise: with one device, every open excursion is the one being
  closed, so the total without it is that of the closed ones, and the total of the closed
  ones only grows.  `BreachInv` says so of the list of events; it rests on `TotalSplit`,
  `TotalAppend`, `TotalReplace` and `TotalGrows`, lemmas about the sum `TotalSpan`.
- `RunsOfReadings`: the excursions are the runs of the readings, if each device's come in
  the order of their numbers.  `OrderInv` has an enumeration of the starts of runs, in the
  order in which the excursions were opened, and `Lasting` is the link between the two sides:
  a run has no end exactly if nothing in bounds has come after its start
  (`LastingOpen`), a device has one such run at most (`OneLasting`) and one if any of its
  readings is so (`LastingStart`).  `RunsMove`, `StartsMove` and `ExcursionMoves` say what the
  newest reading of a device changes about runs, `EvaluateListed` that `Evaluate` does the same.

**Outbox.**

- `OutboxInv` says of every row, be it committed, in a draft or about to be written, that
  it is justified by what subscribers answered and by the requests made (`RowOK`), that a draft
  unsettles nothing (`Follows`), and that what a dispatch has loaded was pending with no more
  attempts than were posted (`LoadedOK`).  `DeliveredAccepted`, `FailedExhausted`,
  `AttemptsMade` and `SettledFinal` follow, for any number of overlapping dispatches.
- `Alone` and `Counted` are the invariants of one dispatch at a time: the deliveries it still
  has at hand are pending in the image it works on, with the attempts it has loaded.

**Certificate.**

- `DetectionUndisturbed`: `CertificateSpec => Spec`, where `Spec` is that of `Excursions`.  So
  every theorem about excursions holds amid certificates, corrections and completions.
- `CoreInv` types tables and requests: what a request has read of a completed shipment is
  still so, and rows it has read are rows of its window.  `Forward` is what no step takes
  back: a completed shipment stays completed with its excursions, rows stay in the
  table, a quarantined one stays quarantined, a breach stays announced.
- `SaidInv` says of every statement shown, signed or under way what goes on to be true of
  the tables; `CertificateTypeCorrect`, `FinalSigned` and `AnnouncedBreach` follow, with any
  number of racing completions.  The last needs `BreachExact` of `Excursions`, and that
  truncated minutes over the budget are a total over the budget.
- `CalmInv`: a request under which the evidence has not changed holds it as it is, and so
  does a statement in `current`; without an open excursion the time of the request drops
  out of the total (`StableStatements`).
- `FinalInv`: once a shipment has failed for more than its MKT, the ground for it stays, whether a quarantined
  reading or a total over the budget (`Doomed`), and every later request that reads the
  shipment meets it (`LateJob`).

**Registry and audit chain.**

- `AuditInv` says that entries are typed, that a number occurs once in
  the table (its primary key), that whatever was written carries its own hash and every hash
  in the table is that of a written entry or none at all (`HashesWritten`), and that the
  entries of an untouched organization are all `Good`.  `Good` is about the neighbour
  below, so a new newest entry disturbs no older one; that gives `IntactAlways`.
  `GenuineAlways` needs that a verified hash equal to a written one fixes the text, and,
  by the links, that each checked entry follows a checked one.
- `Shapes` reduces every step of `Registry` to one of a few shapes, and each invariant
  has a lemma per shape.  `TypeInv` gives `TypeCorrect`.  `SafeInv` adds that ids are unique and a
  request's number is its own, that records are backed, that what a request has checked
  still holds when it writes (`Waits`), and that the draft of the lock's holder is one step of
  `NameRegister` ahead of the tables (`DeskAhead`): so the holder's commit is that step, and
  every other step a stutter (`Refinement`); devices settled before a request stay so
  (`RetiredStays`).  `KeyInv` adds that two requests in progress with one key have raced, that
  a draft changes records under its holder's key only, and that a request alone with its key
  has found nothing under it and leaves there exactly what it answers (`Alone`), whence
  `KeysHonoured` and `ReplaysBacked`.

**Conversions.**

- `TemperaturesExact`: for every integer number of ten-thousandths, in each unit.
  `RoundedNear` is about the quotient that rounds, `RangeExact` says that comparing the
  rounded value with the range is comparing the exact one with the range widened by half a
  millidegree.
- `LocksAreSnapshots`: for every month of the years 0 to 9999 and every time since 1970.  The
  years of `MonthOf` are found by search and its months by a recursive table, so the proof
  is about the calendar: the days before a year are within two of 365.2425 each
  (`YearBounds`), every day is in a year, the least one that ends after it (`YearExists`,
  by `LeastNumber`), the search looks far enough to find it and there is no other (`YearFound`),
  the table is the calendar (`ElapsedIs`, its recursion unrolled), and a day is in one month of
  its year (`MonthFound`).  `SnapshotDays` carries that from days to times: bounds are midnights.

**Simulation.**

- `SimulationInv` says what a run in progress has added to the tables it sees (`Added`): all
  of it is the run's, the summary counts it (`CountsAgree`), and a device that is listed once has
  consecutive numbers, one for each step so far (`OneByOne`).  What makes that inductive is
  `NumbersTaken`: a number was read before the lock, so a device may store readings from there on
  meanwhile, but at other times than the run's, so that the run ends there
  (`Refuses`) and never takes one for a reading of its own (`NextIsNew`).  `SendShapes` reduces a
  pass of the loop to giving up, a repetition or an insert.  `RunsWhole` follows, and with
  `KeysOnce` of the tables the session sees, `SimulationLogs`.

**Induction over data.**  The library's induction theorems take an operator, which the provers
cannot instantiate.  `FiniteSums` uses its theorem that well-founded relations have minimal
elements instead, which takes a set: what fails somewhere fails at a least number
(`LeastNumber`) or on a smallest set (`SmallestSet`), and holds below it.  So it is proved
that the community modules' `SumFunction` is a sum whatever order it picks its elements
in (`SumsExist`, `SumsAgree`, `SumRemove`), and that the recursive `PowerOf2` of the backoff is
a function to the naturals (`OutboxProofs!PowerType`).

Every invariant, action property and refinement that a passing run checks is stated by a
theorem.  Only model-checked: the liveness properties `RequestsFinish` and
`EveryEventSettles`, since liveness under fairness is beyond this prover, as is ENABLED.

## Not modelled, and why

- The computation of the MKT, and floating-point minutes: TLC has no floating point.  The
  theorems hold for any `Mkt`; the runs take the mean, with a limit that one too warm reading
  exceeds and a cool one more brings it under.  Minutes are exact sums here.
- The computation of hashes and signatures: a hash is the value it is computed from.
- Authentication, schemas and settings: look-ups and declarations without state changes.
- Commands other than `simulate`: each inserts one row or prints what a modelled component
  computes.  `format_mc`: display only.
- PostgreSQL, which `db.py` also allows, would interleave more than SQLite's write lock does.

## Plan

Done, in this order: `ReadingLog`, `Ingest` with its proofs, `Excursions` with its proofs,
`Outbox`, `Certificate`, `NameRegister`, `Registry` with its proofs, `AuditChain` with its proofs,
`Conversions`, `Simulation`, the proofs of `Outbox`, `Certificate`, `Conversions` and
`Simulation`.  Open, most important first:

1. A device that sends number N until acknowledged over a channel that loses and
   duplicates, composed with `ReadingLog`; retirement and corrections in between.
2. What still holds of final statements when completions race.
