------------------------------ MODULE Simulation ------------------------------
(***************************************************************************)
(* "coldchain simulate": a process beside the server that streams synthetic  *)
(* readings of several devices through ingestion and excursion evaluation,   *)
(* in one session with one commit at the end.  From its first insert to that *)
(* commit it holds the database's write lock; before it, it has read the     *)
(* numbers its readings start from, and the devices go on sending.           *)
(***************************************************************************)
EXTENDS Integers, Sequences, FiniteSets

CONSTANTS
  Fleet,        \* devices
  Targets,      \* the device lists a run may be started with
  Steps,        \* readings per device, minutes * 60 / interval_s
  Drawn,        \* temperatures a run may draw
  Measured,     \* temperatures the devices themselves send
  MaxRuns, MaxNumber   \* bounds on the runs, and on the devices' own numbers

ASSUME SimulationAssumption ==
  /\ Targets \subseteq Seq(Fleet) \ {<<>>}
  /\ Steps \in Nat \ {0}
  /\ MaxRuns \in Nat /\ MaxNumber \in Nat

VARIABLES
  readings,    \* table readings, as committed; by is the run that stored it, 0 a request
  evaluated,   \* readings handed to the excursion evaluation, as committed
  barred,      \* devices whose readings are refused: retired, or their month locked
  sim,         \* the run in progress and its local variables
  runs,        \* number of runs so far
  summaries    \* what the completed runs returned

simVars == <<readings, evaluated, barred, sim, runs, summaries>>

Draft0 == [readings |-> {}, evaluated |-> {}]

NoRun == [pc |-> "idle", draft |-> Draft0]

Zero == [sent |-> 0, accepted |-> 0, duplicates |-> 0, quarantined |-> 0]

(* device_max_seq + 1 *)
NextNumber(x) ==
  LET own == {r.seq : r \in {s \in readings : s.dev = x}}
  IN  IF own = {} THEN {0} ELSE {n + 1 : n \in {m \in own : \A k \in own : k <= m}}

(* The tables as the session of the run sees them. *)
Seen == IF sim.draft = Draft0 THEN [readings |-> readings, evaluated |-> evaluated] ELSE sim.draft

LockFree == sim.draft = Draft0

SimStart ==
  /\ sim.pc = "idle"
  /\ runs < MaxRuns
  /\ runs' = runs + 1
  /\ \E list \in Targets :
       sim' = [pc |-> "number", list |-> list, starts |-> <<>>, t |-> 0, i |-> 1,
               draft |-> Draft0, count |-> Zero]
  /\ UNCHANGED <<readings, evaluated, barred, summaries>>

(* The first number of each device of the list, one query after the other. *)
SimNumber ==
  /\ sim.pc = "number"
  /\ \E n \in NextNumber(sim.list[Len(sim.starts) + 1]) :
       sim' = [sim EXCEPT !.starts = Append(@, n),
                          !.pc = IF Len(sim.starts) + 1 = Len(sim.list) THEN "send" ELSE "number"]
  /\ UNCHANGED <<readings, evaluated, barred, runs, summaries>>

(* ingest_reading, then evaluate_reading of what is accepted; the outcome is   *)
(* how the summary counts it.  (Ingest and Excursions have the details.)      *)
SameReading(r, m) == r.ts = m.ts /\ r.temp = m.temp

Matches(img, m) == {r \in img.readings : r.dev = m.dev /\ r.seq = m.seq}

Refuses(img, m) ==
  m.dev \in barred \/ \E r \in Matches(img, m) : ~ SameReading(r, m)

Row(m, status) == [dev |-> m.dev, seq |-> m.seq, ts |-> m.ts, temp |-> m.temp, status |-> status, by |-> runs]

(* Variant: the look-up of duplicates does not see the run's own readings. *)
OutcomesOfStored(img, m) ==
  IF Matches([readings |-> readings], m) # {} THEN {"duplicate"} ELSE {"accepted", "quarantined"}

Outcomes(img, m) ==
  IF Matches(img, m) # {} THEN {"duplicate"} ELSE {"accepted", "quarantined"}

After(img, m, outcome) ==
  [readings |-> IF outcome = "duplicate" THEN img.readings ELSE img.readings \union {Row(m, outcome)},
   evaluated |-> IF outcome = "accepted" THEN img.evaluated \union {Row(m, outcome)} ELSE img.evaluated]

Counted(c, outcome) ==
  [c EXCEPT !.sent = @ + 1,
            !.accepted = IF outcome = "accepted" THEN @ + 1 ELSE @,
            !.duplicates = IF outcome = "duplicate" THEN @ + 1 ELSE @,
            !.quarantined = IF outcome = "quarantined" THEN @ + 1 ELSE @]

(* The session is closed without a commit. *)
SimGiveUp == sim' = NoRun /\ UNCHANGED <<readings, evaluated, summaries>>

(* Variant: every reading is committed at once. *)
KeepNow(img, img2, c, last) ==
  /\ readings' = img2.readings /\ evaluated' = img2.evaluated
  /\ sim' = [sim EXCEPT !.count = c, !.t = IF last THEN @ + 1 ELSE @, !.i = IF last THEN 1 ELSE @ + 1]

(* The readings stay in the draft, and the loop goes on with the next device. *)
Keep(img, img2, c, last) ==
  /\ UNCHANGED <<readings, evaluated>>
  /\ sim' = [sim EXCEPT !.draft = IF img2 = img THEN @ ELSE img2,
                        !.count = c, !.t = IF last THEN @ + 1 ELSE @, !.i = IF last THEN 1 ELSE @ + 1]

(* One pass of the loop: a reading with a drawn temperature, and perhaps the   *)
(* identical reading once more, which is counted by its outcome and never     *)
(* evaluated.  Some readings are set back in time, which changes nothing here.*)
SimSend ==
  /\ sim.pc = "send"
  /\ sim.t < Steps
  /\ \E temp \in Drawn, again \in BOOLEAN :
       LET m == [dev |-> sim.list[sim.i], seq |-> sim.starts[sim.i] + sim.t,
                 ts |-> 2 + sim.t, temp |-> temp]
           img == Seen
       IN  \/ Refuses(img, m) /\ SimGiveUp
           \/ /\ ~ Refuses(img, m)
              /\ \E o \in Outcomes(img, m) :
                   LET img2 == After(img, m, o)
                       c == Counted(sim.count, o)
                   IN  \E o2 \in Outcomes(img2, m) :
                         Keep(img, img2, IF again THEN Counted(c, o2) ELSE c,
                              sim.i = Len(sim.list))
              /\ UNCHANGED summaries
  /\ UNCHANGED <<barred, runs>>

SimCommit ==
  /\ sim.pc = "send"
  /\ sim.t = Steps
  /\ readings' = Seen.readings
  /\ evaluated' = Seen.evaluated
  /\ summaries' = summaries \union {[run |-> runs, list |-> sim.list, count |-> sim.count]}
  /\ sim' = NoRun
  /\ UNCHANGED <<barred, runs>>

-----------------------------------------------------------------------------
(* The server, meanwhile: one-step requests, which wait for the write lock. *)

DeviceSends ==
  /\ LockFree
  /\ \E x \in Fleet \ barred, n \in 0..MaxNumber, temp \in Measured :
       LET r == [dev |-> x, seq |-> n, ts |-> 1, temp |-> temp, status |-> "accepted", by |-> 0]
       IN  /\ \A q \in readings : q.dev = x => q.seq # n
           /\ readings' = readings \union {r}
           /\ evaluated' = evaluated \union {r}
  /\ UNCHANGED <<barred, sim, runs, summaries>>

Bar ==
  /\ LockFree
  /\ \E x \in Fleet \ barred : barred' = barred \union {x}
  /\ UNCHANGED <<readings, evaluated, sim, runs, summaries>>

(* The process is stopped, or its insert times out waiting for the lock. *)
SimDies ==
  /\ sim.pc # "idle"
  /\ SimGiveUp
  /\ UNCHANGED <<barred, runs>>

SimulationInit ==
  /\ readings = {} /\ evaluated = {} /\ barred = {}
  /\ sim = NoRun /\ runs = 0 /\ summaries = {}

SimulationNext ==
  \/ SimStart \/ SimNumber \/ SimSend \/ SimCommit
  \/ DeviceSends \/ Bar \/ SimDies

SimulationSpec == SimulationInit /\ [][SimulationNext]_simVars
-----------------------------------------------------------------------------
(* Properties. *)

Of(k) == {r \in readings : r.by = k}
Having(rs, status) == {r \in rs : r.status = status}

(* A run's readings appear all together or not at all, whatever the devices   *)
(* send before it gets the lock and however it ends: a run that returns has   *)
(* stored exactly the readings its summary counts, for each device it was     *)
(* given once under consecutive numbers; any other run has stored none.  And  *)
(* a reading was evaluated exactly if it is stored and accepted.             *)
SimulationWhole ==
  /\ evaluated = Having(readings, "accepted")
  /\ \A k \in 1..runs :
       LET rs == Of(k) IN
       IF \E s \in summaries : s.run = k
         THEN \A s \in summaries : s.run = k =>
                /\ s.count.accepted = Cardinality(Having(rs, "accepted"))
                /\ s.count.quarantined = Cardinality(Having(rs, "quarantined"))
                /\ s.count.sent = s.count.duplicates + Cardinality(rs)
                /\ \A i \in DOMAIN s.list : (\A j \in DOMAIN s.list : s.list[i] = s.list[j] => i = j) =>
                     LET own == {r.seq : r \in {q \in rs : q.dev = s.list[i]}}
                     IN  Cardinality(own) = Steps /\ \A m, n \in own : m < n + Steps
         ELSE rs = {}

(* The readings of simulator and devices together behave as the write-once    *)
(* log of ReadingLog: a run that read its numbers before it had the write     *)
(* lock, and repeats readings, still uses each number of a device once, and   *)
(* its commit adds to the table without touching what is there.              *)
Log == INSTANCE ReadingLog WITH
  rows <- {[dev |-> r.dev, seq |-> r.seq, ts |-> r.ts, temp |-> r.temp, status |-> r.status,
            sup |-> -1] : r \in readings}

SimulationKeepsLog == Log!Spec
=============================================================================
