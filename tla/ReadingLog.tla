------------------------------ MODULE ReadingLog ------------------------------
(***************************************************************************)
(* What the readings table promises to everything built on it (certificates, *)
(* period locks, audits): a write-once log.                                 *)
(*                                                                         *)
(* A stored reading is never removed and its measurement (device, seq, ts,  *)
(* temp) never changes; a (device, seq) pair is used once; a reading changes *)
(* status only from accepted to superseded, and only together with the       *)
(* correction that replaces it.  The two-argument operators relate the table *)
(* before and after a transaction, so that the detailed specification can    *)
(* also state them of a transaction that is still open.                      *)
(***************************************************************************)
EXTENDS Integers

VARIABLE rows

(* The database identity of a reading, uq_readings_device_seq. *)
Key(r) == <<r.dev, r.seq>>

(* The columns no statement of the program updates. *)
Measurement(r) == [dev |-> r.dev, seq |-> r.seq, ts |-> r.ts, temp |-> r.temp]

(* supersedes_id of a row that corrects nothing. *)
NoSup == -1

(* No row of table t uses the identity of r. *)
Fresh(r, t) == \A s \in t : Key(s) # Key(r)

DistinctKeys(t) == \A r, s \in t : Key(r) = Key(s) => r = s

Superseded(r) == [r EXCEPT !.status = "superseded"]

(* new is a correction of old. *)
Corrects(new, old) ==
  /\ new.sup = old.seq
  /\ new.dev = old.dev
  /\ new.ts = old.ts
  /\ new.status = "accepted"

-----------------------------------------------------------------------------
(* Readings from devices are added to table t, nothing else happens to it. *)
Appends(t, u) ==
  /\ t \subseteq u
  /\ DistinctKeys(u)
  /\ \A r \in u \ t : r.sup = NoSup /\ r.status \in {"accepted", "quarantined"}

(* A correction enters the table as the reading it replaces leaves the set of *)
(* accepted ones.                                                           *)
CorrectsIn(t, u) ==
  \E old \in t, new \in u :
    /\ old.status = "accepted"
    /\ Fresh(new, t)
    /\ Corrects(new, old)
    /\ u = (t \ {old}) \union {Superseded(old), new}

(* Two corrections of one reading raced: the second finds it superseded by   *)
(* the time it is written, and is stored beside the first.                   *)
CorrectsAgain(t, u) ==
  \E old \in t, new \in u :
    /\ old.status = "superseded"
    /\ Fresh(new, t)
    /\ Corrects(new, old)
    /\ u = t \union {new}

-----------------------------------------------------------------------------
Init == rows = {}

Next ==
  \/ Appends(rows, rows')
  \/ CorrectsIn(rows, rows')
  \/ CorrectsAgain(rows, rows')

Spec == Init /\ [][Next]_rows
=============================================================================
