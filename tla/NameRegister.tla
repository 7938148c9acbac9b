----------------------------- MODULE NameRegister -----------------------------
(***************************************************************************)
(* What the tables of devices, profiles, shipments and readings, together    *)
(* with the idempotency records, promise to their clients: a register of     *)
(* names that only grows.                                                    *)
(*                                                                         *)
(* A thing is entered once, in service, under an identity nobody else has;   *)
(* it is never removed or altered, except that it may go out of service for  *)
(* good.  A remembered answer may be replaced, but never by one that names a *)
(* thing which is not stored, or one of another organization.               *)
(***************************************************************************)

VARIABLES things, records

(* The unique constraints: a reading is known by its device and number, any  *)
(* other thing by its name within its organization and table.               *)
Identity(t) ==
  <<t.org, t.body.kind, t.body.name, IF t.body.kind = "reading" THEN t.body.uses ELSE {}>>

Named(t, ts) == \E u \in ts : Identity(u) = Identity(t)

(* The primary key of an idempotency record. *)
Slot(r) == <<r.org, r.key>>

(* thing of an answer that names none. *)
NoThing == 0

Backed(r, ts) ==
  r.answer.thing = NoThing \/ \E t \in ts : t.id = r.answer.thing /\ t.org = r.org

Settled(t) == [t EXCEPT !.status = "settled"]

-----------------------------------------------------------------------------
Enters(ts, us) ==
  \E t \in us :
    /\ ~ Named(t, ts)
    /\ \A u \in ts : u.id # t.id
    /\ t.status = "active"
    /\ us = ts \union {t}

Settles(ts, us) == \E t \in ts : us = (ts \ {t}) \union {Settled(t)}

(* At most one answer is added or replaced, and it is backed by ts. *)
Remembers(rs, qs, ts) ==
  \/ qs = rs
  \/ \E q \in qs : Backed(q, ts) /\ qs = {r \in rs : Slot(r) # Slot(q)} \union {q}

Init == things = {} /\ records = {}

Next ==
  \/ Enters(things, things') /\ Remembers(records, records', things')
  \/ things' = things /\ Remembers(records, records', things)
  \/ Settles(things, things') /\ records' = records

Spec == Init /\ [][Next]_<<things, records>>
=============================================================================
